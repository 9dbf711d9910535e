-------------------------- MODULE TrainingDataProofs --------------------------
(***************************************************************************)
(* Proofs about the data of a job, for any job and any ranks it is         *)
(* launched on, however often it crashes: the iterations worked out before *)
(* the start fit the data, no dataset is read before it is built, and each *)
(* sample is trained on once.                                              *)
(***************************************************************************)
EXTENDS TrainingData, FiniteSetTheorems, WellFoundedInduction, SequenceTheorems, TLAPS

-----------------------------------------------------------------------------
(* Natural numbers: induction in its first-order form, and division.         *)

(* A nonempty set of natural numbers has a least element. *)
LEMMA LeastNat ==
  ASSUME NEW T, T \subseteq Nat, T # {}
  PROVE  \E x \in T : \A y \in T : x <= y
<1> DEFINE R == OpToRel(<, Nat)
<1>1. \A x, y \in Nat : y < x => <<y, x>> \in R
  BY DEF OpToRel
<1>2. IsWellFoundedOn(R, Nat)
  BY NatLessThanWellFounded
<1> HIDE DEF R
<1>3. PICK x \in T : \A y \in T : ~(<<y, x>> \in R)
  BY <1>2, WFMin
<1>4. ASSUME NEW y \in T PROVE x <= y
  <2>1. x \in Nat /\ y \in Nat /\ ~(y < x)
    BY <1>1, <1>3
  <2>2. QED
    BY <2>1
<1>5. QED
  BY <1>4

(* A set of natural numbers that is closed under successor and has 0 is all *)
(* of them.                                                                  *)
LEMMA NatInductionSet ==
  ASSUME NEW T, 0 \in T, \A n \in Nat : n \in T => n + 1 \in T
  PROVE  Nat \subseteq T
<1>1. ASSUME NEW n \in Nat, n \notin T PROVE FALSE
  <2>1. PICK x \in Nat \ T : \A y \in Nat \ T : x <= y
    BY <1>1, LeastNat
  <2>2. x # 0 /\ x - 1 \in Nat
    BY <2>1
  <2>3. x - 1 \in T
    BY <2>1, <2>2
  <2>4. x \in T
    BY <2>2, <2>3
  <2>5. QED
    BY <2>1, <2>4
<1>2. QED
  BY <1>1

(* Quotient and remainder of a division. *)
LEMMA Divided ==
  ASSUME NEW x \in Int, NEW d \in Nat \ {0}
  PROVE  /\ x \div d \in Int /\ x % d \in 0 .. d - 1
         /\ x = d * (x \div d) + (x % d)
         /\ x >= 0 => x \div d \in Nat
<1>1. /\ x \div d \in Int /\ x % d \in 0 .. d - 1
      /\ x = d * (x \div d) + (x % d)
  OBVIOUS
<1>2. PICK a \in Int, b \in 0 .. d - 1 : a = x \div d /\ b = x % d /\ x = d * a + b
  BY <1>1
<1>3. ASSUME x >= 0, a <= -1 PROVE FALSE
  <2>1. d * a <= -d
    BY <1>3
  <2>2. QED
    BY <1>2, <1>3, <2>1
<1>4. x >= 0 => a \in Nat
  BY <1>2, <1>3
<1>5. QED
  BY <1>1, <1>2, <1>4

(* a and b are quotient and remainder of x divided by d. *)
Digits(x, d, a, b) == d \in Nat \ {0} /\ a \in Int /\ b \in 0 .. d - 1 /\ x = d * a + b

(* No others are. *)
LEMMA DivUnique ==
  ASSUME NEW a, NEW d, NEW b, NEW x, Digits(x, d, a, b)
  PROVE  x \div d = a /\ x % d = b
<1> USE DEF Digits
<1> DEFINE q == x \div d
           m == x % d
<1>1. q \in Int /\ m \in 0 .. d - 1 /\ x = d * q + m
  OBVIOUS
<1> HIDE DEF q, m
<1>2. d * (q - a) = b - m
  BY <1>1
<1>3. PICK e \in Int : e = q - a
  BY <1>1
<1>4. d * e = b - m
  BY <1>2, <1>3
<1>5. e >= 1 => d * e >= d
  BY <1>3
<1>6. e <= -1 => d * e <= -d
  BY <1>3
<1>7. e = 0
  BY <1>1, <1>3, <1>4, <1>5, <1>6
<1>8. QED
  BY <1>1, <1>3, <1>7 DEF q, m

(* Division by d is monotone, takes off multiples of d, and is at least k    *)
(* from d * k on.                                                            *)
LEMMA DivShift ==
  ASSUME NEW x \in Int, NEW d \in Nat \ {0}, NEW k \in Int
  PROVE  (x - d * k) \div d = (x \div d) - k /\ (x - d * k) % d = x % d
<1>1. PICK a \in Int, b \in 0 .. d - 1 : a = x \div d /\ b = x % d /\ x = d * a + b
  BY Divided
<1>2. d * (a - k) = d * a - d * k
  OBVIOUS
<1>3. PICK y : y = x - d * k
  OBVIOUS
<1>4. Digits(y, d, a - k, b)
  BY <1>1, <1>2, <1>3 DEF Digits
<1>5. y \div d = a - k /\ y % d = b
  BY <1>4, DivUnique, Zenon
<1>6. QED
  BY <1>1, <1>3, <1>5

LEMMA DivMonotone ==
  ASSUME NEW x \in Int, NEW y \in Int, NEW d \in Nat \ {0}, x <= y
  PROVE  x \div d <= y \div d
<1>1. PICK a \in Int, b \in 0 .. d - 1 : a = x \div d /\ x = d * a + b
  BY Divided
<1>2. PICK e \in Int, f \in 0 .. d - 1 : e = y \div d /\ y = d * e + f
  BY Divided
<1>3. ASSUME a >= e + 1 PROVE FALSE
  <2>1. d * (a - e - 1) >= 0 /\ d * (a - e - 1) = d * a - d * e - d
    BY <1>3
  <2>2. d * a \in Int /\ d * e \in Int
    OBVIOUS
  <2>3. QED
    BY <1>1, <1>2, <2>1, <2>2
<1>4. QED
  BY <1>1, <1>2, <1>3

LEMMA DivAtLeast ==
  ASSUME NEW x \in Int, NEW d \in Nat \ {0}, NEW k \in Int
  PROVE  d * k <= x <=> k <= x \div d
<1>1. PICK a \in Int, b \in 0 .. d - 1 : a = x \div d /\ x = d * a + b
  BY Divided
<1>2. d * a \in Int /\ d * k \in Int
  OBVIOUS
<1>3. ASSUME k <= a PROVE d * k <= x
  <2>1. d * (a - k) >= 0 /\ d * (a - k) = d * a - d * k
    BY <1>3
  <2>2. QED
    BY <1>1, <1>2, <2>1
<1>4. ASSUME k > a PROVE d * k > x
  <2>1. d * (k - a - 1) >= 0 /\ d * (k - a - 1) = d * k - d * a - d
    BY <1>4
  <2>2. QED
    BY <1>1, <1>2, <2>1
<1>5. QED
  BY <1>1, <1>2, <1>3, <1>4

(* A product of positive numbers is positive. *)
LEMMA Positive ==
  ASSUME NEW x \in Nat \ {0}, NEW y \in Nat \ {0}
  PROVE  x * y \in Nat \ {0}
OBVIOUS

(* Quotient and remainder of a natural number. *)
LEMMA DivNat ==
  ASSUME NEW x \in Nat, NEW d \in Nat \ {0}
  PROVE  \E q \in Nat : \E m \in 0 .. d - 1 : q = x \div d /\ m = x % d /\ x = d * q + m
<1>1. PICK q \in Nat : q = x \div d
  BY Divided
<1>2. PICK m \in 0 .. d - 1 : m = x % d
  BY Divided
<1>3. x = d * q + m
  BY <1>1, <1>2, Divided
<1>4. QED
  BY <1>1, <1>2, <1>3, Zenon

LEMMA DivIsNat ==
  ASSUME NEW x \in Nat, NEW d \in Nat \ {0}
  PROVE  x \div d \in Nat
BY Divided

-----------------------------------------------------------------------------
(* The batch size and its ramp-up.                                           *)

IsBatch(b) ==
  /\ b \in [rampup : BOOLEAN, start : Nat, increment : Nat, ramp : Nat,
            global : Nat \ {0}]
  /\ b.rampup => b.start > 0 /\ b.increment > 0 /\ b.ramp > 0

(* What the constructor of the calculator accepts, without the chunk. *)
Ramps(b) ==
  b.rampup => /\ b.global >= b.start /\ (b.global - b.start) % b.increment = 0
              /\ Increments(b) > 0

LEMMA JobFacts ==
  ASSUME NEW j \in Jobs
  PROVE  /\ IsBatch(j.b)
         /\ j.s.type \in {"single", "cyclic"} /\ j.s.sharding \in BOOLEAN
         /\ j.s.total \in Nat
         /\ j.samples \in Nat /\ (j.s.type = "single" => j.samples <= j.s.total)
         /\ j.tp \in Nat \ {0} /\ j.pp \in Nat \ {0} /\ j.cp \in Nat \ {0}
         /\ j.ep \in Nat \ {0} /\ j.save_interval \in Nat \ {0}
         /\ j.shared \in BOOLEAN /\ j.prefixes \in Nat \ {0} /\ j.splits \in Nat \ {0}
<1>1. /\ j.b \in [rampup : BOOLEAN, start : Nat, increment : Nat, ramp : Nat,
                  global : Nat \ {0}]
      /\ j.b.rampup => j.b.start > 0 /\ j.b.increment > 0 /\ j.b.ramp > 0
      /\ j.s \in [type : {"single", "cyclic"}, sharding : BOOLEAN, total : Nat]
      /\ j.samples \in Nat /\ (j.s.type = "single" => j.samples <= j.s.total)
      /\ {j.tp, j.pp, j.cp, j.ep, j.save_interval} \subseteq Nat \ {0}
      /\ j.shared \in BOOLEAN /\ {j.prefixes, j.splits} \subseteq Nat \ {0}
  BY ArgumentsAssumption
<1>2. IsBatch(j.b)
  BY <1>1 DEF IsBatch
<1>3. /\ j.s.type \in {"single", "cyclic"} /\ j.s.sharding \in BOOLEAN
      /\ j.s.total \in Nat
  BY <1>1
<1>4. /\ j.tp \in Nat \ {0} /\ j.pp \in Nat \ {0} /\ j.cp \in Nat \ {0}
      /\ j.ep \in Nat \ {0} /\ j.save_interval \in Nat \ {0}
      /\ j.prefixes \in Nat \ {0} /\ j.splits \in Nat \ {0}
  <2> HIDE DEF IsBatch
  <2>1. /\ j.tp \in {j.tp, j.pp, j.cp, j.ep, j.save_interval}
        /\ j.pp \in {j.tp, j.pp, j.cp, j.ep, j.save_interval}
        /\ j.cp \in {j.tp, j.pp, j.cp, j.ep, j.save_interval}
        /\ j.ep \in {j.tp, j.pp, j.cp, j.ep, j.save_interval}
        /\ j.save_interval \in {j.tp, j.pp, j.cp, j.ep, j.save_interval}
        /\ j.prefixes \in {j.prefixes, j.splits} /\ j.splits \in {j.prefixes, j.splits}
    OBVIOUS
  <2>2. QED
    BY <1>1, <2>1, Zenon
<1>5. QED
  BY <1>1, <1>2, <1>3, <1>4

(* A share c of n in r parts. *)
LEMMA ShareOf ==
  ASSUME NEW c \in Nat, NEW n \in Nat, NEW r \in Nat \ {0}
  PROVE  (c * n) \div r \in Nat /\ (c <= r => (c * n) \div r <= n)
<1>1. PICK y \in Nat : y = c * n
  OBVIOUS
<1>2. y \div r \in Nat
  BY Divided
<1>3. ASSUME c <= r, y \div r >= n + 1 PROVE FALSE
  <2>1. r * (n + 1) <= y
    <3>1. y \in Int /\ n + 1 \in Int /\ n + 1 <= y \div r
      BY <1>3
    <3>2. QED
      BY <3>1, DivAtLeast
  <2>2. (r - c) * n >= 0 /\ (r - c) * n = r * n - c * n /\ r * (n + 1) = r * n + r
    BY <1>3
  <2>3. r * n \in Nat
    OBVIOUS
  <2>4. QED
    BY <1>1, <2>1, <2>2, <2>3
<1>4. QED
  BY <1>1, <1>2, <1>3

(* The batch size of a ramp-up: how many increments were taken. *)
LEMMA RampFacts ==
  ASSUME NEW b, IsBatch(b), Ramps(b), b.rampup, NEW c \in Nat
  PROVE  /\ Increments(b) \in Nat \ {0}
         /\ b.global = b.start + Increments(b) * b.increment
         /\ (c * Increments(b)) \div b.ramp \in Nat
         /\ c <= b.ramp => (c * Increments(b)) \div b.ramp <= Increments(b)
<1>1. /\ b.start \in Nat \ {0} /\ b.increment \in Nat \ {0} /\ b.ramp \in Nat \ {0}
      /\ b.global \in Nat \ {0} /\ b.global >= b.start
      /\ (b.global - b.start) % b.increment = 0 /\ Increments(b) > 0
  BY DEF IsBatch, Ramps
<1>2. PICK d \in Nat : d = b.global - b.start
  BY <1>1
<1>3. PICK i \in Nat \ {0}, r \in Nat \ {0} : i = b.increment /\ r = b.ramp
  BY <1>1
<1>4. PICK n \in Nat : n = d \div i /\ d = i * n + (d % i)
  <2>1. d \div i \in Nat /\ d = i * (d \div i) + (d % i)
    BY Divided
  <2>2. QED
    BY <2>1
<1>5. Increments(b) = n /\ d % i = 0 /\ n \in Nat \ {0}
  BY <1>1, <1>2, <1>3, <1>4 DEF Increments
<1>6. b.global = b.start + n * b.increment
  <2>1. PICK k \in Nat : k = i * n
    OBVIOUS
  <2>2. d = k /\ n * b.increment = k
    BY <1>3, <1>4, <1>5, <2>1
  <2>3. QED
    BY <1>1, <1>2, <2>2
<1>7. (c * n) \div b.ramp \in Nat /\ (c <= b.ramp => (c * n) \div b.ramp <= n)
  <2>1. (c * n) \div r \in Nat /\ (c <= r => (c * n) \div r <= n)
    BY ShareOf
  <2>2. QED
    BY <1>3, <2>1
<1>8. QED
  BY <1>5, <1>6, <1>7

(* The batch size is positive, at most the final one and that after the     *)
(* ramp-up, and it does not fall.                                            *)
LEMMA BatchFacts ==
  ASSUME NEW b, IsBatch(b), Ramps(b), NEW c \in Nat
  PROVE  /\ GlobalBatchSize(b, c) \in Nat \ {0}
         /\ GlobalBatchSize(b, c) <= b.global
         /\ ~ b.rampup \/ c > b.ramp => GlobalBatchSize(b, c) = b.global
         /\ \A d \in Nat : c <= d => GlobalBatchSize(b, c) <= GlobalBatchSize(b, d)
<1> DEFINE n == Increments(b)
           Taken(x) == (x * n) \div b.ramp
<1>1. /\ b.start \in Nat /\ b.increment \in Nat /\ b.ramp \in Nat
      /\ b.global \in Nat \ {0} /\ b.rampup \in BOOLEAN
      /\ b.rampup => b.start > 0 /\ b.increment > 0 /\ b.ramp > 0
  BY DEF IsBatch
<1>2. ASSUME b.rampup, NEW x \in Nat, x <= b.ramp
      PROVE  /\ Taken(x) \in Nat /\ Taken(x) <= n /\ n \in Nat
             /\ GlobalBatchSize(b, x) = b.start + Taken(x) * b.increment
             /\ b.global = b.start + n * b.increment
  <2>1. /\ Taken(x) \in Nat /\ Taken(x) <= n /\ n \in Nat
        /\ b.global = b.start + n * b.increment
    BY <1>2, RampFacts
  <2>2. GlobalBatchSize(b, x) = b.start + Taken(x) * b.increment
    BY <1>1, <1>2 DEF GlobalBatchSize
  <2>3. QED
    BY <2>1, <2>2
<1>3. ASSUME NEW x \in Nat, ~ b.rampup \/ x > b.ramp
      PROVE  GlobalBatchSize(b, x) = b.global
  BY <1>3 DEF GlobalBatchSize
<1>4. ASSUME b.rampup, NEW x \in Nat, x <= b.ramp
      PROVE  GlobalBatchSize(b, x) \in Nat \ {0} /\ GlobalBatchSize(b, x) <= b.global
  <2>1. PICK t \in Nat : t = Taken(x) /\ t <= n /\ n \in Nat
    BY <1>2, <1>4
  <2>2. /\ GlobalBatchSize(b, x) = b.start + t * b.increment
        /\ b.global = b.start + n * b.increment
    BY <1>2, <1>4, <2>1
  <2> HIDE DEF n, Taken
  <2>3. t * b.increment \in Nat /\ n * b.increment \in Nat
    BY <1>1, <2>1
  <2>4. (n - t) * b.increment >= 0 /\ (n - t) * b.increment = n * b.increment - t * b.increment
    BY <1>1, <2>1
  <2>5. QED
    BY <1>1, <1>4, <2>2, <2>3, <2>4
<1>5. ASSUME NEW x \in Nat
      PROVE  GlobalBatchSize(b, x) \in Nat \ {0} /\ GlobalBatchSize(b, x) <= b.global
  BY <1>1, <1>3, <1>4, <1>5
<1>6. ASSUME NEW d \in Nat, c <= d PROVE GlobalBatchSize(b, c) <= GlobalBatchSize(b, d)
  <2>1. CASE ~ b.rampup \/ d > b.ramp
    BY <1>3, <1>5, <2>1
  <2>2. CASE b.rampup /\ d <= b.ramp
    <3>1. c <= b.ramp
      BY <1>1, <1>6, <2>2
    <3>2. PICK t \in Nat : t = Taken(c) /\ GlobalBatchSize(b, c) = b.start + t * b.increment
      BY <1>2, <2>2, <3>1
    <3>3. PICK u \in Nat : u = Taken(d) /\ GlobalBatchSize(b, d) = b.start + u * b.increment
      BY <1>2, <2>2
    <3>4. n \in Nat
      BY <1>2, <2>2
    <3>5. c * n \in Int /\ d * n \in Int /\ c * n <= d * n
      <4> HIDE DEF n
      <4>1. (d - c) * n >= 0 /\ (d - c) * n = d * n - c * n
        BY <1>6, <3>4
      <4>2. c * n \in Int /\ d * n \in Int
        BY <3>4
      <4>3. QED
        BY <4>1, <4>2
    <3>6. t <= u
      BY <1>1, <2>2, <3>2, <3>3, <3>5, DivMonotone
    <3> HIDE DEF n, Taken
    <3>7. (u - t) * b.increment >= 0 /\ (u - t) * b.increment = u * b.increment - t * b.increment
      BY <1>1, <3>6
    <3>8. t * b.increment \in Nat /\ u * b.increment \in Nat
      BY <1>1
    <3>9. QED
      BY <1>1, <3>2, <3>3, <3>7, <3>8
  <2>3. QED
    BY <1>1, <2>1, <2>2
<1>7. QED
  BY <1>3, <1>5, <1>6

-----------------------------------------------------------------------------
(* The iterations of a ramp-up: a function of their number, by recursion.    *)

(* The samples after each of the first n iterations. *)
Consumes(b, n, g) ==
  g = [i \in 0 .. n |-> IF i = 0 THEN 0 ELSE g[i - 1] + GlobalBatchSize(b, g[i - 1])]

(* The same, element by element. *)
Accumulates(b, n, g) ==
  /\ g = [i \in 0 .. n |-> g[i]]
  /\ \A i \in 0 .. n : g[i] = IF i = 0 THEN 0 ELSE g[i - 1] + GlobalBatchSize(b, g[i - 1])

LEMMA ConsumesFacts ==
  ASSUME NEW b, NEW n \in Nat, NEW g
  PROVE  Consumes(b, n, g) <=> Accumulates(b, n, g)
<1> DEFINE Step(i) == IF i = 0 THEN 0 ELSE g[i - 1] + GlobalBatchSize(b, g[i - 1])
           f == [i \in 0 .. n |-> Step(i)]
<1>1. Consumes(b, n, g) <=> g = f
  BY DEF Consumes
<1>2. \A i \in 0 .. n : f[i] = Step(i)
  OBVIOUS
<1>3. f = [i \in 0 .. n |-> f[i]]
  OBVIOUS
<1> HIDE DEF f, Step
<1>4. ASSUME g = f PROVE g = [i \in 0 .. n |-> g[i]] /\ \A i \in 0 .. n : g[i] = Step(i)
  BY <1>2, <1>3, <1>4
<1>5. ASSUME g = [i \in 0 .. n |-> g[i]], \A i \in 0 .. n : g[i] = Step(i) PROVE g = f
  <2>1. [i \in 0 .. n |-> g[i]] = [i \in 0 .. n |-> f[i]]
    BY <1>2, <1>5
  <2>2. QED
    BY <1>3, <1>5, <2>1
<1>6. QED
  BY <1>1, <1>4, <1>5 DEF Step, Accumulates

LEMMA ConsumesExist ==
  ASSUME NEW b, NEW n \in Nat
  PROVE  \E g : Consumes(b, n, g)
<1> DEFINE T == {m \in Nat : \E g : Consumes(b, m, g)}
           Step(g, i) == IF i = 0 THEN 0 ELSE g[i - 1] + GlobalBatchSize(b, g[i - 1])
<1>1. 0 \in T
  <2> DEFINE g == [i \in 0 .. 0 |-> 0]
  <2>1. \A i \in 0 .. 0 : i = 0
    OBVIOUS
  <2>2. g = [i \in 0 .. 0 |-> g[i]] /\ \A i \in 0 .. 0 : g[i] = 0
    OBVIOUS
  <2> HIDE DEF g
  <2>3. Consumes(b, 0, g)
    BY <2>1, <2>2, ConsumesFacts DEF Accumulates
  <2>4. QED
    BY <2>3
<1>2. ASSUME NEW m \in Nat, m \in T PROVE m + 1 \in T
  <2>1. PICK g : Consumes(b, m, g)
    BY <1>2
  <2> DEFINE f == [i \in 0 .. m + 1 |-> Step(g, i)]
  <2>2. /\ \A i \in 0 .. m + 1 : f[i] = Step(g, i)
        /\ f = [i \in 0 .. m + 1 |-> f[i]]
    OBVIOUS
  <2>3. \A i \in 0 .. m : g[i] = Step(g, i)
    BY <2>1, ConsumesFacts DEF Accumulates
  <2> HIDE DEF f
  <2>4. \A i \in 0 .. m : f[i] = g[i]
    <3> HIDE DEF Step
    <3>1. \A i \in 0 .. m : i \in 0 .. m + 1
      OBVIOUS
    <3>2. QED
      BY <2>2, <2>3, <3>1
  <2>5. \A i \in 0 .. m + 1 : f[i] = Step(f, i)
    <3>1. \A i \in 0 .. m + 1 : i # 0 => i - 1 \in 0 .. m
      OBVIOUS
    <3>2. \A i \in 0 .. m + 1 : i # 0 => f[i - 1] = g[i - 1]
      BY <2>4, <3>1
    <3>3. QED
      BY <2>2, <3>2
  <2>6. Consumes(b, m + 1, f)
    <3>1. m + 1 \in Nat
      OBVIOUS
    <3>2. QED
      BY <2>2, <2>5, <3>1, ConsumesFacts DEF Accumulates
  <2>7. QED
    BY <2>6
<1> HIDE DEF T
<1>3. Nat \subseteq T
  BY <1>1, <1>2, NatInductionSet
<1>4. n \in T
  BY <1>3
<1>5. QED
  BY <1>4 DEF T

LEMMA RampConsumedFacts ==
  ASSUME NEW b, IsBatch(b)
  PROVE  /\ DOMAIN RampConsumed(b) = 0 .. b.ramp + 1
         /\ RampConsumed(b)[0] = 0
         /\ \A i \in 1 .. b.ramp + 1 :
              RampConsumed(b)[i] = RampConsumed(b)[i - 1]
                                   + GlobalBatchSize(b, RampConsumed(b)[i - 1])
<1>0. b.ramp + 1 \in Nat
  BY DEF IsBatch
<1>1. PICK g : Consumes(b, b.ramp + 1, g)
  BY <1>0, ConsumesExist
<1> DEFINE after == CHOOSE h : h = [i \in 0 .. b.ramp + 1 |->
                                      IF i = 0 THEN 0
                                      ELSE h[i - 1] + GlobalBatchSize(b, h[i - 1])]
<1>2. RampConsumed(b) = after
  BY DEF RampConsumed
<1>3. Consumes(b, b.ramp + 1, RampConsumed(b))
  <2>1. \E h : h = [i \in 0 .. b.ramp + 1 |->
                       IF i = 0 THEN 0 ELSE h[i - 1] + GlobalBatchSize(b, h[i - 1])]
    BY <1>1, Zenon DEF Consumes
  <2>2. after = [i \in 0 .. b.ramp + 1 |->
                   IF i = 0 THEN 0 ELSE after[i - 1] + GlobalBatchSize(b, after[i - 1])]
    BY <2>1, Zenon
  <2> HIDE DEF after
  <2>3. QED
    BY <1>2, <2>2, Zenon DEF Consumes
<1> HIDE DEF after
<1>4. PICK h : h = RampConsumed(b)
  OBVIOUS
<1>5. PICK n \in Nat : n = b.ramp + 1
  BY <1>0
<1>6. Consumes(b, n, h)
  BY <1>3, <1>4, <1>5
<1>7. /\ h = [i \in 0 .. n |-> h[i]]
      /\ \A i \in 0 .. n :
           h[i] = IF i = 0 THEN 0 ELSE h[i - 1] + GlobalBatchSize(b, h[i - 1])
  <2>1. Accumulates(b, n, h)
    BY <1>6, ConsumesFacts, Zenon
  <2>2. QED
    BY <2>1, Zenon DEF Accumulates
<1>8. DOMAIN h = 0 .. n
  BY <1>7
<1>9. h[0] = 0 /\ \A i \in 1 .. n : h[i] = h[i - 1] + GlobalBatchSize(b, h[i - 1])
  <2>1. 0 \in 0 .. n /\ \A i \in 1 .. n : i \in 0 .. n /\ i # 0
    OBVIOUS
  <2>2. QED
    BY <1>7, <2>1, Zenon
<1>10. QED
  BY <1>4, <1>5, <1>8, <1>9

(* They are natural numbers, and grow. *)
LEMMA RampConsumedGrows ==
  ASSUME NEW b, IsBatch(b), Ramps(b)
  PROVE  /\ \A i \in 0 .. b.ramp + 1 : RampConsumed(b)[i] \in Nat
         /\ \A i, k \in 0 .. b.ramp + 1 : i <= k => RampConsumed(b)[i] <= RampConsumed(b)[k]
         /\ \A i \in 1 .. b.ramp + 1 : RampConsumed(b)[i] > 0
<1> DEFINE h == RampConsumed(b)
           T == {n \in Nat : n \in 0 .. b.ramp + 1 =>
                               /\ \A i \in 0 .. n : h[i] \in Nat /\ h[i] <= h[n]
                               /\ n > 0 => h[n] > 0}
<1>0. b.ramp \in Nat
  BY DEF IsBatch
<1>1. 0 \in T
  <2>1. h[0] = 0
    BY RampConsumedFacts
  <2>2. \A i \in 0 .. 0 : i = 0
    OBVIOUS
  <2> HIDE DEF h
  <2>3. QED
    BY <2>1, <2>2
<1>2. ASSUME NEW n \in Nat, n \in T PROVE n + 1 \in T
  <2>1. CASE n + 1 \notin 0 .. b.ramp + 1
    BY <2>1
  <2>2. CASE n + 1 \in 0 .. b.ramp + 1
    <3>1. n \in 0 .. b.ramp + 1 /\ n + 1 \in 1 .. b.ramp + 1
      BY <1>0, <2>2
    <3>2. h[n] \in Nat /\ \A i \in 0 .. n : h[i] \in Nat /\ h[i] <= h[n]
      BY <1>2, <3>1
    <3>3. h[n + 1] = h[n] + GlobalBatchSize(b, h[n])
      <4>1. (n + 1) - 1 = n
        OBVIOUS
      <4>2. h[n + 1] = h[(n + 1) - 1] + GlobalBatchSize(b, h[(n + 1) - 1])
        BY <3>1, RampConsumedFacts
      <4>3. QED
        BY <4>1, <4>2
    <3>4. GlobalBatchSize(b, h[n]) \in Nat \ {0}
      BY <3>2, BatchFacts
    <3> HIDE DEF h
    <3>5. h[n + 1] \in Nat /\ h[n + 1] > 0 /\ h[n] <= h[n + 1]
      BY <3>2, <3>3, <3>4
    <3>6. ASSUME NEW i \in 0 .. n + 1 PROVE h[i] \in Nat /\ h[i] <= h[n + 1]
      <4>1. i = n + 1 \/ i \in 0 .. n
        OBVIOUS
      <4>2. QED
        BY <3>2, <3>5, <4>1
    <3>7. QED
      BY <3>5, <3>6
  <2>3. QED
    BY <2>1, <2>2
<1> HIDE DEF T
<1>3. Nat \subseteq T
  BY <1>1, <1>2, NatInductionSet
<1>4. ASSUME NEW n \in 0 .. b.ramp + 1
      PROVE  h[n] \in Nat /\ (n > 0 => h[n] > 0) /\ \A i \in 0 .. n : h[i] <= h[n]
  <2>1. n \in Nat /\ n \in T
    BY <1>3
  <2> HIDE DEF h
  <2>2. QED
    BY <2>1 DEF T
<1> HIDE DEF h
<1>5. /\ \A i \in 0 .. b.ramp + 1 : h[i] \in Nat
      /\ \A i, k \in 0 .. b.ramp + 1 : i <= k => h[i] <= h[k]
      /\ \A i \in 1 .. b.ramp + 1 : h[i] > 0
  <2>1. \A i, k \in 0 .. b.ramp + 1 : i <= k => i \in 0 .. k
    BY <1>0
  <2>2. \A i \in 1 .. b.ramp + 1 : i \in 0 .. b.ramp + 1 /\ i > 0
    BY <1>0
  <2>3. QED
    BY <1>4, <2>1, <2>2
<1>6. QED
  BY <1>5 DEF h

-----------------------------------------------------------------------------
(* The iterations of a job.                                                  *)

(* The first iterations, up to the one that ends the ramp-up. *)
RampIters(b) ==
  LET after == RampConsumed(b) IN Min({n \in DOMAIN after : after[n] > b.ramp})

(* After i iterations c samples are consumed. *)
OnTrack(b, i, c) ==
  IF ~ b.rampup THEN c = i * b.global
  ELSE \/ i \in 0 .. RampIters(b) /\ c = RampConsumed(b)[i]
       \/ i >= RampIters(b)
          /\ c = RampConsumed(b)[RampIters(b)] + (i - RampIters(b)) * b.global

(* The ramp-up ends, within the samples of the job. *)
LEMMA RampEnds ==
  ASSUME NEW j \in Jobs, j.b.rampup
  PROVE  /\ RampIters(j.b) \in 0 .. j.b.ramp + 1
         /\ RampConsumed(j.b)[RampIters(j.b)] > j.b.ramp
         /\ Ramps(j.b) => /\ RampIters(j.b) > 0
                          /\ RampConsumed(j.b)[RampIters(j.b)] <= j.samples
<1> DEFINE h == RampConsumed(j.b)
           E == {n \in 0 .. j.b.ramp + 1 : h[n] > j.b.ramp}
<1>0. IsBatch(j.b) /\ j.b.ramp \in Nat /\ j.samples \in Nat
  BY JobFacts DEF IsBatch
<1>1. DOMAIN h = 0 .. j.b.ramp + 1 /\ h[0] = 0
  BY <1>0, RampConsumedFacts
<1>2. PICK m \in 0 .. j.b.ramp + 1 : j.b.ramp < h[m] /\ h[m] <= j.samples
  BY <1>1, JobsAssumption
<1> HIDE DEF h
<1>3. E \subseteq Nat /\ E # {}
  <2>1. m \in E
    BY <1>0, <1>2
  <2>2. QED
    BY <1>0, <2>1
<1>4. PICK x \in E : \A y \in E : x <= y
  BY <1>3, LeastNat
<1>5. RampIters(j.b) = Min(E)
  BY <1>1 DEF RampIters, h
<1>6. RampIters(j.b) \in E /\ \A y \in E : RampIters(j.b) <= y
  <2> DEFINE u == CHOOSE z \in E : \A y \in E : z <= y
  <2>1. Min(E) = u
    BY DEF Min
  <2>2. u \in E /\ \A y \in E : u <= y
    <3> HIDE DEF E
    <3>1. \E z \in E : \A y \in E : z <= y
      BY <1>4
    <3>2. QED
      BY <3>1, Zenon
  <2> HIDE DEF u, E
  <2>3. QED
    BY <1>5, <2>1, <2>2
<1>7. ASSUME Ramps(j.b) PROVE RampIters(j.b) > 0 /\ h[RampIters(j.b)] <= j.samples
  <2>1. RampIters(j.b) # 0
    <3>1. 0 \notin E
      BY <1>0, <1>1
    <3>2. QED
      BY <1>6, <3>1
  <2>2. m \in E /\ RampIters(j.b) <= m
    BY <1>0, <1>2, <1>6
  <2>3. RampIters(j.b) \in 0 .. j.b.ramp + 1
    BY <1>6
  <2>4. h[RampIters(j.b)] <= h[m] /\ h[RampIters(j.b)] \in Nat /\ h[m] \in Nat
    BY <1>0, <1>7, <2>2, <2>3, RampConsumedGrows DEF h
  <2>5. QED
    BY <1>0, <1>2, <2>1, <2>3, <2>4
<1>8. QED
  BY <1>6, <1>7 DEF h

(* At the start no sample is consumed. *)
LEMMA StartsOnTrack ==
  ASSUME NEW j \in Jobs
  PROVE  OnTrack(j.b, 0, 0)
<1>1. j.b.global \in Nat /\ IsBatch(j.b)
  BY JobFacts DEF IsBatch
<1>2. CASE ~ j.b.rampup
  BY <1>1, <1>2 DEF OnTrack
<1>3. CASE j.b.rampup
  <2>1. 0 \in 0 .. RampIters(j.b)
    BY <1>1, <1>3, RampEnds DEF IsBatch
  <2>2. RampConsumed(j.b)[0] = 0
    BY <1>1, RampConsumedFacts
  <2>3. QED
    BY <1>3, <2>1, <2>2 DEF OnTrack
<1>4. QED
  BY <1>2, <1>3

(* An iteration consumes its batch. *)
LEMMA StaysOnTrack ==
  ASSUME NEW j \in Jobs, Ramps(j.b), NEW i \in Nat, NEW c \in Nat, OnTrack(j.b, i, c)
  PROVE  OnTrack(j.b, i + 1, c + GlobalBatchSize(j.b, c))
<1>1. /\ IsBatch(j.b) /\ j.b.global \in Nat /\ j.b.ramp \in Nat
      /\ j.b.rampup \in BOOLEAN
  BY JobFacts DEF IsBatch
<1>2. CASE ~ j.b.rampup
  <2>1. GlobalBatchSize(j.b, c) = j.b.global
    BY <1>1, <1>2, BatchFacts
  <2>2. (i + 1) * j.b.global = i * j.b.global + j.b.global
    BY <1>1
  <2>3. QED
    BY <1>2, <2>1, <2>2 DEF OnTrack
<1>3. CASE j.b.rampup
  <2> DEFINE h == RampConsumed(j.b)
             n == RampIters(j.b)
  <2>1. n \in 0 .. j.b.ramp + 1 /\ h[n] > j.b.ramp
    BY <1>3, RampEnds
  <2>2. CASE i \in 0 .. n - 1 /\ c = h[i]
    <3>1. i + 1 \in 1 .. j.b.ramp + 1 /\ (i + 1) - 1 = i /\ i + 1 \in 0 .. n
      BY <1>1, <2>1, <2>2
    <3>2. h[i + 1] = h[(i + 1) - 1] + GlobalBatchSize(j.b, h[(i + 1) - 1])
      BY <1>1, <3>1, RampConsumedFacts
    <3>3. h[i + 1] = c + GlobalBatchSize(j.b, c)
      BY <2>2, <3>1, <3>2
    <3>4. QED
      BY <1>3, <3>1, <3>3 DEF OnTrack
  <2>3. CASE i >= n /\ c = h[n] + (i - n) * j.b.global
    <3>1. n \in Nat /\ i - n \in Nat
      BY <2>1, <2>3
    <3>2. h[n] \in Nat
      BY <1>1, <2>1, RampConsumedGrows
    <3>3. (i - n) * j.b.global \in Nat
      BY <1>1, <3>1
    <3>4. c > j.b.ramp
      BY <1>1, <2>1, <2>3, <3>2, <3>3
    <3>5. GlobalBatchSize(j.b, c) = j.b.global
      BY <1>1, <3>4, BatchFacts
    <3> HIDE DEF n, h
    <3>6. ((i + 1) - n) * j.b.global = (i - n) * j.b.global + j.b.global
      BY <1>1, <3>1
    <3>7. c + j.b.global = h[n] + ((i + 1) - n) * j.b.global /\ i + 1 >= n
      BY <1>1, <2>3, <3>1, <3>2, <3>3, <3>6
    <3>8. QED
      BY <1>3, <3>5, <3>7 DEF OnTrack, h, n
  <2>4. ASSUME i \in 0 .. n, c = h[i], i \notin 0 .. n - 1
        PROVE  i >= n /\ c = h[n] + (i - n) * j.b.global
    <3>1. i = n
      BY <2>1, <2>4
    <3>2. h[n] \in Nat
      BY <1>1, <2>1, RampConsumedGrows
    <3> HIDE DEF h, n
    <3>3. (i - n) * j.b.global = 0
      BY <1>1, <2>4, <3>1
    <3>4. QED
      BY <2>4, <3>1, <3>2, <3>3
  <2>5. \/ i \in 0 .. n /\ c = h[i]
        \/ i >= n /\ c = h[n] + (i - n) * j.b.global
    BY <1>3 DEF OnTrack
  <2>6. QED
    BY <2>2, <2>3, <2>4, <2>5
<1>4. QED
  BY <1>1, <1>2, <1>3

(* Within its iterations a job stays within its samples, and at their end    *)
(* less than a batch is left.                                                *)
LEMMA WithinSamples ==
  ASSUME NEW j \in Jobs, Ramps(j.b)
  PROVE  /\ TrainIters(j.b, j.samples) \in Nat
         /\ \A i, c \in Nat :
              OnTrack(j.b, i, c) =>
                /\ i > 0 => c > 0
                /\ i <= TrainIters(j.b, j.samples) => c <= j.samples
                /\ i = TrainIters(j.b, j.samples) => j.samples < c + j.b.global
<1>1. /\ IsBatch(j.b) /\ j.b.global \in Nat \ {0} /\ j.b.ramp \in Nat
      /\ j.b.rampup \in BOOLEAN /\ j.samples \in Nat
  BY JobFacts DEF IsBatch
<1>2. PICK G \in Nat \ {0}, S \in Nat : G = j.b.global /\ S = j.samples
  BY <1>1
<1>3. CASE ~ j.b.rampup
  <2>1. TrainIters(j.b, j.samples) = S \div G
    BY <1>2, <1>3 DEF TrainIters
  <2>2. PICK T \in Nat, m \in 0 .. G - 1 : T = S \div G /\ S = G * T + m
    BY DivNat
  <2>3. ASSUME NEW i \in Nat, NEW c \in Nat, OnTrack(j.b, i, c)
        PROVE  /\ i > 0 => c > 0
               /\ i <= T => c <= S
               /\ i = T => S < c + G
    <3>1. c = i * G
      BY <1>2, <1>3, <2>3 DEF OnTrack
    <3>2. i > 0 => c > 0
      BY <3>1
    <3>3. i <= T => i * G <= G * T
      <4>1. (T - i) * G = G * T - i * G /\ i * G \in Nat /\ G * T \in Nat
        OBVIOUS
      <4>2. i <= T => (T - i) * G >= 0
        OBVIOUS
      <4>3. QED
        BY <4>1, <4>2
    <3>4. i = T => i * G = G * T
      OBVIOUS
    <3>5. G * T \in Nat
      OBVIOUS
    <3>6. QED
      BY <2>2, <3>1, <3>2, <3>3, <3>4, <3>5
  <2>4. QED
    BY <1>2, <2>1, <2>2, <2>3
<1>4. CASE j.b.rampup
  <2> DEFINE h == RampConsumed(j.b)
             n == RampIters(j.b)
  <2>1. /\ n \in 1 .. j.b.ramp + 1 /\ h[n] <= S
    BY <1>1, <1>2, <1>4, RampEnds
  <2>2. /\ h[n] \in Nat
        /\ \A i \in 0 .. n : h[i] \in Nat /\ h[i] <= h[n] /\ (i > 0 => h[i] > 0)
    <3>1. \A i \in 0 .. n : i \in 0 .. j.b.ramp + 1 /\ (i > 0 => i \in 1 .. j.b.ramp + 1)
      BY <1>1, <2>1
    <3>2. n \in 0 .. j.b.ramp + 1 /\ \A i \in 0 .. n : i <= n
      BY <1>1, <2>1
    <3>3. QED
      BY <1>1, <3>1, <3>2, RampConsumedGrows
  <2>3. PICK N \in Nat \ {0}, L \in Nat : N = n /\ L = h[n] /\ L <= S
    BY <1>1, <2>1, <2>2
  <2>4. PICK T \in Nat, m \in 0 .. G - 1 : T = (S - L) \div G /\ S - L = G * T + m
    <3>1. S - L \in Nat
      BY <2>3
    <3>2. QED
      BY <3>1, DivNat
  <2>5. TrainIters(j.b, j.samples) = N + T
    BY <1>2, <1>4, <2>3, <2>4 DEF TrainIters, RampIters
  <2>6. ASSUME NEW i \in Nat, NEW c \in Nat, OnTrack(j.b, i, c)
        PROVE  /\ i > 0 => c > 0
               /\ i <= N + T => c <= S
               /\ i = N + T => S < c + G
    <3>0. G * T \in Nat /\ L > 0
      <4>1. n \in 0 .. n
        BY <2>1
      <4>2. QED
        BY <2>1, <2>2, <2>3, <4>1
    <3>1. CASE i >= N /\ c = L + (i - N) * G
      <4>1. (i - N) * G \in Nat
        BY <3>1
      <4>2. i <= N + T => (i - N) * G <= G * T
        <5>1. (T - (i - N)) * G = G * T - (i - N) * G
          BY <3>1
        <5>2. i <= N + T => (T - (i - N)) * G >= 0
          BY <3>1
        <5>3. QED
          BY <3>0, <4>1, <5>1, <5>2
      <4>3. i = N + T => (i - N) * G = G * T
        BY <3>1
      <4>4. QED
        BY <2>3, <2>4, <3>0, <3>1, <4>1, <4>2, <4>3
    <3>2. CASE i \in 0 .. N - 1 /\ c = h[i]
      <4>1. i \in 0 .. n
        BY <2>3, <3>2
      <4>2. c <= L /\ (i > 0 => c > 0)
        BY <2>2, <2>3, <3>2, <4>1
      <4>3. i # N + T
        BY <3>2
      <4>4. QED
        BY <2>3, <4>2, <4>3
    <3>3. i = N /\ c = h[i] => c = L + (i - N) * G
      BY <2>3
    <3>4. \/ i \in 0 .. N /\ c = h[i]
          \/ i >= N /\ c = L + (i - N) * G
      BY <1>2, <1>4, <2>3, <2>6 DEF OnTrack
    <3>5. i \in 0 .. N => i \in 0 .. N - 1 \/ i = N
      OBVIOUS
    <3>6. QED
      BY <3>1, <3>2, <3>3, <3>4, <3>5
  <2>7. QED
    BY <1>2, <2>5, <2>6
<1>5. QED
  BY <1>1, <1>3, <1>4

-----------------------------------------------------------------------------
(* Sequences given by their elements.                                        *)

LEMMA SeqFacts ==
  ASSUME NEW f, NEW n \in Nat, DOMAIN f = 1 .. n, f = [i \in DOMAIN f |-> f[i]]
  PROVE  /\ Len(f) = n
         /\ n = 0 <=> f = << >>
         /\ n > 0 => Head(f) = f[1] /\ Tail(f) = [i \in 1 .. n - 1 |-> f[i + 1]]
         /\ \A e : Append(f, e) = [i \in 1 .. n + 1 |-> IF i <= n THEN f[i] ELSE e]
<1> DEFINE S == {f[i] : i \in 1 .. n}
<1>1. f \in Seq(S) /\ Len(f) = n
  <2>1. f \in [1 .. n -> S]
    OBVIOUS
  <2> HIDE DEF S
  <2>2. QED
    BY <2>1
<1>2. n = 0 <=> f = << >>
  <2> HIDE DEF S
  <2>1. QED
    BY <1>1
<1>3. ASSUME n > 0 PROVE Head(f) = f[1] /\ Tail(f) = [i \in 1 .. n - 1 |-> f[i + 1]]
  <2> HIDE DEF S
  <2>1. Head(f) = f[1]
    BY <1>1, <1>3
  <2>2. Tail(f) = [i \in 1 .. n - 1 |-> f[i + 1]]
    <3> DEFINE g == [i \in 1 .. n - 1 |-> f[i + 1]]
    <3>1. f # << >>
      BY <1>2, <1>3
    <3>2. /\ Tail(f) \in Seq(S) /\ Len(Tail(f)) = n - 1
          /\ \A i \in 1 .. n - 1 : Tail(f)[i] = f[i + 1]
      BY <1>1, <3>1, HeadTailProperties
    <3>3. \A i \in 1 .. n - 1 : f[i + 1] \in S
      BY <1>1
    <3>4. n - 1 \in Nat
      BY <1>3
    <3>5. g \in Seq(S) /\ Len(g) = n - 1 /\ \A i \in 1 .. n - 1 : g[i] = f[i + 1]
      BY <3>3, <3>4
    <3> HIDE DEF g
    <3>6. Tail(f) = g
      BY <3>2, <3>5, SeqEqual
    <3>7. QED
      BY <3>6 DEF g
  <2>3. QED
    BY <2>1, <2>2
<1>4. ASSUME NEW e
      PROVE  Append(f, e) = [i \in 1 .. n + 1 |-> IF i <= n THEN f[i] ELSE e]
  <2> DEFINE U == S \cup {e}
             g == [i \in 1 .. n + 1 |-> IF i <= n THEN f[i] ELSE e]
  <2>1. f \in Seq(U) /\ e \in U
    <3>1. \A i \in 1 .. n : f[i] \in U
      OBVIOUS
    <3>2. e \in U
      OBVIOUS
    <3> HIDE DEF U, S
    <3>3. f \in [1 .. n -> U]
      BY <3>1
    <3>4. QED
      BY <3>2, <3>3
  <2> HIDE DEF U, S
  <2>2. /\ Append(f, e) \in Seq(U) /\ Len(Append(f, e)) = n + 1
        /\ \A i \in 1 .. n : Append(f, e)[i] = f[i]
        /\ Append(f, e)[n + 1] = e
    BY <1>1, <2>1
  <2>3. g \in Seq(U) /\ Len(g) = n + 1 /\ \A i \in 1 .. n + 1 : g[i] = IF i <= n THEN f[i] ELSE e
    <3>1. \A i \in 1 .. n : f[i] \in U
      BY <1>1, <2>1
    <3>2. g \in [1 .. n + 1 -> U]
      BY <2>1, <3>1
    <3>3. QED
      BY <3>2
  <2>4. \A i \in 1 .. n + 1 : Append(f, e)[i] = g[i]
    <3>1. \A i \in 1 .. n + 1 : (i <= n /\ i \in 1 .. n) \/ (i = n + 1 /\ ~(i <= n))
      OBVIOUS
    <3> HIDE DEF g
    <3>2. QED
      BY <2>2, <2>3, <3>1
  <2> HIDE DEF g
  <2>5. Append(f, e) = g
    BY <2>2, <2>3, <2>4, SeqEqual
  <2>6. QED
    BY <2>5 DEF g
<1>5. QED
  BY <1>1, <1>2, <1>3, <1>4

-----------------------------------------------------------------------------
(* What a rank draws: a function of the number of microbatches, by recursion. *)

(* A microbatch more than x, which is what was drawn and the iterator after. *)
TakeOne(s, r, x) ==
  [drawn |-> Append(x.drawn, NextBatch(s, r, x.it).batch), it |-> NextBatch(s, r, x.it).it]

(* The first n microbatches. *)
Takes(s, r, it, n, g) ==
  g = [i \in 0 .. n |-> IF i = 0 THEN [drawn |-> << >>, it |-> it] ELSE TakeOne(s, r, g[i - 1])]

(* The same, element by element. *)
TakesEach(s, r, it, n, g) ==
  /\ g = [i \in 0 .. n |-> g[i]]
  /\ \A i \in 0 .. n : g[i] = IF i = 0 THEN [drawn |-> << >>, it |-> it] ELSE TakeOne(s, r, g[i - 1])

LEMMA TakesFacts ==
  ASSUME NEW s, NEW r, NEW it, NEW n \in Nat, NEW g
  PROVE  Takes(s, r, it, n, g) <=> TakesEach(s, r, it, n, g)
<1> DEFINE Step(i) == IF i = 0 THEN [drawn |-> << >>, it |-> it] ELSE TakeOne(s, r, g[i - 1])
           f == [i \in 0 .. n |-> Step(i)]
<1>1. Takes(s, r, it, n, g) <=> g = f
  BY DEF Takes
<1>2. \A i \in 0 .. n : f[i] = Step(i)
  OBVIOUS
<1>3. f = [i \in 0 .. n |-> f[i]]
  OBVIOUS
<1> HIDE DEF f, Step
<1>4. ASSUME g = f PROVE g = [i \in 0 .. n |-> g[i]] /\ \A i \in 0 .. n : g[i] = Step(i)
  BY <1>2, <1>3, <1>4
<1>5. ASSUME g = [i \in 0 .. n |-> g[i]], \A i \in 0 .. n : g[i] = Step(i) PROVE g = f
  <2>1. [i \in 0 .. n |-> g[i]] = [i \in 0 .. n |-> f[i]]
    BY <1>2, <1>5
  <2>2. QED
    BY <1>3, <1>5, <2>1
<1>6. QED
  BY <1>1, <1>4, <1>5 DEF Step, TakesEach

LEMMA TakesExist ==
  ASSUME NEW s, NEW r, NEW it, NEW n \in Nat
  PROVE  \E g : Takes(s, r, it, n, g)
<1> DEFINE T == {m \in Nat : \E g : Takes(s, r, it, m, g)}
           Step(g, i) == IF i = 0 THEN [drawn |-> << >>, it |-> it] ELSE TakeOne(s, r, g[i - 1])
<1>1. 0 \in T
  <2> DEFINE g == [i \in 0 .. 0 |-> [drawn |-> << >>, it |-> it]]
  <2>1. \A i \in 0 .. 0 : i = 0
    OBVIOUS
  <2>2. g = [i \in 0 .. 0 |-> g[i]] /\ \A i \in 0 .. 0 : g[i] = [drawn |-> << >>, it |-> it]
    OBVIOUS
  <2> HIDE DEF g
  <2>3. Takes(s, r, it, 0, g)
    BY <2>1, <2>2, TakesFacts DEF TakesEach
  <2>4. QED
    BY <2>3
<1>2. ASSUME NEW m \in Nat, m \in T PROVE m + 1 \in T
  <2>1. PICK g : Takes(s, r, it, m, g)
    BY <1>2
  <2> DEFINE f == [i \in 0 .. m + 1 |-> Step(g, i)]
  <2>2. /\ \A i \in 0 .. m + 1 : f[i] = Step(g, i)
        /\ f = [i \in 0 .. m + 1 |-> f[i]]
    OBVIOUS
  <2>3. \A i \in 0 .. m : g[i] = Step(g, i)
    <3>1. TakesEach(s, r, it, m, g)
      BY <2>1, TakesFacts, Zenon
    <3>2. QED
      BY <3>1, Zenon DEF TakesEach
  <2> HIDE DEF f
  <2>4. \A i \in 0 .. m : f[i] = g[i]
    <3> HIDE DEF Step
    <3>1. \A i \in 0 .. m : i \in 0 .. m + 1
      OBVIOUS
    <3>2. QED
      BY <2>2, <2>3, <3>1
  <2>5. \A i \in 0 .. m + 1 : f[i] = Step(f, i)
    <3>1. \A i \in 0 .. m + 1 : i # 0 => i - 1 \in 0 .. m
      OBVIOUS
    <3>2. \A i \in 0 .. m + 1 : i # 0 => f[i - 1] = g[i - 1]
      BY <2>4, <3>1
    <3>3. QED
      BY <2>2, <3>2
  <2>6. Takes(s, r, it, m + 1, f)
    <3>1. m + 1 \in Nat
      OBVIOUS
    <3>2. QED
      BY <2>2, <2>5, <3>1, TakesFacts DEF TakesEach
  <2>7. QED
    BY <2>6
<1> HIDE DEF T
<1>3. Nat \subseteq T
  BY <1>1, <1>2, NatInductionSet
<1>4. n \in T
  BY <1>3
<1>5. QED
  BY <1>4 DEF T

(* g holds what n draws yield, one from the other. *)
DrawsBy(s, r, it, n, g) ==
  /\ Draws(s, r, it, n) = g[n]
  /\ g[0] = [drawn |-> << >>, it |-> it]
  /\ \A i \in 1 .. n : g[i] = TakeOne(s, r, g[i - 1])

LEMMA DrawsFacts ==
  ASSUME NEW s, NEW r, NEW it, NEW n \in Nat
  PROVE  \E g : DrawsBy(s, r, it, n, g)
<1> DEFINE draw == CHOOSE h : h = [i \in 0 .. n |->
                                     IF i = 0 THEN [drawn |-> << >>, it |-> it]
                                     ELSE TakeOne(s, r, h[i - 1])]
<1>1. Draws(s, r, it, n) = draw[n]
  BY DEF Draws, TakeOne
<1>2. PICK g : Takes(s, r, it, n, g)
  BY TakesExist
<1>3. \E h : h = [i \in 0 .. n |-> IF i = 0 THEN [drawn |-> << >>, it |-> it]
                                   ELSE TakeOne(s, r, h[i - 1])]
  BY <1>2, Zenon DEF Takes
<1>4. draw = [i \in 0 .. n |-> IF i = 0 THEN [drawn |-> << >>, it |-> it]
                               ELSE TakeOne(s, r, draw[i - 1])]
  BY <1>3, Zenon
<1> HIDE DEF draw
<1>5. TakesEach(s, r, it, n, draw)
  <2>1. Takes(s, r, it, n, draw)
    BY <1>4, Zenon DEF Takes
  <2>2. QED
    BY <2>1, TakesFacts, Zenon
<1>6. 0 \in 0 .. n /\ \A i \in 1 .. n : i \in 0 .. n /\ i # 0
  OBVIOUS
<1>7. /\ draw[0] = [drawn |-> << >>, it |-> it]
      /\ \A i \in 1 .. n : draw[i] = TakeOne(s, r, draw[i - 1])
  BY <1>5, <1>6, Zenon DEF TakesEach
<1>8. DrawsBy(s, r, it, n, draw)
  BY <1>1, <1>7, Zenon DEF DrawsBy
<1>9. QED
  BY <1>8

-----------------------------------------------------------------------------
(* The sequential sampler.                                                   *)

IsDataRank(r) ==
  /\ r.mbs \in Nat \ {0} /\ r.dp \in Nat \ {0} /\ r.rank \in 0 .. r.dp - 1

(* The part of a rank in the chunk that starts at sample x. *)
Slice(r, x) == [i \in 1 .. r.mbs |-> <<0, x + r.rank * r.mbs + i - 1>>]

LEMMA PretrainingPass ==
  ASSUME NEW s, s.type = "single", s.total \in Nat, NEW r, IsDataRank(r),
         NEW c \in Nat, c <= s.total
  PROVE  /\ (s.total - c) \div ChunkOf(r) \in Nat
         /\ Pass(s, r, c) = [n \in 1 .. (s.total - c) \div ChunkOf(r) |->
                                Slice(r, c + (n - 1) * ChunkOf(r))]
         /\ Len(Pass(s, r, c)) = (s.total - c) \div ChunkOf(r)
<1>1. ChunkOf(r) \in Nat \ {0}
  BY Positive DEF ChunkOf, IsDataRank
<1>2. PICK q \in Nat : q = (s.total - c) \div ChunkOf(r)
  <2>1. s.total - c \in Nat
    OBVIOUS
  <2>2. (s.total - c) \div ChunkOf(r) \in Nat
    BY <1>1, <2>1, DivIsNat, Zenon
  <2>3. QED
    BY <2>2
<1>3. Pass(s, r, c) = [n \in 1 .. q |-> Slice(r, c + (n - 1) * ChunkOf(r))]
  BY <1>2 DEF Pass, PretrainingSampler, Slice
<1>4. Len(Pass(s, r, c)) = q
  BY <1>3, SeqFacts
<1>5. QED
  BY <1>2, <1>3, <1>4

(* A microbatch of the pass, and the pass after it. *)
LEMMA PretrainingStep ==
  ASSUME NEW s, s.type = "single", s.total \in Nat, NEW r, IsDataRank(r),
         NEW c \in Nat, c + ChunkOf(r) <= s.total
  PROVE  /\ NextBatch(s, r, Iterator(s, r, c)).batch = Slice(r, c)
         /\ NextBatch(s, r, Iterator(s, r, c)).it = Iterator(s, r, c + ChunkOf(r))
<1>1. PICK h \in Nat \ {0} : h = ChunkOf(r)
  BY Positive DEF ChunkOf, IsDataRank
<1>2. PICK T \in Nat : T = s.total
  OBVIOUS
<1>3. PICK q \in Nat : q = (T - c) \div h
  <2>1. T - c \in Nat
    BY <1>1, <1>2
  <2>2. (T - c) \div h \in Nat
    BY <2>1, DivIsNat, Zenon
  <2>3. QED
    BY <2>2
<1>4. q >= 1
  <2>1. h * 1 <= T - c
    BY <1>1, <1>2
  <2>2. 1 <= (T - c) \div h
    BY <1>1, <1>2, <2>1, DivAtLeast
  <2>3. QED
    BY <1>3, <2>2
<1>5. (T - (c + h)) \div h = q - 1
  <2>1. ((T - c) - h * 1) \div h = (T - c) \div h - 1
    <3>1. T - c \in Int /\ 1 \in Int
      OBVIOUS
    <3>2. QED
      BY <3>1, DivShift
  <2>2. (T - c) - h * 1 = T - (c + h)
    OBVIOUS
  <2>3. QED
    BY <1>3, <2>1, <2>2
<1> DEFINE f == [n \in 1 .. q |-> Slice(r, c + (n - 1) * h)]
<1>6. Pass(s, r, c) = f
  <2>1. c <= s.total
    BY <1>1
  <2>2. QED
    BY <1>1, <1>2, <1>3, <2>1, PretrainingPass
<1>7. Pass(s, r, c + h) = [n \in 1 .. q - 1 |-> Slice(r, (c + h) + (n - 1) * h)]
  <2>1. PICK e \in Nat : e = c + h /\ e <= s.total
    BY <1>1
  <2>2. Pass(s, r, e) = [n \in 1 .. (s.total - e) \div ChunkOf(r) |->
                            Slice(r, e + (n - 1) * ChunkOf(r))]
    BY <2>1, PretrainingPass
  <2>3. (s.total - e) \div ChunkOf(r) = q - 1
    BY <1>1, <1>2, <1>5, <2>1
  <2>4. QED
    BY <1>1, <2>1, <2>2, <2>3
<1>8. /\ DOMAIN f = 1 .. q /\ f = [n \in DOMAIN f |-> f[n]]
      /\ f[1] = Slice(r, c)
      /\ \A n \in 1 .. q - 1 : f[n + 1] = Slice(r, (c + h) + (n - 1) * h)
  <2>1. c + (1 - 1) * h = c
    OBVIOUS
  <2>2. ASSUME NEW n \in 1 .. q - 1
        PROVE  f[n + 1] = Slice(r, (c + h) + (n - 1) * h)
    <3>1. c + ((n + 1) - 1) * h = (c + h) + (n - 1) * h
      OBVIOUS
    <3>2. n + 1 \in 1 .. q
      OBVIOUS
    <3>3. f[n + 1] = Slice(r, c + ((n + 1) - 1) * h)
      BY <3>2
    <3>4. QED
      BY <3>1, <3>3
  <2>3. 1 \in 1 .. q
    BY <1>4
  <2>4. f[1] = Slice(r, c + (1 - 1) * h)
    BY <2>3
  <2>5. QED
    BY <2>1, <2>2, <2>4
<1>9. Head(f) = f[1] /\ Tail(f) = [n \in 1 .. q - 1 |-> f[n + 1]]
  <2> HIDE DEF f
  <2>1. q > 0
    BY <1>4
  <2>2. QED
    BY <1>8, <2>1, SeqFacts
<1>10. Head(f) = Slice(r, c) /\ Tail(f) = Pass(s, r, c + h)
  <2> HIDE DEF f
  <2>1. [n \in 1 .. q - 1 |-> f[n + 1]] = [n \in 1 .. q - 1 |-> Slice(r, (c + h) + (n - 1) * h)]
    BY <1>8
  <2>2. QED
    BY <1>7, <1>8, <1>9, <2>1
<1>11. Refilled(s, r, Iterator(s, r, c)) = Iterator(s, r, c)
  BY DEF Refilled
<1>12. Iterator(s, r, c).left = f /\ Iterator(s, r, c).consumed = c
  BY <1>6 DEF Iterator
<1> HIDE DEF f
<1>13. NextBatch(s, r, Iterator(s, r, c))
         = [batch |-> Head(f), it |-> [left |-> Tail(f), consumed |-> c + h]]
  BY <1>1, <1>11, <1>12 DEF NextBatch
<1>14. Iterator(s, r, c + h) = [left |-> Pass(s, r, c + h), consumed |-> c + h]
  BY DEF Iterator
<1>15. NextBatch(s, r, Iterator(s, r, c)).it = Iterator(s, r, c + h)
  <2>1. NextBatch(s, r, Iterator(s, r, c)).it = [left |-> Tail(f), consumed |-> c + h]
    BY <1>13
  <2>2. QED
    BY <1>10, <1>14, <2>1, Zenon
<1>16. NextBatch(s, r, Iterator(s, r, c)).batch = Slice(r, c)
  BY <1>10, <1>13
<1>17. QED
  BY <1>1, <1>15, <1>16

(* n microbatches of a pass that has them. *)
ReadsInOrder(s, r, c, n) ==
  Draws(s, r, Iterator(s, r, c), n)
    = [drawn |-> [k \in 1 .. n |-> Slice(r, c + (k - 1) * ChunkOf(r))],
       it |-> Iterator(s, r, c + n * ChunkOf(r))]

LEMMA PretrainingDraws ==
  ASSUME NEW s, s.type = "single", s.total \in Nat, NEW r, IsDataRank(r),
         NEW c \in Nat, NEW n \in Nat, c + n * ChunkOf(r) <= s.total
  PROVE  ReadsInOrder(s, r, c, n)
<1>1. PICK h \in Nat \ {0} : h = ChunkOf(r)
  BY Positive DEF ChunkOf, IsDataRank
<1>0. PICK g : DrawsBy(s, r, Iterator(s, r, c), n, g)
  BY DrawsFacts, Zenon
<1>2. /\ Draws(s, r, Iterator(s, r, c), n) = g[n]
      /\ g[0] = [drawn |-> << >>, it |-> Iterator(s, r, c)]
      /\ \A i \in 1 .. n : g[i] = TakeOne(s, r, g[i - 1])
  BY <1>0, Zenon DEF DrawsBy
<1> DEFINE Upto(m) == [k \in 1 .. m |-> Slice(r, c + (k - 1) * h)]
           After(m) == [drawn |-> Upto(m), it |-> Iterator(s, r, c + m * h)]
           T == {m \in Nat : m <= n => g[m] = After(m)}
<1>3. 0 \in T
  <2>1. Upto(0) = << >> /\ c + 0 * h = c
    BY <1>1
  <2>2. QED
    BY <1>2, <2>1
<1>4. ASSUME NEW m \in Nat, m \in T PROVE m + 1 \in T
  <2>1. ASSUME m + 1 <= n PROVE g[m + 1] = After(m + 1)
    <3>1. g[m] = After(m)
      BY <1>4, <2>1
    <3>2. m + 1 \in 1 .. n /\ (m + 1) - 1 = m
      BY <2>1
    <3>3. g[m + 1] = TakeOne(s, r, g[m])
      <4>1. g[m + 1] = TakeOne(s, r, g[(m + 1) - 1])
        BY <1>2, <3>2
      <4>2. QED
        BY <3>2, <4>1
    <3>4. m * h \in Nat /\ (m + 1) * h = m * h + h /\ c + (m * h) + h <= s.total
      <4>1. m * h \in Nat /\ n * h \in Nat /\ (m + 1) * h = m * h + h
        OBVIOUS
      <4>2. (n - (m + 1)) * h >= 0 /\ (n - (m + 1)) * h = n * h - (m + 1) * h
        BY <2>1
      <4>3. QED
        BY <1>1, <4>1, <4>2
    <3>5. PICK d \in Nat : d = c + m * h
      BY <3>4
    <3>6. d + h <= s.total /\ c + (m + 1) * h = d + h
      BY <3>4, <3>5
    <3>7. /\ NextBatch(s, r, Iterator(s, r, d)).batch = Slice(r, d)
          /\ NextBatch(s, r, Iterator(s, r, d)).it = Iterator(s, r, d + h)
      BY <1>1, <3>6, PretrainingStep
    <3>8. g[m].drawn = Upto(m) /\ g[m].it = Iterator(s, r, d)
      BY <3>1, <3>5
    <3>9. Append(Upto(m), Slice(r, d)) = Upto(m + 1)
      <4> DEFINE f == Upto(m)
      <4>1. DOMAIN f = 1 .. m /\ f = [k \in DOMAIN f |-> f[k]]
        OBVIOUS
      <4>2. Append(f, Slice(r, d)) = [k \in 1 .. m + 1 |-> IF k <= m THEN f[k] ELSE Slice(r, d)]
        <5> HIDE DEF f
        <5>1. QED
          BY <4>1, SeqFacts
      <4>3. \A k \in 1 .. m + 1 :
               (IF k <= m THEN f[k] ELSE Slice(r, d)) = Slice(r, c + (k - 1) * h)
        <5> TAKE k \in 1 .. m + 1
        <5>1. CASE k <= m
          <6>1. k \in 1 .. m
            BY <5>1
          <6>2. QED
            BY <5>1, <6>1
        <5>2. CASE k = m + 1
          <6>1. k - 1 = m /\ ~(k <= m)
            BY <5>2
          <6>2. QED
            BY <3>5, <6>1
        <5>3. QED
          BY <5>1, <5>2
      <4> HIDE DEF f
      <4>4. QED
        BY <4>2, <4>3 DEF f
    <3> HIDE DEF Upto
    <3>10. g[m + 1] = [drawn |-> Upto(m + 1), it |-> Iterator(s, r, d + h)]
      BY <3>3, <3>7, <3>8, <3>9 DEF TakeOne
    <3>11. QED
      BY <3>6, <3>10
  <2>2. QED
    BY <2>1
<1>5. n \in T
  <2> HIDE DEF T
  <2>1. Nat \subseteq T
    BY <1>3, <1>4, NatInductionSet
  <2>2. QED
    BY <2>1
<1>6. g[n] = After(n)
  BY <1>5
<1>7. QED
  BY <1>1, <1>2, <1>6 DEF ReadsInOrder

-----------------------------------------------------------------------------
(* A launch that passed its checks.                                          *)

Launched(j, l) ==
  /\ l \in Layouts /\ Accepted(l.world, SizesOf(j, l), j.order)
  /\ BatchAccepted(j.b, Chunk(j, l))

LEMMA LayoutFacts ==
  ASSUME NEW l \in Layouts
  PROVE  l.world \in Nat \ {0} /\ l.mbs \in Nat \ {0} /\ l.gpus \in Nat \ {0}
<1>1. l \in [world : Nat \ {0}, mbs : Nat \ {0}, gpus : Nat \ {0}]
  BY ArgumentsAssumption
<1>2. QED
  BY <1>1

(* The ranks of a launch make up whole replicas, at least one. *)
LEMMA ReplicaFacts ==
  ASSUME NEW j \in Jobs, NEW l \in Layouts, Accepted(l.world, SizesOf(j, l), j.order)
  PROVE  SizesOf(j, l).dp \in Nat \ {0} /\ Chunk(j, l) \in Nat \ {0}
<1>1. PICK t \in Nat \ {0}, p \in Nat \ {0}, c \in Nat \ {0}, w \in Nat \ {0}, m \in Nat \ {0} :
        t = j.tp /\ p = j.pp /\ c = j.cp /\ w = l.world /\ m = l.mbs
  BY JobFacts, LayoutFacts
<1>2. PICK d \in Nat \ {0} : d = t * p * c
  <2>1. PICK k \in Nat \ {0} : k = t * p
    BY Positive
  <2>2. k * c \in Nat \ {0}
    BY Positive
  <2>3. QED
    BY <2>1, <2>2
<1>3. SizesOf(j, l).dp = w \div d /\ w % d = 0
  BY <1>1, <1>2 DEF SizesOf, Sizes, Accepted
<1>4. PICK q \in Nat, n \in 0 .. d - 1 : q = w \div d /\ n = w % d /\ w = d * q + n
  BY DivNat
<1>5. q # 0
  BY <1>3, <1>4
<1>6. Chunk(j, l) = q * m /\ q * m \in Nat \ {0}
  <2>1. q * m \in Nat \ {0}
    BY <1>5, Positive
  <2>2. QED
    BY <1>1, <1>3, <1>4, <2>1 DEF Chunk
<1>7. QED
  BY <1>3, <1>4, <1>5, <1>6

LEMMA LaunchFacts ==
  ASSUME NEW j \in Jobs, NEW l, Launched(j, l)
  PROVE  /\ SizesOf(j, l).dp \in Nat \ {0} /\ Chunk(j, l) \in Nat \ {0}
         /\ Ramps(j.b)
         /\ ~ j.b.rampup => j.b.global % Chunk(j, l) = 0
         /\ \A r \in Readers(j, l) :
              /\ IsDataRank(DataRank(j, l, r))
              /\ ChunkOf(DataRank(j, l, r)) = Chunk(j, l)
<1>1. l \in Layouts /\ Accepted(l.world, SizesOf(j, l), j.order)
  BY DEF Launched
<1>2. /\ SizesOf(j, l).dp \in Nat \ {0} /\ Chunk(j, l) \in Nat \ {0}
      /\ l.mbs \in Nat \ {0}
  BY <1>1, ReplicaFacts, LayoutFacts
<1>3. Ramps(j.b) /\ (~ j.b.rampup => j.b.global % Chunk(j, l) = 0)
  <2>1. j.b.rampup \in BOOLEAN
    BY JobFacts DEF IsBatch
  <2>2. QED
    BY <2>1 DEF Launched, BatchAccepted, Ramps
<1>4. ASSUME NEW r \in Readers(j, l)
      PROVE  /\ IsDataRank(DataRank(j, l, r))
             /\ ChunkOf(DataRank(j, l, r)) = Chunk(j, l)
  <2>1. DataRank(j, l, r).rank \in {DataRank(j, l, q).rank : q \in Readers(j, l)}
    OBVIOUS
  <2>2. {DataRank(j, l, q).rank : q \in Readers(j, l)} = 0 .. SizesOf(j, l).dp - 1
    BY <1>1, ReadersAssumption
  <2>3. DataRank(j, l, r).rank \in 0 .. SizesOf(j, l).dp - 1
    BY <2>1, <2>2, Zenon
  <2>4. DataRank(j, l, r).dp = SizesOf(j, l).dp /\ DataRank(j, l, r).mbs = l.mbs
    BY DEF DataRank
  <2>5. IsDataRank(DataRank(j, l, r))
    BY <1>2, <2>3, <2>4 DEF IsDataRank
  <2>6. ChunkOf(DataRank(j, l, r)) = Chunk(j, l)
    BY <1>2, <2>4 DEF ChunkOf, Chunk
  <2>7. QED
    BY <2>5, <2>6
<1>5. QED
  BY <1>2, <1>3, <1>4

(* Whole microbatches make up a batch that passes the check. *)
LEMMA BatchDivides ==
  ASSUME NEW j \in Jobs, NEW l, Launched(j, l), NEW c \in Nat
  PROVE  /\ NumMicrobatches(j.b, c, Chunk(j, l)) \in Nat
         /\ BatchConsistent(j.b, c, Chunk(j, l)) =>
              Chunk(j, l) * NumMicrobatches(j.b, c, Chunk(j, l)) = GlobalBatchSize(j.b, c)
         /\ \A d \in Nat : c <= d =>
              NumMicrobatches(j.b, c, Chunk(j, l)) <= NumMicrobatches(j.b, d, Chunk(j, l))
<1>1. /\ IsBatch(j.b) /\ Ramps(j.b) /\ Chunk(j, l) \in Nat \ {0}
      /\ ~ j.b.rampup => j.b.global % Chunk(j, l) = 0
  BY JobFacts, LaunchFacts
<1>2. PICK h \in Nat \ {0} : h = Chunk(j, l)
  BY <1>1
<1>3. PICK g \in Nat \ {0} : g = GlobalBatchSize(j.b, c)
  BY <1>1, BatchFacts
<1>4. PICK q \in Nat, m \in 0 .. h - 1 : q = g \div h /\ m = g % h /\ g = h * q + m
  BY DivNat
<1>5. NumMicrobatches(j.b, c, h) = q
  BY <1>3, <1>4 DEF NumMicrobatches
<1>6. ASSUME BatchConsistent(j.b, c, h) PROVE h * q = g
  <2>1. CASE j.b.rampup
    <3>1. m = 0
      BY <1>3, <1>4, <1>6, <2>1 DEF BatchConsistent
    <3>2. h * q \in Nat
      OBVIOUS
    <3>3. QED
      BY <1>4, <3>1, <3>2
  <2>2. CASE ~ j.b.rampup
    <3>1. g = j.b.global
      BY <1>1, <1>3, <2>2, BatchFacts
    <3>2. m = 0
      BY <1>1, <1>2, <1>4, <2>2, <3>1
    <3>3. h * q \in Nat
      OBVIOUS
    <3>4. QED
      BY <1>4, <3>2, <3>3
  <2>3. QED
    BY <2>1, <2>2
<1>7. ASSUME NEW d \in Nat, c <= d
      PROVE  NumMicrobatches(j.b, c, h) <= NumMicrobatches(j.b, d, h)
  <2>1. PICK e \in Nat \ {0} : e = GlobalBatchSize(j.b, d)
    BY <1>1, BatchFacts
  <2>2. g <= e
    BY <1>1, <1>3, <1>7, <2>1, BatchFacts
  <2>3. g \div h <= e \div h
    BY <2>2, DivMonotone
  <2>4. QED
    BY <1>3, <2>1, <2>3 DEF NumMicrobatches
<1>8. QED
  BY <1>2, <1>3, <1>5, <1>6, <1>7

-----------------------------------------------------------------------------
(* The progress of a job: what the counters say at any time.                 *)

CountersOK ==
  /\ job \in Jobs
  /\ iteration \in Nat /\ consumed \in Nat /\ OnTrack(job.b, iteration, consumed)
  /\ saved.iteration \in Nat /\ saved.consumed \in Nat
  /\ OnTrack(job.b, saved.iteration, saved.consumed)
  /\ saved.iteration > 0 => saved.iteration <= Iters

RunningOK ==
  /\ phase \in {"building", "training", "finished"} =>
       Launched(job, layout) /\ iteration <= Iters
  /\ phase = "building" => iteration = saved.iteration /\ consumed = saved.consumed
  /\ phase = "finished" => iteration = Iters

(* The number of microbatches is one of the samples consumed now or before, *)
(* and the sequential sampler goes on from those consumed now.               *)
TrainingOK ==
  phase = "training" =>
    /\ \E c \in 0 .. consumed :
         num_microbatches = NumMicrobatches(job.b, c, Chunk(job, layout))
    /\ job.s.type = "single" =>
         \A r \in Readers(job, layout) :
           iterators[r] = Iterator(job.s, DataRank(job, layout, r), consumed)

NeverRaised == why \notin {"StopIteration", "decreasing"}

ProgressInv == CountersOK /\ RunningOK /\ TrainingOK /\ NeverRaised

(* A job that is launched has a number of iterations. *)
LEMMA ItersFacts ==
  ASSUME NEW j \in Jobs, NEW l, Launched(j, l)
  PROVE  TrainIters(j.b, j.samples) \in Nat
BY LaunchFacts, WithinSamples

LEMMA InitProgress == Init => ProgressInv
<1> SUFFICES ASSUME Init PROVE ProgressInv
  OBVIOUS
<1>1. /\ job \in Jobs /\ iteration = 0 /\ consumed = 0 /\ phase = "down" /\ why = "none"
      /\ saved.iteration = 0 /\ saved.consumed = 0
  BY DEF Init, Checkpoint
<1>2. OnTrack(job.b, 0, 0)
  BY <1>1, StartsOnTrack
<1>3. CountersOK
  BY <1>1, <1>2 DEF CountersOK
<1>4. QED
  BY <1>1, <1>3 DEF ProgressInv, RunningOK, TrainingOK, NeverRaised

(* A step that leaves the counters and the checkpoint alone. *)
LEMMA SameCounters ==
  ASSUME CountersOK, UNCHANGED <<job, iteration, consumed, saved>>
  PROVE  CountersOK'
BY DEF CountersOK, Iters

LEMMA StartProgress ==
  ASSUME ProgressInv, NEW l \in Layouts, Start(l)
  PROVE  ProgressInv'
<1>1. /\ layout' = l /\ why' = StartError(l, saved)
      /\ iteration' = saved.iteration /\ consumed' = saved.consumed
      /\ job' = job /\ saved' = saved
      /\ phase' = IF why' = "none" THEN "building" ELSE "failed"
  BY DEF Start
<1>2. CountersOK
  BY DEF ProgressInv
<1>3. CountersOK'
  BY <1>1, <1>2 DEF CountersOK, Iters
<1>4. why' \in {"world size", "batch size", "microbatches", "none"}
  BY <1>1 DEF StartError
<1>5. ASSUME phase' = "building" PROVE Launched(job, l) /\ saved.iteration <= Iters
  <2>1. StartError(l, saved) = "none"
    BY <1>1, <1>5
  <2>2. Accepted(l.world, SizesOf(job, l), job.order) /\ BatchAccepted(job.b, Chunk(job, l))
    BY <2>1 DEF StartError
  <2>3. Launched(job, l)
    BY <2>2 DEF Launched
  <2>4. Iters \in Nat
    BY <1>2, <2>3, ItersFacts DEF CountersOK, Iters
  <2>5. QED
    BY <1>2, <2>3, <2>4 DEF CountersOK
<1>6. RunningOK'
  <2>1. phase' # "finished" /\ phase' # "training"
    BY <1>1
  <2>2. QED
    BY <1>1, <1>5, <2>1 DEF RunningOK, Iters
<1>7. TrainingOK'
  BY <1>1 DEF TrainingOK
<1>8. QED
  BY <1>3, <1>4, <1>6, <1>7 DEF ProgressInv, NeverRaised

(* Building goes on, or fails, or the job crashes. *)
LEMMA BuildProgress ==
  ASSUME ProgressInv,
         \/ \E r \in DOMAIN place : BuildDatasets(r) \/ BuildFails(r)
         \/ Crash
  PROVE  ProgressInv'
<1>1. /\ UNCHANGED <<job, layout, iteration, consumed, saved, num_microbatches, iterators>>
      /\ \/ phase' = phase /\ phase = "building" /\ why' = why
         \/ phase' = "failed" /\ why' \in {"missing", "unreadable"}
         \/ phase' = "down" /\ why' = why
  BY DEF BuildDatasets, BuildFails, Fail, Crash
<1>2. CountersOK'
  BY <1>1, SameCounters DEF ProgressInv
<1>3. QED
  BY <1>1, <1>2 DEF ProgressInv, RunningOK, TrainingOK, NeverRaised, Iters

(* A loader starts from the samples of the checkpoint. *)
LEMMA ResumesAtConsumed ==
  ASSUME CountersOK, Launched(job, layout)
  PROVE  ResumeAt(saved) = saved.consumed
<1>1. saved.iteration > 0 => saved.consumed > 0
  BY LaunchFacts, WithinSamples DEF CountersOK
<1>2. QED
  BY <1>1 DEF ResumeAt, CountersOK

LEMMA LoadersProgress ==
  ASSUME ProgressInv, BuildLoaders
  PROVE  ProgressInv'
<1>1. /\ UNCHANGED <<job, layout, iteration, consumed, saved>> /\ phase = "building"
      /\ \/ /\ phase' = "training" /\ why' = why
            /\ num_microbatches' = NumMicrobatches(job.b, saved.consumed, Chunk(job, layout))
            /\ iterators' = [r \in Readers(job, layout) |->
                               Iterator(job.s, DataRank(job, layout, r), ResumeAt(saved))]
         \/ phase' = "failed" /\ why' = "no samples left"
  BY DEF BuildLoaders, Fail
<1>2. CountersOK' /\ CountersOK /\ RunningOK
  BY <1>1, SameCounters DEF ProgressInv
<1>3. RunningOK'
  BY <1>1, <1>2 DEF RunningOK, Iters
<1>4. Launched(job, layout) /\ consumed = saved.consumed /\ consumed \in Nat
  BY <1>1, <1>2 DEF RunningOK, CountersOK
<1>5. ResumeAt(saved) = consumed
  BY <1>2, <1>4, ResumesAtConsumed
<1>6. TrainingOK'
  <2> SUFFICES ASSUME phase' = "training" PROVE TrainingOK'
    BY DEF TrainingOK
  <2>1. /\ num_microbatches' = NumMicrobatches(job.b, consumed, Chunk(job, layout))
        /\ iterators' = [r \in Readers(job, layout) |->
                            Iterator(job.s, DataRank(job, layout, r), consumed)]
    BY <1>1, <1>4, <1>5
  <2>2. consumed \in 0 .. consumed
    BY <1>4
  <2>3. QED
    BY <1>1, <2>1, <2>2 DEF TrainingOK
<1>7. QED
  BY <1>1, <1>2, <1>3, <1>6 DEF ProgressInv, NeverRaised

LEMMA FinishProgress ==
  ASSUME ProgressInv, Finish
  PROVE  ProgressInv'
<1>1. /\ UNCHANGED <<job, layout, iteration, consumed, why>> /\ phase = "training"
      /\ phase' = "finished" /\ iteration >= Iters
      /\ saved' = Checkpoint \/ saved' = saved
  BY DEF Finish
<1>2. CountersOK /\ Launched(job, layout) /\ iteration <= Iters
  BY <1>1 DEF ProgressInv, RunningOK
<1>3. Iters \in Nat /\ iteration \in Nat
  BY <1>2, ItersFacts DEF CountersOK, Iters
<1>4. CountersOK'
  <2>1. CASE saved' = saved
    BY <1>1, <1>2, <2>1, SameCounters
  <2>2. CASE saved' = Checkpoint
    BY <1>1, <1>2, <2>2 DEF CountersOK, Checkpoint, Iters
  <2>3. QED
    BY <1>1, <2>1, <2>2
<1>5. RunningOK'
  BY <1>1, <1>2, <1>3 DEF RunningOK, Iters
<1>6. QED
  BY <1>1, <1>4, <1>5 DEF ProgressInv, TrainingOK, NeverRaised

(* An iteration that is checked: its batch is there for every rank. *)
LEMMA IterationFits ==
  ASSUME CountersOK, Launched(job, layout), iteration < Iters,
         BatchConsistent(job.b, consumed, Chunk(job, layout)),
         NEW n, n = NumMicrobatches(job.b, consumed, Chunk(job, layout))
  PROVE  /\ n \in Nat /\ Chunk(job, layout) \in Nat \ {0}
         /\ Chunk(job, layout) * n = GlobalBatchSize(job.b, consumed)
         /\ GlobalBatchSize(job.b, consumed) \in Nat \ {0}
         /\ consumed + Chunk(job, layout) * n <= job.samples
         /\ OnTrack(job.b, iteration + 1, consumed + Chunk(job, layout) * n)
         /\ iteration + 1 <= Iters
<1>1. /\ job \in Jobs /\ iteration \in Nat /\ consumed \in Nat
      /\ OnTrack(job.b, iteration, consumed)
  BY DEF CountersOK
<1>2. /\ n \in Nat /\ Chunk(job, layout) \in Nat \ {0} /\ Ramps(job.b)
      /\ Chunk(job, layout) * n = GlobalBatchSize(job.b, consumed)
  BY <1>1, BatchDivides, LaunchFacts
<1>3. GlobalBatchSize(job.b, consumed) \in Nat \ {0}
  BY <1>1, <1>2, JobFacts, BatchFacts
<1>4. Iters \in Nat
  BY <1>1, ItersFacts DEF Iters
<1>5. PICK c \in Nat : c = consumed + GlobalBatchSize(job.b, consumed)
  BY <1>1, <1>3
<1>6. OnTrack(job.b, iteration + 1, c)
  BY <1>1, <1>2, <1>5, StaysOnTrack
<1>7. iteration + 1 \in Nat /\ iteration + 1 <= Iters
  BY <1>1, <1>4
<1>8. c <= job.samples
  BY <1>1, <1>2, <1>6, <1>7, WithinSamples DEF Iters
<1>9. QED
  BY <1>2, <1>3, <1>5, <1>6, <1>7, <1>8

LEMMA NothingRaised ==
  ASSUME ProgressInv, phase = "training", iteration < Iters
  PROVE  IterationError(NumMicrobatches(job.b, consumed, Chunk(job, layout)))
           \in {"microbatches", "none"}
<1> DEFINE n == NumMicrobatches(job.b, consumed, Chunk(job, layout))
<1>1. CountersOK /\ Launched(job, layout) /\ job \in Jobs /\ consumed \in Nat
  BY DEF ProgressInv, RunningOK, CountersOK
<1>2. ~(n < num_microbatches)
  <2>1. PICK c \in 0 .. consumed :
           num_microbatches = NumMicrobatches(job.b, c, Chunk(job, layout))
    BY DEF ProgressInv, TrainingOK
  <2>2. c \in Nat /\ c <= consumed
    BY <1>1
  <2>3. num_microbatches \in Nat /\ n \in Nat /\ num_microbatches <= n
    BY <1>1, <2>1, <2>2, BatchDivides
  <2>4. QED
    BY <2>3
<1>3. ASSUME BatchConsistent(job.b, consumed, Chunk(job, layout)),
             NEW r \in Readers(job, layout)
      PROVE  CanDraw(job.s, iterators[r], n)
  <2>1. CASE job.s.type = "cyclic"
    BY <2>1 DEF CanDraw
  <2>2. CASE job.s.type = "single"
    <3>1. PICK h \in Nat \ {0}, m \in Nat :
             /\ h = Chunk(job, layout) /\ m = n
             /\ h * m = GlobalBatchSize(job.b, consumed)
             /\ consumed + h * m <= job.samples
      BY <1>1, <1>3, IterationFits
    <3>2. /\ job.samples <= job.s.total /\ job.samples \in Nat /\ job.s.total \in Nat
      BY <1>1, <2>2, JobFacts
    <3>3. h * m \in Nat /\ consumed + h * m <= job.s.total /\ consumed <= job.s.total
      BY <1>1, <3>1, <3>2
    <3>4. iterators[r].left = Pass(job.s, DataRank(job, layout, r), consumed)
      <4>1. iterators[r] = Iterator(job.s, DataRank(job, layout, r), consumed)
        BY <2>2 DEF ProgressInv, TrainingOK
      <4>2. QED
        BY <4>1 DEF Iterator
    <3>5. IsDataRank(DataRank(job, layout, r)) /\ ChunkOf(DataRank(job, layout, r)) = h
      BY <1>1, <3>1, LaunchFacts
    <3>6. Len(iterators[r].left) = (job.s.total - consumed) \div h
      BY <1>1, <2>2, <3>2, <3>3, <3>4, <3>5, PretrainingPass
    <3>7. m <= (job.s.total - consumed) \div h
      <4>1. PICK x \in Nat : x = job.s.total - consumed
        BY <1>1, <3>2, <3>3
      <4>2. h * m <= x
        BY <1>1, <3>2, <3>3, <4>1
      <4>3. m <= x \div h
        <5>1. x \in Int /\ m \in Int
          OBVIOUS
        <5>2. QED
          BY <4>2, <5>1, DivAtLeast, Zenon
      <4>4. QED
        BY <4>1, <4>3
    <3>8. (job.s.total - consumed) \div h \in Int
      <4>1. PICK x \in Int : x = job.s.total - consumed
        BY <1>1, <3>2
      <4>2. x \div h \in Int
        OBVIOUS
      <4>3. QED
        BY <4>1, <4>2, Zenon
    <3>9. QED
      BY <3>1, <3>6, <3>7, <3>8 DEF CanDraw
  <2>3. QED
    BY <1>1, <2>1, <2>2, JobFacts
<1> HIDE DEF n
<1>4. IterationError(n) \in {"microbatches", "none"}
  BY <1>2, <1>3 DEF IterationError
<1>5. QED
  BY <1>4 DEF n

(* What an iteration that goes well changes. *)
Iterates(n) ==
  /\ iteration < Iters /\ BatchConsistent(job.b, consumed, Chunk(job, layout))
  /\ n = NumMicrobatches(job.b, consumed, Chunk(job, layout))
  /\ num_microbatches' = n
  /\ iterators' = [r \in Readers(job, layout) |->
                     Draws(job.s, DataRank(job, layout, r), iterators[r], n).it]
  /\ drawn' = [r \in Readers(job, layout) |->
                 Draws(job.s, DataRank(job, layout, r), iterators[r], n).drawn]
  /\ trained' = trained \cup
       SamplesOf([r \in Readers(job, layout) |->
                    Draws(job.s, DataRank(job, layout, r), iterators[r], n)])
  /\ iteration' = iteration + 1 /\ consumed' = consumed + Chunk(job, layout) * n
  /\ phase' \in {"down", "training"} /\ UNCHANGED <<job, layout, why, files, place>>
  /\ saved' = Checkpoint' \/ saved' = Checkpoint \/ saved' = saved

(* One that does not changes nothing but the checkpoint. *)
Aborts ==
  /\ phase' = "failed" /\ why' = "microbatches"
  /\ UNCHANGED <<job, layout, iteration, consumed, num_microbatches, iterators, drawn,
                 trained, files, place>>
  /\ saved' = Checkpoint \/ saved' = saved

LEMMA IterationCases ==
  ASSUME ProgressInv, TrainIteration
  PROVE  /\ phase = "training" /\ iteration < Iters
         /\ (\E n : Iterates(n)) \/ Aborts
<1> DEFINE n == NumMicrobatches(job.b, consumed, Chunk(job, layout))
           draws == [r \in Readers(job, layout) |->
                       Draws(job.s, DataRank(job, layout, r), iterators[r], n)]
<1>1. phase = "training" /\ iteration < Iters
  BY DEF TrainIteration
<1>2. IterationError(n) \in {"microbatches", "none"}
  BY <1>1, NothingRaised
<1>3. CASE IterationError(n) = "microbatches"
  <2>1. Fail("microbatches") /\ (saved' = Checkpoint \/ saved' = saved)
    BY <1>3 DEF TrainIteration
  <2>2. Aborts
    BY <2>1 DEF Aborts, Fail
  <2>3. QED
    BY <1>1, <2>2
<1>4. CASE IterationError(n) = "none"
  <2>1. BatchConsistent(job.b, consumed, Chunk(job, layout))
    BY <1>4 DEF IterationError
  <2>2. /\ num_microbatches' = n
        /\ iterators' = [r \in DOMAIN draws |-> draws[r].it]
        /\ drawn' = [r \in DOMAIN draws |-> draws[r].drawn]
        /\ trained' = trained \cup SamplesOf(draws)
        /\ iteration' = iteration + 1
        /\ consumed' = consumed + Chunk(job, layout) * n
        /\ phase' \in {"down", "training"} /\ UNCHANGED <<job, layout, why, files, place>>
        /\ saved' = Checkpoint' \/ saved' = Checkpoint \/ saved' = saved
    BY <1>4 DEF TrainIteration
  <2>3. /\ [r \in DOMAIN draws |-> draws[r].it]
             = [r \in Readers(job, layout) |->
                  Draws(job.s, DataRank(job, layout, r), iterators[r], n).it]
        /\ [r \in DOMAIN draws |-> draws[r].drawn]
             = [r \in Readers(job, layout) |->
                  Draws(job.s, DataRank(job, layout, r), iterators[r], n).drawn]
    OBVIOUS
  <2>4. Iterates(n)
    BY <1>1, <2>1, <2>2, <2>3 DEF Iterates
  <2>5. QED
    BY <1>1, <2>4
<1>5. QED
  BY <1>2, <1>3, <1>4

LEMMA IterationProgress ==
  ASSUME ProgressInv, TrainIteration
  PROVE  ProgressInv'
<1>1. /\ phase = "training" /\ iteration < Iters
      /\ (\E n : Iterates(n)) \/ Aborts
  BY IterationCases
<1>2. /\ CountersOK /\ Launched(job, layout) /\ iteration <= Iters
      /\ job \in Jobs /\ consumed \in Nat /\ iteration \in Nat
  BY <1>1 DEF ProgressInv, RunningOK, CountersOK
<1>3. CASE Aborts
  <2>1. CountersOK'
    <3>1. CASE saved' = saved
      BY <1>2, <1>3, <3>1, SameCounters DEF Aborts
    <3>2. CASE saved' = Checkpoint
      BY <1>2, <1>3, <3>2 DEF Aborts, CountersOK, Checkpoint, Iters
    <3>3. QED
      BY <1>3, <3>1, <3>2 DEF Aborts
  <2>2. QED
    BY <1>3, <2>1 DEF Aborts, ProgressInv, RunningOK, TrainingOK, NeverRaised
<1>4. ASSUME NEW n, Iterates(n) PROVE ProgressInv'
  <2>1. /\ n \in Nat /\ Chunk(job, layout) \in Nat \ {0}
        /\ consumed + Chunk(job, layout) * n <= job.samples
        /\ OnTrack(job.b, iteration + 1, consumed + Chunk(job, layout) * n)
        /\ iteration + 1 <= Iters
    BY <1>1, <1>2, <1>4, IterationFits DEF Iterates
  <2>2. PICK h \in Nat \ {0}, c \in Nat : h = Chunk(job, layout) /\ c = consumed + h * n
    <3>1. Chunk(job, layout) * n \in Nat
      BY <2>1
    <3>2. QED
      BY <1>2, <2>1, <3>1
  <2>3. /\ iteration' = iteration + 1 /\ consumed' = c /\ UNCHANGED <<job, layout, why>>
        /\ phase' \in {"down", "training"} /\ num_microbatches' = n
        /\ saved' = Checkpoint' \/ saved' = Checkpoint \/ saved' = saved
    BY <1>4, <2>2 DEF Iterates
  <2>4. CountersOK'
    <3>1. /\ job' \in Jobs /\ iteration' \in Nat /\ consumed' \in Nat
          /\ OnTrack(job'.b, iteration', consumed') /\ iteration' <= Iters' /\ Iters' = Iters
      BY <1>2, <2>1, <2>2, <2>3 DEF Iters
    <3>2. CASE saved' = saved
      BY <1>2, <2>3, <3>1, <3>2 DEF CountersOK
    <3>3. CASE saved' = Checkpoint
      BY <1>2, <2>3, <3>1, <3>3 DEF CountersOK, Checkpoint
    <3>4. CASE saved' = Checkpoint'
      BY <3>1, <3>4 DEF CountersOK, Checkpoint
    <3>5. QED
      BY <2>3, <3>2, <3>3, <3>4
  <2>5. RunningOK'
    BY <1>2, <2>1, <2>3 DEF RunningOK, Iters
  <2>6. TrainingOK'
    <3>1. /\ consumed \in 0 .. consumed'
          /\ num_microbatches' = NumMicrobatches(job'.b, consumed, Chunk(job', layout'))
      <4>1. h * n \in Nat
        BY <2>1
      <4>2. consumed \in 0 .. consumed'
        BY <1>2, <2>2, <2>3, <4>1
      <4>3. QED
        BY <1>4, <2>3, <4>2 DEF Iterates
    <3>2. ASSUME job.s.type = "single", NEW r \in Readers(job, layout)
          PROVE  iterators'[r] = Iterator(job.s, DataRank(job, layout, r), c)
      <4>1. iterators[r] = Iterator(job.s, DataRank(job, layout, r), consumed)
        BY <1>1, <3>2 DEF ProgressInv, TrainingOK
      <4>2. IsDataRank(DataRank(job, layout, r)) /\ ChunkOf(DataRank(job, layout, r)) = h
        BY <1>2, <2>2, LaunchFacts
      <4>3. /\ job.s.total \in Nat /\ consumed + n * h <= job.s.total
            /\ c = consumed + n * h
        <5>1. job.samples \in Nat /\ job.s.total \in Nat /\ job.samples <= job.s.total
          BY <1>2, <3>2, JobFacts
        <5>2. h * n = n * h /\ h * n \in Nat
          BY <2>1
        <5>3. QED
          BY <1>2, <2>1, <2>2, <5>1, <5>2
      <4>4. Draws(job.s, DataRank(job, layout, r), iterators[r], n).it
              = Iterator(job.s, DataRank(job, layout, r), c)
        <5>1. PICK it, t : /\ it = Iterator(job.s, DataRank(job, layout, r), c)
                           /\ t = consumed + n * ChunkOf(DataRank(job, layout, r))
          OBVIOUS
        <5>2. t = c
          BY <4>2, <4>3, <5>1
        <5>3. PICK b : Draws(job.s, DataRank(job, layout, r), Iterator(job.s, DataRank(job, layout, r), consumed), n)
                = [drawn |-> b, it |-> Iterator(job.s, DataRank(job, layout, r), t)]
          <6>1. consumed + n * ChunkOf(DataRank(job, layout, r)) <= job.s.total
            BY <4>2, <4>3
          <6>2. consumed \in Nat /\ n \in Nat
            BY <1>2, <2>1
          <6>3. ReadsInOrder(job.s, DataRank(job, layout, r), consumed, n)
            BY <3>2, <4>2, <4>3, <6>1, <6>2, PretrainingDraws, Zenon
          <6>4. QED
            BY <5>1, <6>3 DEF ReadsInOrder
        <5>4. Draws(job.s, DataRank(job, layout, r), iterators[r], n) = [drawn |-> b, it |-> it]
          BY <4>1, <5>1, <5>2, <5>3, Zenon
        <5>5. QED
          BY <5>1, <5>4
      <4>5. QED
        BY <1>4, <4>4 DEF Iterates
    <3>3. QED
      BY <2>3, <3>1, <3>2 DEF TrainingOK
  <2>7. QED
    BY <2>3, <2>4, <2>5, <2>6 DEF ProgressInv, NeverRaised
<1>5. QED
  BY <1>1, <1>3, <1>4

LEMMA ProgressStep == ProgressInv /\ [Next]_vars => ProgressInv'
<1> SUFFICES ASSUME ProgressInv, [Next]_vars PROVE ProgressInv'
  OBVIOUS
<1>1. CASE \E l \in Layouts : Start(l)
  BY <1>1, StartProgress
<1>2. CASE \E r \in DOMAIN place : BuildDatasets(r) \/ BuildFails(r)
  BY <1>2, BuildProgress
<1>3. CASE BuildLoaders
  BY <1>3, LoadersProgress
<1>4. CASE TrainIteration
  BY <1>4, IterationProgress
<1>5. CASE Finish
  BY <1>5, FinishProgress
<1>6. CASE Crash
  BY <1>6, BuildProgress
<1>7. CASE UNCHANGED vars
  BY <1>7 DEF vars, ProgressInv, CountersOK, RunningOK, TrainingOK, NeverRaised, Iters
<1>8. QED
  BY <1>1, <1>2, <1>3, <1>4, <1>5, <1>6, <1>7 DEF Next

LEMMA Progress == Spec => []ProgressInv
BY InitProgress, ProgressStep, PTL DEF Spec

(* Whatever the batch sizes and their ramp-up, the launches and the crashes: *)
(* the loop finds the data and the microbatches of every iteration, and ends *)
(* with less than a batch of the samples left.                               *)
THEOREM TrainItersFitSamplesThm == Spec => []TrainItersFitSamples
<1>1. ProgressInv => TrainItersFitSamples
  <2> SUFFICES ASSUME ProgressInv PROVE TrainItersFitSamples
    OBVIOUS
  <2>1. ASSUME phase = "finished"
        PROVE  consumed <= job.samples /\ job.samples < consumed + job.b.global
    <3>1. /\ job \in Jobs /\ iteration \in Nat /\ consumed \in Nat
          /\ OnTrack(job.b, iteration, consumed) /\ Launched(job, layout)
          /\ iteration = Iters
      BY <2>1 DEF ProgressInv, RunningOK, CountersOK
    <3>2. QED
      BY <3>1, LaunchFacts, WithinSamples DEF Iters
  <2>2. QED
    BY <2>1 DEF ProgressInv, NeverRaised, TrainItersFitSamples
<1>2. QED
  BY <1>1, Progress, PTL


-----------------------------------------------------------------------------
(* What a rank does while the datasets are built, item by item.              *)

HasItems(f, n) == n \in Nat /\ DOMAIN f = 1 .. n /\ f = [i \in DOMAIN f |-> f[i]]

Joined(f, n, g, m) == [i \in 1 .. n + m |-> IF i <= n THEN f[i] ELSE g[i - n]]

LEMMA ConcatFacts ==
  ASSUME NEW f, NEW n, HasItems(f, n), NEW g, NEW m, HasItems(g, m)
  PROVE  f \o g = Joined(f, n, g, m)
<1> USE DEF HasItems
<1> DEFINE U == {f[i] : i \in 1 .. n} \cup {g[i] : i \in 1 .. m}
           h == [i \in 1 .. n + m |-> IF i <= n THEN f[i] ELSE g[i - n]]
<1>1. f \in [1 .. n -> U] /\ g \in [1 .. m -> U]
  OBVIOUS
<1>2. h \in [1 .. n + m -> U]
  <2>1. \A i \in 1 .. n + m : (i <= n /\ i \in 1 .. n) \/ (~(i <= n) /\ i - n \in 1 .. m)
    OBVIOUS
  <2> HIDE DEF U
  <2>2. QED
    BY <1>1, <2>1
<1> HIDE DEF U
<1>3. f \in Seq(U) /\ Len(f) = n /\ g \in Seq(U) /\ Len(g) = m
  BY <1>1
<1>4. h \in Seq(U) /\ Len(h) = n + m
  BY <1>2
<1>5. /\ f \o g \in Seq(U) /\ Len(f \o g) = n + m
      /\ \A i \in 1 .. n + m : (f \o g)[i] = IF i <= n THEN f[i] ELSE g[i - n]
  BY <1>3, ConcatProperties
<1>6. \A i \in 1 .. n + m : (f \o g)[i] = h[i]
  BY <1>5
<1> HIDE DEF h
<1>7. f \o g = h
  BY <1>4, <1>5, <1>6, SeqEqual
<1>8. QED
  BY <1>7 DEF h, Joined

LEMMA PairFacts ==
  ASSUME NEW a, NEW b
  PROVE  <<a>> \o <<b>> = <<a, b>>
<1>1. <<a>> \in Seq({a, b}) /\ <<b>> \in Seq({a, b}) /\ <<a, b>> \in Seq({a, b})
  OBVIOUS
<1>2. Len(<<a>>) = 1 /\ Len(<<b>>) = 1 /\ Len(<<a, b>>) = 2
  OBVIOUS
<1>3. /\ <<a>> \o <<b>> \in Seq({a, b}) /\ Len(<<a>> \o <<b>>) = 2
      /\ (<<a>> \o <<b>>)[1] = a /\ (<<a>> \o <<b>>)[2] = b
  BY <1>1, <1>2, ConcatProperties
<1>4. <<a, b>>[1] = a /\ <<a, b>>[2] = b
  OBVIOUS
<1>5. \A i \in 1 .. 2 : i = 1 \/ i = 2
  OBVIOUS
<1>6. \A i \in 1 .. 2 : (<<a>> \o <<b>>)[i] = <<a, b>>[i]
  BY <1>3, <1>4, <1>5
<1>7. QED
  BY <1>1, <1>2, <1>3, <1>6, SeqEqual

(* The n-th dataset in the order they are constructed. *)
Dataset(u, n) == <<((n - 1) \div u.splits) + 1, ((n - 1) % u.splits) + 1>>

Datasets(u) == u.prefixes * u.splits

(* A rank that builds constructs a dataset before its barrier. *)
Early(u, r) == IF NeedToBuild(u, r) THEN 1 ELSE 0

Item(u, r, k) ==
  IF (k + Early(u, r)) % 2 = 0 THEN Dataset(u, (k + Early(u, r)) \div 2) ELSE Barrier

(* The items for the first n datasets. *)
Blocks(u, r, n) ==
  IF r \in u.readers THEN [k \in 1 .. 2 * n |-> Item(u, r, k)]
  ELSE [k \in 1 .. n |-> Barrier]

LEMMA BlocksGrow ==
  ASSUME NEW u, NEW r, NEW n \in Nat \ {0}
  PROVE  Blocks(u, r, n) = Blocks(u, r, n - 1) \o GenericDataset(u, r, Dataset(u, n))
<1> DEFINE d == Dataset(u, n)
<1>1. CASE r \in u.readers
  <2> DEFINE f == [k \in 1 .. 2 * (n - 1) |-> Item(u, r, k)]
             g == IF NeedToBuild(u, r) THEN <<d, Barrier>> ELSE <<Barrier, d>>
  <2>1. GenericDataset(u, r, d) = g
    <3> HIDE DEF d
    <3>1. <<d>> \o <<Barrier>> = <<d, Barrier>> /\ <<Barrier>> \o <<d>> = <<Barrier, d>>
      BY PairFacts
    <3>2. QED
      BY <1>1, <3>1 DEF GenericDataset
  <2>2. /\ 2 * (n - 1) \in Nat /\ DOMAIN f = 1 .. 2 * (n - 1)
        /\ f = [i \in DOMAIN f |-> f[i]]
    OBVIOUS
  <2>3. DOMAIN g = 1 .. 2 /\ g = [i \in DOMAIN g |-> g[i]]
    OBVIOUS
  <2>4. \A k \in 1 .. 2 * (n - 1) + 2 :
          (IF k <= 2 * (n - 1) THEN f[k] ELSE g[k - 2 * (n - 1)]) = Item(u, r, k)
    <3> TAKE k \in 1 .. 2 * (n - 1) + 2
    <3>1. CASE k <= 2 * (n - 1)
      <4>1. k \in 1 .. 2 * (n - 1)
        BY <3>1
      <4>2. QED
        BY <3>1, <4>1
    <3>2. CASE k = 2 * n - 1
      <4>1. k - 2 * (n - 1) = 1 /\ ~(k <= 2 * (n - 1))
        BY <3>2
      <4>2. CASE NeedToBuild(u, r)
        <5>1. (k + 1) % 2 = 0 /\ (k + 1) \div 2 = n
          BY <3>2
        <5>2. Item(u, r, k) = d
          BY <4>2, <5>1 DEF Item, Early
        <5> HIDE DEF d
        <5>3. g[1] = d
          BY <4>2
        <5>4. QED
          BY <4>1, <5>2, <5>3
      <4>3. CASE ~ NeedToBuild(u, r)
        <5>1. (k + 0) % 2 # 0
          BY <3>2
        <5>2. Item(u, r, k) = Barrier
          BY <4>3, <5>1 DEF Item, Early
        <5> HIDE DEF d
        <5>3. g[1] = Barrier
          BY <4>3
        <5>4. QED
          BY <4>1, <5>2, <5>3
      <4>4. QED
        BY <4>2, <4>3
    <3>3. CASE k = 2 * n
      <4>1. k - 2 * (n - 1) = 2 /\ ~(k <= 2 * (n - 1))
        BY <3>3
      <4>2. CASE NeedToBuild(u, r)
        <5>1. (k + 1) % 2 # 0
          BY <3>3
        <5>2. Item(u, r, k) = Barrier
          BY <4>2, <5>1 DEF Item, Early
        <5> HIDE DEF d
        <5>3. g[2] = Barrier
          BY <4>2
        <5>4. QED
          BY <4>1, <5>2, <5>3
      <4>3. CASE ~ NeedToBuild(u, r)
        <5>1. (k + 0) % 2 = 0 /\ (k + 0) \div 2 = n
          BY <3>3
        <5>2. Item(u, r, k) = d
          BY <4>3, <5>1 DEF Item, Early
        <5> HIDE DEF d
        <5>3. g[2] = d
          BY <4>3
        <5>4. QED
          BY <4>1, <5>2, <5>3
      <4>4. QED
        BY <4>2, <4>3
    <3>4. k <= 2 * (n - 1) \/ k = 2 * n - 1 \/ k = 2 * n
      OBVIOUS
    <3>5. QED
      BY <3>1, <3>2, <3>3, <3>4
  <2> HIDE DEF f, g, d
  <2>5. f \o g = [k \in 1 .. 2 * (n - 1) + 2 |->
                     IF k <= 2 * (n - 1) THEN f[k] ELSE g[k - 2 * (n - 1)]]
    <3>1. PICK p \in Nat : p = 2 * (n - 1)
      OBVIOUS
    <3>2. f \o g = [k \in 1 .. p + 2 |-> IF k <= p THEN f[k] ELSE g[k - p]]
      <4>1. HasItems(f, p) /\ HasItems(g, 2)
        BY <2>2, <2>3, <3>1 DEF HasItems
      <4>2. f \o g = Joined(f, p, g, 2)
        BY <4>1, ConcatFacts, Zenon
      <4>3. QED
        BY <4>2 DEF Joined
    <3>3. QED
      BY <3>1, <3>2
  <2>6. f \o g = [k \in 1 .. 2 * (n - 1) + 2 |-> Item(u, r, k)]
    BY <2>4, <2>5
  <2>7. 2 * (n - 1) + 2 = 2 * n
    OBVIOUS
  <2>8. QED
    BY <1>1, <2>1, <2>6, <2>7 DEF Blocks, f, d
<1>2. CASE r \notin u.readers
  <2> DEFINE f == [k \in 1 .. n - 1 |-> Barrier]
             g == <<Barrier>>
  <2>1. GenericDataset(u, r, d) = g
    <3>1. << >> \o <<Barrier>> = <<Barrier>> /\ <<Barrier>> \o << >> = <<Barrier>>
      OBVIOUS
    <3>2. QED
      BY <1>2, <3>1 DEF GenericDataset
  <2>2. /\ n - 1 \in Nat /\ DOMAIN f = 1 .. n - 1 /\ f = [i \in DOMAIN f |-> f[i]]
        /\ DOMAIN g = 1 .. 1 /\ g = [i \in DOMAIN g |-> g[i]]
    OBVIOUS
  <2>3. \A k \in 1 .. (n - 1) + 1 : (IF k <= n - 1 THEN f[k] ELSE g[k - (n - 1)]) = Barrier
    OBVIOUS
  <2> HIDE DEF f, g
  <2>4. f \o g = [k \in 1 .. (n - 1) + 1 |-> IF k <= n - 1 THEN f[k] ELSE g[k - (n - 1)]]
    <3>1. PICK p \in Nat : p = n - 1
      OBVIOUS
    <3>2. f \o g = [k \in 1 .. p + 1 |-> IF k <= p THEN f[k] ELSE g[k - p]]
      <4>1. HasItems(f, p) /\ HasItems(g, 1)
        BY <2>2, <3>1 DEF HasItems
      <4>2. f \o g = Joined(f, p, g, 1)
        BY <4>1, ConcatFacts, Zenon
      <4>3. QED
        BY <4>2 DEF Joined
    <3>3. QED
      BY <3>1, <3>2
  <2>5. f \o g = [k \in 1 .. (n - 1) + 1 |-> Barrier] /\ (n - 1) + 1 = n
    BY <2>3, <2>4
  <2>6. QED
    BY <1>2, <2>1, <2>5 DEF Blocks, f
<1>3. QED
  BY <1>1, <1>2

LEMMA MegatronDatasetsAre ==
  ASSUME NEW u, NEW r, Datasets(u) \in Nat
  PROVE  MegatronDatasets(u, r) = Blocks(u, r, Datasets(u))
<1> DEFINE Nth(n) == GenericDataset(u, r, Dataset(u, n))
           Step(g, n) == IF n = 0 THEN << >> ELSE g[n - 1] \o Nth(n)
           All == 0 .. Datasets(u)
           upto == CHOOSE g : g = [n \in All |-> Step(g, n)]
           closed == [n \in All |-> Blocks(u, r, n)]
<1>1. MegatronDatasets(u, r) = upto[Datasets(u)]
  BY DEF MegatronDatasets, Dataset, Datasets
<1>2. Blocks(u, r, 0) = << >>
  <2>1. 1 .. 2 * 0 = {} /\ 1 .. 0 = {}
    OBVIOUS
  <2>2. QED
    BY <2>1 DEF Blocks
<1>3. \A n \in All : n # 0 => n - 1 \in All /\ n \in Nat \ {0}
  OBVIOUS
<1>4. closed = [n \in All |-> Step(closed, n)]
  <2>1. \A n \in All : Blocks(u, r, n) = Step(closed, n)
    <3> TAKE n \in All
    <3>1. CASE n = 0
      BY <1>2, <3>1
    <3>2. CASE n # 0
      <4>1. closed[n - 1] = Blocks(u, r, n - 1)
        BY <1>3, <3>2
      <4> HIDE DEF closed
      <4>2. QED
        BY <1>3, <3>2, <4>1, BlocksGrow
    <3>3. QED
      BY <3>1, <3>2
  <2> HIDE DEF Step
  <2>2. QED
    BY <2>1
<1>5. upto = [n \in All |-> Step(upto, n)]
  <2>1. \E g : g = [n \in All |-> Step(g, n)]
    BY <1>4
  <2> HIDE DEF Step, All
  <2>2. QED
    BY <2>1, Zenon
<1> HIDE DEF upto, closed
<1> DEFINE T == {n \in Nat : n \in All => upto[n] = Blocks(u, r, n)}
<1>6. \A n \in All : upto[n] = Step(upto, n)
  <2> HIDE DEF Step
  <2>1. QED
    BY <1>5
<1>7. 0 \in T
  BY <1>2, <1>6
<1>8. ASSUME NEW n \in Nat, n \in T PROVE n + 1 \in T
  <2>1. ASSUME n + 1 \in All PROVE upto[n + 1] = Blocks(u, r, n + 1)
    <3>1. n \in All /\ (n + 1) - 1 = n /\ n + 1 # 0 /\ n + 1 \in Nat \ {0}
      BY <2>1
    <3>2. upto[n + 1] = upto[n] \o Nth(n + 1)
      BY <1>6, <2>1, <3>1
    <3>3. Blocks(u, r, n + 1) = Blocks(u, r, n) \o Nth(n + 1)
      BY <3>1, BlocksGrow
    <3>4. upto[n] = Blocks(u, r, n)
      BY <1>8, <3>1
    <3>5. QED
      BY <3>2, <3>3, <3>4
  <2>2. QED
    BY <2>1
<1> HIDE DEF T
<1>9. Nat \subseteq T
  BY <1>7, <1>8, NatInductionSet
<1>10. QED
  BY <1>1, <1>9 DEF T

(* The items of two sequences, one after the other. *)
FollowedBy(h, f, n, g, m) ==
  /\ HasItems(h, n + m)
  /\ \A i \in 1 .. n : h[i] = f[i]
  /\ \A i \in 1 .. m : h[n + i] = g[i]

LEMMA ConcatItems ==
  ASSUME NEW f, NEW n, HasItems(f, n), NEW g, NEW m, HasItems(g, m)
  PROVE  FollowedBy(f \o g, f, n, g, m)
<1> DEFINE h == Joined(f, n, g, m)
<1>1. n \in Nat /\ m \in Nat
  BY DEF HasItems
<1>2. HasItems(h, n + m)
  BY <1>1 DEF HasItems, Joined
<1>3. ASSUME NEW i \in 1 .. n PROVE h[i] = f[i]
  <2>1. i \in 1 .. n + m /\ i <= n
    BY <1>1
  <2>2. QED
    BY <2>1 DEF Joined
<1>4. ASSUME NEW i \in 1 .. m PROVE h[n + i] = g[i]
  <2>1. n + i \in 1 .. n + m /\ ~(n + i <= n) /\ (n + i) - n = i
    BY <1>1
  <2>2. QED
    BY <2>1 DEF Joined
<1> HIDE DEF h
<1>5. FollowedBy(h, f, n, g, m)
  BY <1>2, <1>3, <1>4 DEF FollowedBy
<1>6. f \o g = h
  BY ConcatFacts, Zenon DEF h
<1>7. QED
  BY <1>5, <1>6, Zenon

(* Two prefixes and more: rank 0 builds first, the others a barrier later, *)
(* and all meet the barriers of the blended datasets.                      *)
Behind(u, r) == IF u.prefixes = 1 \/ r = 0 THEN 0 ELSE 1

Extra(u) == IF u.prefixes = 1 THEN 0 ELSE 1 + u.splits

BlockLength(u, r) == IF r \in u.readers THEN 2 * Datasets(u) ELSE Datasets(u)

ScriptLength(u, r) == BlockLength(u, r) + Extra(u)

(* Where a reader constructs the n-th dataset. *)
Slot(u, r, n) == Behind(u, r) + 2 * n - Early(u, r)

IsScript(u, r, s) ==
  /\ HasItems(s, ScriptLength(u, r))
  /\ r \in u.readers =>
       \A n \in 1 .. Datasets(u) :
          /\ Slot(u, r, n) \in 1 .. ScriptLength(u, r)
          /\ s[Slot(u, r, n)] = Dataset(u, n)
  /\ \A k \in 1 .. ScriptLength(u, r) :
       s[k] # Barrier => r \in u.readers /\ \E n \in 1 .. Datasets(u) : k = Slot(u, r, n)

IsLaunch(u) ==
  /\ u.prefixes \in Nat \ {0} /\ u.splits \in Nat \ {0}
  /\ u.ranks \subseteq Nat /\ u.readers \subseteq u.ranks

LEMMA BlockItems ==
  ASSUME NEW u, NEW r, Datasets(u) \in Nat
  PROVE  LET b == Blocks(u, r, Datasets(u))
         IN /\ HasItems(b, BlockLength(u, r))
            /\ r \in u.readers =>
                 \A n \in 1 .. Datasets(u) :
                    /\ 2 * n - Early(u, r) \in 1 .. BlockLength(u, r)
                    /\ b[2 * n - Early(u, r)] = Dataset(u, n)
            /\ \A k \in 1 .. BlockLength(u, r) :
                 b[k] # Barrier =>
                   r \in u.readers /\ \E n \in 1 .. Datasets(u) : k = 2 * n - Early(u, r)
<1> DEFINE b == Blocks(u, r, Datasets(u))
<1>1. CASE r \notin u.readers
  <2>1. b = [k \in 1 .. Datasets(u) |-> Barrier] /\ BlockLength(u, r) = Datasets(u)
    BY <1>1 DEF Blocks, BlockLength
  <2>2. QED
    BY <1>1, <2>1 DEF HasItems
<1>2. CASE r \in u.readers
  <2>1. PICK N \in Nat : N = Datasets(u)
    OBVIOUS
  <2>2. PICK w \in {0, 1} : w = Early(u, r)
    BY DEF Early
  <2>3. b = [k \in 1 .. 2 * N |-> Item(u, r, k)] /\ BlockLength(u, r) = 2 * N
    BY <1>2, <2>1 DEF Blocks, BlockLength
  <2>4. HasItems(b, 2 * N)
    BY <2>3 DEF HasItems
  <2>5. ASSUME NEW n \in 1 .. N
        PROVE  2 * n - w \in 1 .. 2 * N /\ b[2 * n - w] = Dataset(u, n)
    <3>1. 2 * n - w \in 1 .. 2 * N /\ (2 * n - w + w) % 2 = 0 /\ (2 * n - w + w) \div 2 = n
      OBVIOUS
    <3>2. Item(u, r, 2 * n - w) = Dataset(u, n)
      BY <2>2, <3>1 DEF Item
    <3>3. QED
      BY <2>3, <3>1, <3>2
  <2>6. ASSUME NEW k \in 1 .. 2 * N, b[k] # Barrier
        PROVE  \E n \in 1 .. N : k = 2 * n - w
    <3>1. (k + w) % 2 = 0
      BY <2>2, <2>3, <2>6 DEF Item
    <3>2. (k + w) \div 2 \in 1 .. N /\ k = 2 * ((k + w) \div 2) - w
      BY <3>1
    <3>3. QED
      BY <3>2
  <2> HIDE DEF b
  <2>7. QED
    BY <1>2, <2>1, <2>2, <2>3, <2>4, <2>5, <2>6 DEF b
<1>3. QED
  BY <1>1, <1>2

LEMMA DatasetsFacts ==
  ASSUME NEW u, IsLaunch(u)
  PROVE  Datasets(u) \in Nat \ {0}
BY Positive DEF IsLaunch, Datasets

LEMMA ScriptFacts ==
  ASSUME NEW u, IsLaunch(u), NEW r \in u.ranks
  PROVE  IsScript(u, r, Script(u, r))
<1>1. Datasets(u) \in Nat \ {0}
  BY DatasetsFacts
<1>2. PICK N \in Nat \ {0}, p \in Nat \ {0}, q \in Nat \ {0}, w \in {0, 1} :
        N = Datasets(u) /\ p = u.prefixes /\ q = u.splits /\ w = Early(u, r)
  BY <1>1 DEF IsLaunch, Early
<1>3. PICK b : b = MegatronDatasets(u, r)
  OBVIOUS
<1>4. PICK l \in Nat \ {0} : l = BlockLength(u, r)
  BY <1>2 DEF BlockLength
<1>5. /\ HasItems(b, l)
      /\ r \in u.readers =>
           \A n \in 1 .. N : 2 * n - w \in 1 .. l /\ b[2 * n - w] = Dataset(u, n)
      /\ \A k \in 1 .. l :
           b[k] # Barrier => r \in u.readers /\ \E n \in 1 .. N : k = 2 * n - w
  BY <1>1, <1>2, <1>3, <1>4, BlockItems, MegatronDatasetsAre
<1>6. CASE p = 1
  <2>1. /\ Script(u, r) = b /\ ScriptLength(u, r) = l
        /\ \A n \in 1 .. N : Slot(u, r, n) = 2 * n - w
    BY <1>2, <1>3, <1>4, <1>6 DEF Script, ScriptLength, Extra, Slot, Behind
  <2>2. QED
    BY <1>2, <1>5, <2>1 DEF IsScript
<1>7. CASE p # 1
  <2> DEFINE one == <<Barrier>>
             tail == [s \in 1 .. q |-> Barrier]
  <2>1. HasItems(one, 1) /\ one[1] = Barrier /\ HasItems(tail, q) /\ \A i \in 1 .. q : tail[i] = Barrier
    BY DEF HasItems
  <2>2. ScriptLength(u, r) = l + 1 + q
    BY <1>2, <1>4, <1>7 DEF ScriptLength, Extra
  <2> HIDE DEF one, tail
  <2>3. CASE r = 0
    <3>1. PICK h : h = b \o one
      OBVIOUS
    <3>2. FollowedBy(h, b, l, one, 1)
      BY <1>5, <2>1, <3>1, ConcatItems, Zenon
    <3>3. HasItems(h, l + 1)
      BY <3>2 DEF FollowedBy
    <3>4. PICK s : s = h \o tail
      OBVIOUS
    <3>5. FollowedBy(s, h, l + 1, tail, q)
      BY <2>1, <3>3, <3>4, ConcatItems, Zenon
    <3>6. Script(u, r) = s
      BY <1>2, <1>3, <1>7, <2>3, <3>1, <3>4 DEF Script, one, tail
    <3>7. \A n \in 1 .. N : Slot(u, r, n) = 2 * n - w
      BY <1>2, <2>3 DEF Slot, Behind
    <3>8. HasItems(s, l + 1 + q) /\ \A k \in 1 .. l : s[k] = b[k]
      <4>1. \A k \in 1 .. l : k \in 1 .. l + 1
        OBVIOUS
      <4>2. QED
        BY <3>2, <3>5, <4>1 DEF FollowedBy
    <3>9. ASSUME NEW k \in 1 .. l + 1 + q, ~(k \in 1 .. l) PROVE s[k] = Barrier
      <4>1. CASE k = l + 1
        <5>1. l + 1 \in 1 .. l + 1 /\ 1 \in 1 .. 1
          OBVIOUS
        <5>2. h[l + 1] = Barrier
          BY <2>1, <3>2, <5>1 DEF FollowedBy
        <5>3. QED
          BY <3>5, <4>1, <5>1, <5>2 DEF FollowedBy
      <4>2. CASE k # l + 1
        <5>1. k - (l + 1) \in 1 .. q /\ k = (l + 1) + (k - (l + 1))
          BY <3>9, <4>2
        <5>2. s[(l + 1) + (k - (l + 1))] = tail[k - (l + 1)]
          BY <3>5, <5>1 DEF FollowedBy
        <5>3. QED
          BY <2>1, <5>1, <5>2
      <4>3. QED
        BY <4>1, <4>2
    <3>10. \A k \in 1 .. l : k \in 1 .. l + 1 + q
      OBVIOUS
    <3>11. QED
      BY <1>2, <1>5, <2>2, <3>6, <3>7, <3>8, <3>9, <3>10 DEF IsScript
  <2>4. CASE r # 0
    <3>1. PICK h : h = one \o b
      OBVIOUS
    <3>2. FollowedBy(h, one, 1, b, l)
      BY <1>5, <2>1, <3>1, ConcatItems, Zenon
    <3>3. HasItems(h, 1 + l)
      BY <3>2 DEF FollowedBy
    <3>4. PICK s : s = h \o tail
      OBVIOUS
    <3>5. FollowedBy(s, h, 1 + l, tail, q)
      BY <2>1, <3>3, <3>4, ConcatItems, Zenon
    <3>6. Script(u, r) = s
      BY <1>2, <1>3, <1>7, <2>4, <3>1, <3>4 DEF Script, one, tail
    <3>7. \A n \in 1 .. N : Slot(u, r, n) = 1 + 2 * n - w
      BY <1>2, <1>7, <2>4 DEF Slot, Behind
    <3>8. HasItems(s, l + 1 + q)
      <4>1. (1 + l) + q = l + 1 + q
        OBVIOUS
      <4>2. QED
        BY <3>5, <4>1 DEF FollowedBy
    <3>9. \A k \in 1 .. l : s[1 + k] = b[k]
      <4>1. \A k \in 1 .. l : 1 + k \in 1 .. 1 + l
        OBVIOUS
      <4>2. QED
        BY <3>2, <3>5, <4>1 DEF FollowedBy
    <3>10. ASSUME NEW k \in 1 .. l + 1 + q PROVE s[k] = Barrier \/ (k - 1 \in 1 .. l /\ s[k] = b[k - 1])
      <4>1. CASE k = 1
        <5>1. 1 \in 1 .. 1 + l /\ 1 \in 1 .. 1
          OBVIOUS
        <5>2. s[1] = h[1] /\ h[1] = one[1]
          BY <3>2, <3>5, <5>1 DEF FollowedBy
        <5>3. QED
          BY <2>1, <4>1, <5>2
      <4>2. CASE k > 1 /\ k <= l + 1
        <5>1. k - 1 \in 1 .. l /\ 1 + (k - 1) = k
          BY <4>2
        <5>2. s[1 + (k - 1)] = b[k - 1]
          BY <3>9, <5>1
        <5>3. QED
          BY <5>1, <5>2
      <4>3. CASE k > l + 1
        <5>1. k - (l + 1) \in 1 .. q /\ k = (1 + l) + (k - (l + 1))
          BY <4>3
        <5>2. s[(1 + l) + (k - (l + 1))] = tail[k - (l + 1)]
          BY <3>5, <5>1 DEF FollowedBy
        <5>3. QED
          BY <2>1, <5>1, <5>2
      <4>4. QED
        BY <4>1, <4>2, <4>3
    <3>11. ASSUME r \in u.readers, NEW n \in 1 .. N
           PROVE  1 + 2 * n - w \in 1 .. l + 1 + q /\ s[1 + 2 * n - w] = Dataset(u, n)
      <4>1. 2 * n - w \in 1 .. l /\ b[2 * n - w] = Dataset(u, n)
        BY <1>5, <3>11
      <4>2. 1 + 2 * n - w = 1 + (2 * n - w) /\ 1 + (2 * n - w) \in 1 .. l + 1 + q
        BY <4>1
      <4>3. QED
        BY <3>9, <4>1, <4>2
    <3>12. ASSUME NEW k \in 1 .. l + 1 + q, s[k] # Barrier
           PROVE  r \in u.readers /\ \E n \in 1 .. N : k = 1 + 2 * n - w
      <4>1. k - 1 \in 1 .. l /\ b[k - 1] # Barrier
        BY <3>10, <3>12
      <4>2. PICK n \in 1 .. N : k - 1 = 2 * n - w
        BY <1>5, <4>1
      <4>3. k = 1 + 2 * n - w
        BY <4>2
      <4>4. QED
        BY <1>5, <4>1, <4>3
    <3>13. QED
      BY <1>2, <2>2, <3>6, <3>7, <3>8, <3>11, <3>12 DEF IsScript
  <2>5. QED
    BY <2>3, <2>4
<1>8. QED
  BY <1>6, <1>7

-----------------------------------------------------------------------------
(* Who builds: one rank for each storage that a reader has.                  *)

LEMMA MultipleOf ==
  ASSUME NEW x \in Nat, NEW d \in Nat \ {0}, x % d = 0
  PROVE  \E a \in Nat : x = d * a
<1>1. PICK a \in Nat, m \in 0 .. d - 1 : a = x \div d /\ m = x % d /\ x = d * a + m
  BY DivNat
<1>2. m = 0 /\ d * a \in Nat
  BY <1>1
<1>3. x = d * a
  BY <1>1, <1>2
<1>4. QED
  BY <1>3

LEMMA MultiplesApart ==
  ASSUME NEW x \in Nat, NEW y \in Nat, NEW d \in Nat \ {0}, x % d = 0, y % d = 0, x < y
  PROVE  y - x >= d
<1>1. PICK a \in Nat : x = d * a
  BY MultipleOf
<1>2. PICK b \in Nat : y = d * b
  BY MultipleOf
<1>3. d * (b - a) = y - x /\ d * (b - a) > 0
  BY <1>1, <1>2
<1>4. b - a >= 1
  BY <1>3
<1>5. d * (b - a) >= d
  BY <1>4
<1>6. QED
  BY <1>3, <1>5

(* Numbers of one block of d are less than d apart. *)
LEMMA SameBlock ==
  ASSUME NEW x \in Nat, NEW y \in Nat, NEW d \in Nat \ {0}, x \div d = y \div d
  PROVE  y - x < d
<1>1. PICK a \in Nat, m \in 0 .. d - 1 : a = x \div d /\ x = d * a + m
  BY DivNat
<1>2. PICK b \in Nat, n \in 0 .. d - 1 : b = y \div d /\ y = d * b + n
  BY DivNat
<1>3. a = b /\ d * a \in Nat
  BY <1>1, <1>2
<1>4. QED
  BY <1>1, <1>2, <1>3

BuildersOK(u) ==
  /\ \A r \in u.readers :
       ~ NeedToBuild(u, r) =>
          r # 0 /\ \E b \in u.readers : NeedToBuild(u, b) /\ Storage(u, b) = Storage(u, r)
  /\ \A a, b \in u.ranks :
       NeedToBuild(u, a) /\ NeedToBuild(u, b) /\ Storage(u, a) = Storage(u, b) => a = b
  /\ \A r \in u.ranks : NeedToBuild(u, r) => r \in u.readers
  /\ \A r \in u.ranks : Storage(u, r) \in 0 .. Nodes - 1

LEMMA LaunchShape ==
  ASSUME NEW j \in Jobs, NEW l, Launched(j, l)
  PROVE  /\ IsLaunch(Launch(j, l)) /\ BuildersOK(Launch(j, l))
         /\ Launch(j, l).readers = Readers(j, l)
         /\ Launch(j, l).ranks = Ranks(l.world)
         /\ Launch(j, l).prefixes = j.prefixes /\ Launch(j, l).splits = j.splits
<1>1. l \in Layouts /\ Accepted(l.world, SizesOf(j, l), j.order)
  BY DEF Launched
<1>2. PICK u : u = Launch(j, l)
  OBVIOUS
<1>3. PICK w \in Nat \ {0}, g \in Nat \ {0}, t \in Nat \ {0} :
         w = l.world /\ g = l.gpus /\ t = j.tp
  BY <1>1, LayoutFacts, JobFacts
<1>4. /\ u.readers = Readers(j, l) /\ u.ranks = Ranks(l.world) /\ u.ranks = 0 .. w - 1
      /\ u.prefixes = j.prefixes /\ u.splits = j.splits /\ u.shared = j.shared
      /\ u.gpus = g /\ u.tp = t
  BY <1>2, <1>3 DEF Launch, Ranks
<1>5. u.readers = {r \in 0 .. w - 1 : r % t = 0}
  BY <1>1, <1>3, <1>4, ReadersAssumption DEF Ranks
<1>6. 0 \in u.readers
  <2>1. Digits(0, t, 0, 0)
    BY DEF Digits
  <2>2. 0 % t = 0
    BY <2>1, DivUnique, Zenon
  <2>3. QED
    BY <1>5, <2>2
<1>7. IsLaunch(u)
  <2>1. j.prefixes \in Nat \ {0} /\ j.splits \in Nat \ {0}
    BY ArgumentsAssumption
  <2>2. QED
    BY <1>4, <1>5, <2>1 DEF IsLaunch
<1>8. Nodes \in Nat \ {0}
  BY ArgumentsAssumption
<1>9. CASE j.shared
  <2>1. \A r : NeedToBuild(u, r) <=> r = 0
    BY <1>4, <1>9 DEF NeedToBuild
  <2>2. \A r : Storage(u, r) = 0
    BY <1>4, <1>9 DEF Storage
  <2>3. BuildersOK(u)
    BY <1>6, <1>8, <2>1, <2>2 DEF BuildersOK
  <2>4. QED
    BY <1>2, <1>4, <1>7, <2>3
<1>10. CASE ~ j.shared
  <2>1. \A r : NeedToBuild(u, r) <=> r \in u.readers /\ (t > g \/ r % g = 0)
    BY <1>4, <1>10 DEF NeedToBuild
  <2>2. \A r : Storage(u, r) = r \div g
    BY <1>4, <1>10 DEF Storage
  <2>3. (w - 1) \div g < Nodes /\ (t > g \/ g % t = 0)
    BY <1>1, <1>3, <1>10, NodesAssumption
  <2>4. ASSUME NEW r \in u.readers, ~ NeedToBuild(u, r)
        PROVE  r # 0 /\ \E b \in u.readers : NeedToBuild(u, b) /\ Storage(u, b) = Storage(u, r)
    <3>1. ~(t > g) /\ g % t = 0 /\ r % g # 0 /\ r \in Nat
      BY <1>5, <2>1, <2>3, <2>4
    <3>2. r # 0
      <4>1. Digits(0, g, 0, 0)
        BY DEF Digits
      <4>2. 0 % g = 0
        BY <4>1, DivUnique, Zenon
      <4>3. QED
        BY <3>1, <4>2
    <3>3. PICK k \in Nat, m \in 0 .. g - 1 : k = r \div g /\ r = g * k + m
      BY <3>1, DivNat
    <3>4. PICK h \in Nat : g = t * h
      BY <3>1, MultipleOf
    <3>5. PICK b \in Nat : b = g * k
      OBVIOUS
    <3>6. b <= r
      BY <3>3, <3>5
    <3>7. b = t * (h * k) /\ h * k \in Int
      BY <3>4, <3>5
    <3>8. PICK e \in Int : e = h * k
      BY <3>7
    <3>9. b % t = 0
      <4>1. Digits(b, t, e, 0)
        BY <3>7, <3>8 DEF Digits
      <4>2. QED
        BY <4>1, DivUnique, Zenon
    <3>10. b \div g = k /\ b % g = 0
      <4>1. Digits(b, g, k, 0)
        BY <3>5 DEF Digits
      <4>2. QED
        BY <4>1, DivUnique, Zenon
    <3>11. b \in u.readers
      BY <1>5, <3>6, <3>9
    <3>12. NeedToBuild(u, b) /\ Storage(u, b) = Storage(u, r)
      BY <2>1, <2>2, <3>3, <3>10, <3>11
    <3>13. QED
      BY <3>2, <3>11, <3>12
  <2>5. ASSUME NEW a \in u.ranks, NEW b \in u.ranks, NeedToBuild(u, a), NeedToBuild(u, b),
               Storage(u, a) = Storage(u, b), a < b
        PROVE  FALSE
    <3>1. a \in Nat /\ b \in Nat /\ a \div g = b \div g
      BY <1>4, <2>2, <2>5
    <3>2. b - a < g
      BY <3>1, SameBlock
    <3>3. CASE t > g
      <4>1. a % t = 0 /\ b % t = 0
        BY <1>5, <2>1, <2>5
      <4>2. b - a >= t
        BY <2>5, <3>1, <4>1, MultiplesApart
      <4>3. QED
        BY <3>1, <3>2, <3>3, <4>2
    <3>4. CASE a % g = 0 /\ b % g = 0
      <4>1. b - a >= g
        BY <2>5, <3>1, <3>4, MultiplesApart
      <4>2. QED
        BY <3>1, <3>2, <4>1
    <3>5. QED
      BY <2>1, <2>5, <3>3, <3>4
  <2>6. ASSUME NEW r \in u.ranks PROVE Storage(u, r) \in 0 .. Nodes - 1
    <3>1. r \in Nat /\ r <= w - 1 /\ w - 1 \in Int
      BY <1>4
    <3>2. r \div g <= (w - 1) \div g
      BY <3>1, DivMonotone
    <3>3. r \div g \in Nat /\ (w - 1) \div g \in Int
      <4>1. r \div g \in Nat
        BY <3>1, DivIsNat, Zenon
      <4>2. w - 1 \in Nat
        OBVIOUS
      <4>3. (w - 1) \div g \in Nat
        BY <4>2, DivIsNat, Zenon
      <4>4. QED
        BY <4>1, <4>3
    <3>4. QED
      BY <1>8, <2>2, <2>3, <3>2, <3>3
  <2>7. \A a, b \in u.ranks : NeedToBuild(u, a) /\ NeedToBuild(u, b)
                                 /\ Storage(u, a) = Storage(u, b) => a = b
    <3> SUFFICES ASSUME NEW a \in u.ranks, NEW b \in u.ranks, NeedToBuild(u, a),
                        NeedToBuild(u, b), Storage(u, a) = Storage(u, b)
                 PROVE  a = b
      OBVIOUS
    <3>1. a \in Nat /\ b \in Nat
      BY <1>4
    <3>2. ~(a < b) /\ ~(b < a)
      BY <2>5
    <3>3. QED
      BY <3>1, <3>2
  <2>8. BuildersOK(u)
    BY <2>1, <2>4, <2>6, <2>7 DEF BuildersOK
  <2>9. QED
    BY <1>2, <1>4, <1>7, <2>8
<1>11. QED
  BY <1>9, <1>10

-----------------------------------------------------------------------------
(* Where the ranks of launch u are while they build.                         *)

Rest(s, p, n) == [i \in 1 .. n - p |-> s[p + i]]

(* Rank r has p items and c datasets behind it. *)
PlaceIs(u, r, p, c) ==
  /\ p \in 0 .. ScriptLength(u, r) /\ c \in 0 .. Datasets(u)
  /\ place[r].todo = Rest(Script(u, r), p, ScriptLength(u, r))
  /\ place[r].met \in Nat /\ place[r].met = p - c
  /\ r \in u.readers => \A n \in 1 .. Datasets(u) : Slot(u, r, n) <= p <=> n <= c
  /\ r \notin u.readers => c = 0

IsWhole(x) == \A f \in 1 .. NumFiles : x[f] = "whole"

(* The datasets behind a rank are whole. *)
BehindIsWhole(u, r, c) ==
  r \in u.readers => \A n \in 1 .. c : IsWhole(files[Storage(u, r)][Dataset(u, n)])

(* The files of the dataset that r builds, w steps into them. *)
Written(x, w) ==
  \A f \in 1 .. NumFiles :
     /\ f <= w \div 2 => x[f] = "whole"
     /\ f = w \div 2 + 1 /\ w % 2 = 1 => x[f] = "truncated"
     /\ f = NumFiles /\ w <= 2 * (NumFiles - 1) => x[f] = "absent"

WritingOK(r) ==
  place[r].written > 0 =>
     place[r].builds /\ Constructing(r) /\ Written(FilesOf(r), place[r].written)

RankOK(u, r) ==
  /\ place[r] = [todo |-> place[r].todo, met |-> place[r].met,
                 written |-> place[r].written, storage |-> Storage(u, r),
                 builds |-> NeedToBuild(u, r)]
  /\ place[r].written \in 0 .. 2 * NumFiles - 1
  /\ \E p \in 0 .. ScriptLength(u, r), c \in 0 .. Datasets(u) :
        PlaceIs(u, r, p, c) /\ BehindIsWhole(u, r, c)
  /\ WritingOK(r)

BuildInv(u) ==
  /\ DOMAIN place = u.ranks /\ place = [r \in u.ranks |-> place[r]]
  /\ \A r \in u.ranks : RankOK(u, r)
  /\ \A r, q \in u.ranks : place[r].met <= Reached(q)

(* The last file of a dataset is opened when the others are whole. *)
LastFileLast(x) ==
  x[NumFiles] # "absent" => \A f \in 1 .. NumFiles - 1 : x[f] = "whole"

Grid(j) == (1 .. j.prefixes) \X (1 .. j.splits)

FilesOK ==
  /\ files \in [0 .. Nodes - 1 ->
                  [Grid(job) -> [1 .. NumFiles -> {"absent", "truncated", "whole"}]]]
  /\ \A node \in 0 .. Nodes - 1 : \A d \in Grid(job) : LastFileLast(files[node][d])

-----------------------------------------------------------------------------
(* What a rank does next.                                                    *)

IsRest(x, s, p, n) ==
  /\ x = << >> <=> p = n
  /\ p < n => Head(x) = s[p + 1] /\ Tail(x) = Rest(s, p + 1, n)

LEMMA RestFacts ==
  ASSUME NEW s, NEW n \in Nat, NEW p \in 0 .. n
  PROVE  IsRest(Rest(s, p, n), s, p, n)
<1> DEFINE f == [i \in 1 .. n - p |-> s[p + i]]
<1>1. n - p \in Nat /\ DOMAIN f = 1 .. n - p /\ f = [i \in DOMAIN f |-> f[i]]
  OBVIOUS
<1>2. f[1] = s[p + 1] \/ ~(p < n)
  OBVIOUS
<1>3. p < n => [i \in 1 .. (n - p) - 1 |-> f[i + 1]] = Rest(s, p + 1, n)
  <2>1. (n - p) - 1 = n - (p + 1)
    OBVIOUS
  <2>2. \A i \in 1 .. (n - p) - 1 : f[i + 1] = s[(p + 1) + i]
    <3> TAKE i \in 1 .. (n - p) - 1
    <3>1. i + 1 \in 1 .. n - p /\ p + (i + 1) = (p + 1) + i
      OBVIOUS
    <3>2. QED
      BY <3>1
  <2> HIDE DEF f
  <2>3. QED
    BY <2>1, <2>2 DEF Rest
<1>4. f = Rest(s, p, n)
  BY DEF Rest
<1> HIDE DEF f
<1>5. PICK m \in Nat : m = n - p
  BY <1>1
<1>6. /\ m = 0 <=> f = << >>
      /\ m > 0 => Head(f) = f[1] /\ Tail(f) = [i \in 1 .. m - 1 |-> f[i + 1]]
  BY <1>1, <1>5, SeqFacts
<1>7. QED
  BY <1>2, <1>3, <1>4, <1>5, <1>6 DEF IsRest

LEMMA DatasetIsNoBarrier ==
  ASSUME NEW u, NEW n
  PROVE  Dataset(u, n) # Barrier
<1>1. PICK a, b : Dataset(u, n) = <<a, b>>
  BY DEF Dataset
<1>2. Len(<<a, b>>) = 2 /\ Len(<<"barrier">>) = 1
  OBVIOUS
<1>3. QED
  BY <1>1, <1>2 DEF Barrier

(* Where a rank is in its script, without its files. *)
Stands(u, r, p, c) ==
  /\ p \in Nat /\ c \in Nat /\ Datasets(u) \in Nat \ {0} /\ Extra(u) \in Nat
  /\ ScriptLength(u, r) \in Nat
  /\ Behind(u, r) \in {0, 1} /\ Early(u, r) \in {0, 1}
  /\ p <= ScriptLength(u, r) /\ c <= Datasets(u) /\ place[r].met = p - c
  /\ ScriptLength(u, r) = (IF r \in u.readers THEN 2 * Datasets(u) ELSE Datasets(u)) + Extra(u)
  /\ (Extra(u) = 0 /\ Behind(u, r) = 0) \/ Extra(u) > 1
  /\ r \in u.readers =>
       \A n \in 1 .. Datasets(u) : Behind(u, r) + 2 * n - Early(u, r) <= p <=> n <= c
  /\ r \notin u.readers => c = 0

LEMMA StandsFacts ==
  ASSUME NEW u, IsLaunch(u), NEW r \in u.ranks, NEW p, NEW c, PlaceIs(u, r, p, c)
  PROVE  Stands(u, r, p, c)
<1>1. Datasets(u) \in Nat \ {0}
  BY DatasetsFacts
<1>2. u.prefixes \in Nat \ {0} /\ u.splits \in Nat \ {0}
  BY DEF IsLaunch
<1>3. Extra(u) \in Nat /\ ((Extra(u) = 0 /\ Behind(u, r) = 0) \/ Extra(u) > 1)
  BY <1>2 DEF Extra, Behind
<1>4. Behind(u, r) \in {0, 1} /\ Early(u, r) \in {0, 1}
  BY DEF Behind, Early
<1>5. ScriptLength(u, r) = (IF r \in u.readers THEN 2 * Datasets(u) ELSE Datasets(u)) + Extra(u)
  BY DEF ScriptLength, BlockLength
<1>6. ScriptLength(u, r) \in Nat
  BY <1>1, <1>3, <1>5
<1>7. QED
  BY <1>1, <1>3, <1>4, <1>5, <1>6 DEF PlaceIs, Stands, Slot

(* What rank r does next, p items and c datasets behind it. *)
DoesNext(u, r, p, c) ==
  /\ Done(r) <=> p = ScriptLength(u, r)
  /\ AtBarrier(r) =>
       p < ScriptLength(u, r) /\ (r \in u.readers => \A n \in 1 .. Datasets(u) : p + 1 # Slot(u, r, n))
  /\ Constructing(r) =>
       /\ r \in u.readers /\ c < Datasets(u) /\ p + 1 = Slot(u, r, c + 1)
       /\ Head(place[r].todo) = Dataset(u, c + 1)
  /\ ~ Done(r) => Tail(place[r].todo) = Rest(Script(u, r), p + 1, ScriptLength(u, r))

LEMMA NextItem ==
  ASSUME NEW u, IsLaunch(u), NEW r \in u.ranks, NEW p, NEW c, PlaceIs(u, r, p, c)
  PROVE  DoesNext(u, r, p, c)
<1>1. Stands(u, r, p, c) /\ IsScript(u, r, Script(u, r))
  BY StandsFacts, ScriptFacts
<1>2. PICK s, L : s = Script(u, r) /\ L = ScriptLength(u, r)
  OBVIOUS
<1>3. L \in Nat /\ p \in 0 .. L /\ place[r].todo = Rest(s, p, L)
  <2>1. L \in Nat
    BY <1>1, <1>2 DEF Stands
  <2>2. p \in 0 .. L /\ place[r].todo = Rest(s, p, L)
    BY <1>2, Zenon DEF PlaceIs
  <2>3. QED
    BY <2>1, <2>2
<1>4. /\ place[r].todo = << >> <=> p = L
      /\ p < L => Head(place[r].todo) = s[p + 1] /\ Tail(place[r].todo) = Rest(s, p + 1, L)
  <2>1. IsRest(place[r].todo, s, p, L)
    BY <1>3, RestFacts, Zenon
  <2>2. QED
    BY <2>1 DEF IsRest
<1>5. Done(r) <=> p = L
  BY <1>4 DEF Done
<1>6. ASSUME AtBarrier(r), r \in u.readers, NEW n \in 1 .. Datasets(u), p + 1 = Slot(u, r, n)
      PROVE  FALSE
  <2>1. s[p + 1] = Dataset(u, n)
    BY <1>1, <1>2, <1>6 DEF IsScript
  <2>2. s[p + 1] = Barrier
    BY <1>3, <1>4, <1>5, <1>6 DEF AtBarrier
  <2>3. QED
    BY <2>1, <2>2, DatasetIsNoBarrier, Zenon
<1>7. ASSUME Constructing(r)
      PROVE  /\ r \in u.readers /\ c < Datasets(u) /\ p + 1 = Slot(u, r, c + 1)
             /\ Head(place[r].todo) = Dataset(u, c + 1)
  <2>1. p < L /\ p + 1 \in 1 .. L /\ s[p + 1] # Barrier
    BY <1>3, <1>4, <1>5, <1>7 DEF Constructing, AtBarrier
  <2>2. r \in u.readers /\ \E n \in 1 .. Datasets(u) : p + 1 = Slot(u, r, n)
    BY <1>1, <1>2, <2>1 DEF IsScript
  <2>3. PICK n \in 1 .. Datasets(u) : p + 1 = Slot(u, r, n)
    BY <2>2
  <2>4. s[p + 1] = Dataset(u, n)
    BY <1>1, <1>2, <2>2, <2>3 DEF IsScript
  <2>5. PICK N \in Nat, B \in {0, 1}, E \in {0, 1} :
          N = Datasets(u) /\ B = Behind(u, r) /\ E = Early(u, r)
    BY <1>1 DEF Stands
  <2>6. /\ p \in Nat /\ c \in Nat /\ n \in Nat /\ n <= N /\ n >= 1 /\ c <= N
        /\ p + 1 = B + 2 * n - E
        /\ \A m \in 1 .. N : B + 2 * m - E <= p <=> m <= c
    <3>1. \A m \in 1 .. N : B + 2 * m - E <= p <=> m <= c
      BY <1>1, <2>2, <2>5, Zenon DEF Stands
    <3>2. p + 1 = B + 2 * n - E
      BY <2>3, <2>5 DEF Slot
    <3>3. p \in Nat /\ c \in Nat /\ c <= N
      BY <1>1, <2>5 DEF Stands
    <3>4. QED
      BY <2>5, <3>1, <3>2, <3>3
  <2>7. ~(n <= c)
    BY <2>6
  <2>8. n - 1 <= c
    <3>1. CASE n = 1
      BY <2>6, <3>1
    <3>2. CASE n > 1
      <4>1. n - 1 \in 1 .. N /\ B + 2 * (n - 1) - E <= p
        BY <2>6, <3>2
      <4>2. QED
        BY <2>6, <4>1
    <3>3. QED
      BY <2>6, <3>1, <3>2
  <2>9. n = c + 1
    BY <2>6, <2>7, <2>8
  <2>10. QED
    BY <1>4, <2>1, <2>2, <2>3, <2>4, <2>5, <2>6, <2>9
<1>8. QED
  BY <1>2, <1>3, <1>4, <1>5, <1>6, <1>7 DEF DoesNext, AtBarrier

(* A rank that builds has built the n-th dataset when it is as many barriers *)
(* further; the barriers of a rank that is done, or not yet.                 *)
LEMMA BarriersBehind ==
  ASSUME NEW u, NEW r \in u.ranks, NEW p, NEW c, Stands(u, r, p, c), DoesNext(u, r, p, c)
  PROVE  /\ Done(r) => place[r].met = Datasets(u) + Extra(u)
         /\ AtBarrier(r) => place[r].met < Datasets(u) + Extra(u)
         /\ \A n \in 1 .. Datasets(u) :
              r \in u.readers /\ Early(u, r) = 1 /\ Reached(r) >= Behind(u, r) + n => n <= c
         /\ Constructing(r) => place[r].met = Behind(u, r) + c + 1 - Early(u, r)
<1>1. PICK N \in Nat \ {0}, B \in {0, 1}, E \in {0, 1}, X \in Nat, L \in Nat :
        /\ N = Datasets(u) /\ B = Behind(u, r) /\ E = Early(u, r) /\ X = Extra(u)
        /\ L = ScriptLength(u, r)
  BY DEF Stands
<1>2. /\ p \in Nat /\ c \in Nat /\ p <= L /\ c <= N /\ place[r].met = p - c
      /\ L = (IF r \in u.readers THEN 2 * N ELSE N) + X
      /\ (X = 0 /\ B = 0) \/ X > 1
      /\ \A n : Slot(u, r, n) = B + 2 * n - E
      /\ r \in u.readers => \A n \in 1 .. N : B + 2 * n - E <= p <=> n <= c
      /\ r \notin u.readers => c = 0
  <2>1. r \in u.readers => \A n \in 1 .. N : B + 2 * n - E <= p <=> n <= c
    BY <1>1, Zenon DEF Stands
  <2>2. \A n : Slot(u, r, n) = B + 2 * n - E
    BY <1>1 DEF Slot
  <2>3. QED
    BY <1>1, <2>1, <2>2 DEF Stands
<1>3. ASSUME Done(r) PROVE p - c = N + X
  <2>1. p = L
    BY <1>1, <1>3 DEF DoesNext
  <2>2. CASE r \in u.readers
    <3>1. N \in 1 .. N /\ B + 2 * N - E <= p
      BY <1>2, <2>1, <2>2
    <3>2. c = N
      BY <1>2, <2>2, <3>1
    <3>3. QED
      BY <1>2, <2>1, <2>2, <3>2
  <2>3. QED
    BY <1>2, <2>1, <2>2
<1>4. AtBarrier(r) => p < L /\ (r \in u.readers => \A n \in 1 .. N : p + 1 # B + 2 * n - E)
  BY <1>1, <1>2 DEF DoesNext
<1>5. ASSUME r \in u.readers, c < N PROVE p < B + 2 * (c + 1) - E
  <2>1. c + 1 \in 1 .. N /\ ~(c + 1 <= c)
    BY <1>2, <1>5
  <2>2. ~(B + 2 * (c + 1) - E <= p)
    BY <1>2, <1>5, <2>1
  <2>3. QED
    BY <1>2, <2>2
<1>6. ASSUME r \in u.readers, c < N, AtBarrier(r) PROVE p + 1 < B + 2 * (c + 1) - E
  <2>1. c + 1 \in 1 .. N
    BY <1>2, <1>6
  <2>2. p + 1 # B + 2 * (c + 1) - E
    BY <1>4, <1>6, <2>1
  <2>3. QED
    BY <1>2, <1>5, <1>6, <2>2
<1>7. ASSUME AtBarrier(r) PROVE p - c < N + X
  <2>1. CASE r \in u.readers /\ c = N
    BY <1>2, <1>4, <1>7, <2>1
  <2>2. CASE r \in u.readers /\ c < N
    BY <1>2, <1>6, <1>7, <2>2
  <2>3. CASE r \notin u.readers
    BY <1>2, <1>4, <1>7, <2>3
  <2>4. QED
    BY <1>2, <2>1, <2>2, <2>3
<1>8. ASSUME NEW n \in 1 .. N, r \in u.readers, E = 1, Reached(r) >= B + n
      PROVE  n <= c
  <2> SUFFICES ASSUME c < n PROVE FALSE
    BY <1>2
  <2>1. c < N
    BY <1>2
  <2>2. CASE AtBarrier(r)
    <3>1. Reached(r) = p - c + 1
      BY <1>2, <2>2 DEF Reached
    <3>2. p + 1 < B + 2 * (c + 1) - E
      BY <1>6, <1>8, <2>1, <2>2
    <3>3. QED
      BY <1>2, <1>8, <3>1, <3>2
  <2>3. CASE ~ AtBarrier(r)
    <3>1. Reached(r) = p - c
      BY <1>2, <2>3 DEF Reached
    <3>2. p < B + 2 * (c + 1) - E
      BY <1>5, <1>8, <2>1
    <3>3. QED
      BY <1>2, <1>8, <3>1, <3>2
  <2>4. QED
    BY <2>2, <2>3
<1>9. ASSUME Constructing(r) PROVE p - c = B + c + 1 - E
  <2>1. p + 1 = B + 2 * (c + 1) - E
    BY <1>2, <1>9 DEF DoesNext
  <2>2. QED
    BY <1>2, <2>1
<1>10. QED
  BY <1>1, <1>2, <1>3, <1>7, <1>8, <1>9

-----------------------------------------------------------------------------
(* A rank goes on to its next item.                                          *)

LEMMA RankShape ==
  ASSUME NEW u, NEW r \in u.ranks, BuildInv(u)
  PROVE  /\ DOMAIN place = u.ranks /\ place = [q \in u.ranks |-> place[q]]
         /\ place[r] = [todo |-> place[r].todo, met |-> place[r].met,
                        written |-> place[r].written, storage |-> Storage(u, r),
                        builds |-> NeedToBuild(u, r)]
         /\ place[r].written \in 0 .. 2 * NumFiles - 1
         /\ place[r].storage = Storage(u, r) /\ place[r].builds = NeedToBuild(u, r)
         /\ WritingOK(r)
         /\ \E p, c : PlaceIs(u, r, p, c) /\ BehindIsWhole(u, r, c)
<1>1. /\ RankOK(u, r) /\ DOMAIN place = u.ranks /\ place = [q \in u.ranks |-> place[q]]
  BY DEF BuildInv
<1>2. /\ place[r] = [todo |-> place[r].todo, met |-> place[r].met,
                     written |-> place[r].written, storage |-> Storage(u, r),
                     builds |-> NeedToBuild(u, r)]
      /\ place[r].written \in 0 .. 2 * NumFiles - 1 /\ WritingOK(r)
      /\ \E p, c : PlaceIs(u, r, p, c) /\ BehindIsWhole(u, r, c)
  BY <1>1 DEF RankOK
<1>3. place[r].storage = Storage(u, r) /\ place[r].builds = NeedToBuild(u, r)
  BY <1>2
<1>4. QED
  BY <1>1, <1>2, <1>3

(* What is true of place[r] after r has gone on. *)
GoesOn(u, r, p, c) ==
  /\ PlaceIs(u, r, p, c)
  /\ place[r] = [todo |-> place[r].todo, met |-> place[r].met,
                 written |-> place[r].written, storage |-> Storage(u, r),
                 builds |-> NeedToBuild(u, r)]
  /\ place[r].written = 0

Unmoved(u, r) ==
  /\ DOMAIN place' = u.ranks /\ place' = [q \in u.ranks |-> place'[q]]
  /\ \A q \in u.ranks : q # r => place'[q] = place[q]

Place(t, k, w, s, b) == [todo |-> t, met |-> k, written |-> w, storage |-> s, builds |-> b]

LEMMA AdvanceRank ==
  ASSUME NEW u, IsLaunch(u), NEW r \in u.ranks, BuildInv(u), Advance(r), ~ Done(r),
         NEW p, NEW c, PlaceIs(u, r, p, c)
  PROVE  /\ Unmoved(u, r)
         /\ AtBarrier(r) => GoesOn(u, r, p + 1, c)' /\ place'[r].met = place[r].met + 1
         /\ Constructing(r) => GoesOn(u, r, p + 1, c + 1)' /\ place'[r].met = place[r].met
<1>1. /\ DOMAIN place = u.ranks /\ place = [q \in u.ranks |-> place[q]]
      /\ place[r] = [todo |-> place[r].todo, met |-> place[r].met,
                     written |-> place[r].written, storage |-> Storage(u, r),
                     builds |-> NeedToBuild(u, r)]
  BY RankShape
<1>2. PICK m : m = IF AtBarrier(r) THEN place[r].met + 1 ELSE place[r].met
  OBVIOUS
<1>3. /\ place'[r] = [todo |-> Tail(place[r].todo), met |-> m, written |-> 0,
                      storage |-> Storage(u, r), builds |-> NeedToBuild(u, r)]
      /\ Unmoved(u, r)
  <2>1. PICK t, w, s, b, k :
          /\ place[r] = Place(t, k, w, s, b) /\ s = Storage(u, r) /\ b = NeedToBuild(u, r)
          /\ t = place[r].todo /\ k = place[r].met
    BY <1>1 DEF Place
  <2>2. place' = [place EXCEPT ![r].todo = Tail(t), ![r].written = 0, ![r].met = m]
    BY <1>1, <1>2, <2>1 DEF Advance
  <2>3. place'[r] = Place(Tail(t), m, 0, s, b)
    <3>1. PICK g : g = [place EXCEPT ![r].todo = Tail(t)]
      OBVIOUS
    <3>2. DOMAIN g = u.ranks /\ g[r] = Place(Tail(t), k, w, s, b)
      <4>1. DOMAIN g = u.ranks /\ g[r] = [place[r] EXCEPT !.todo = Tail(t)]
        BY <1>1, <3>1
      <4>2. PICK x, v : x = place[r] /\ v = Tail(t) /\ x = Place(t, k, w, s, b)
        BY <2>1
      <4>3. [Place(t, k, w, s, b) EXCEPT !.todo = v] = Place(v, k, w, s, b)
        BY DEF Place
      <4>4. QED
        BY <4>1, <4>2, <4>3
    <3>3. PICK h : h = [g EXCEPT ![r].written = 0]
      OBVIOUS
    <3>4. DOMAIN h = u.ranks /\ h[r] = Place(Tail(t), k, 0, s, b)
      <4>1. DOMAIN h = u.ranks /\ h[r] = [g[r] EXCEPT !.written = 0]
        BY <3>2, <3>3
      <4>2. PICK x, y, v : x = g[r] /\ y = Tail(t) /\ v = 0 /\ x = Place(y, k, w, s, b)
        BY <3>2
      <4>3. [Place(y, k, w, s, b) EXCEPT !.written = v] = Place(y, k, v, s, b)
        BY DEF Place
      <4>4. QED
        BY <4>1, <4>2, <4>3
    <3>5. place' = [h EXCEPT ![r].met = m]
      BY <2>2, <3>1, <3>3
    <3>6. place'[r] = [h[r] EXCEPT !.met = m]
      BY <3>4, <3>5
    <3>7. PICK x, y, o : x = h[r] /\ y = Tail(t) /\ o = 0 /\ x = Place(y, k, o, s, b)
      BY <3>4
    <3>8. [Place(y, k, o, s, b) EXCEPT !.met = m] = Place(y, m, o, s, b)
      BY DEF Place
    <3>9. QED
      BY <3>6, <3>7, <3>8
  <2>4. Unmoved(u, r)
    BY <1>1, <2>2 DEF Unmoved
  <2>5. QED
    BY <2>1, <2>3, <2>4 DEF Place
<1>4. Stands(u, r, p, c) /\ DoesNext(u, r, p, c)
  BY StandsFacts, NextItem
<1>5. PICK N \in Nat \ {0}, B \in {0, 1}, E \in {0, 1}, L \in Nat :
        /\ N = Datasets(u) /\ B = Behind(u, r) /\ E = Early(u, r) /\ L = ScriptLength(u, r)
  BY <1>4 DEF Stands
<1>6. /\ p \in Nat /\ c \in Nat /\ p < L /\ c <= N /\ place[r].met = p - c /\ p - c \in Nat
      /\ r \in u.readers => \A n \in 1 .. N : B + 2 * n - E <= p <=> n <= c
      /\ r \notin u.readers => c = 0
  <2>1. r \in u.readers => \A n \in 1 .. N : B + 2 * n - E <= p <=> n <= c
    BY <1>4, <1>5, Zenon DEF Stands
  <2>2. p # L
    BY <1>4, <1>5 DEF DoesNext
  <2>3. QED
    BY <1>4, <1>5, <2>1, <2>2 DEF Stands, PlaceIs
<1>7. \A n : Slot(u, r, n) = B + 2 * n - E
  BY <1>5 DEF Slot
<1>8. Tail(place[r].todo) = Rest(Script(u, r), p + 1, L)
  BY <1>4, <1>5 DEF DoesNext
<1>9. ASSUME AtBarrier(r)
      PROVE  GoesOn(u, r, p + 1, c)' /\ place'[r].met = place[r].met + 1
  <2>1. ASSUME r \in u.readers, NEW n \in 1 .. N PROVE B + 2 * n - E <= p + 1 <=> n <= c
    <3>1. p + 1 # B + 2 * n - E
      BY <1>4, <1>5, <1>7, <1>9, <2>1 DEF DoesNext
    <3>2. B + 2 * n - E <= p <=> n <= c
      BY <1>6, <2>1
    <3>3. QED
      BY <1>6, <3>1, <3>2
  <2>2. m = (p + 1) - c /\ m \in Nat
    BY <1>2, <1>6, <1>9
  <2>3. p + 1 \in 0 .. L /\ c \in 0 .. N
    BY <1>6
  <2>4. PlaceIs(u, r, p + 1, c)'
    BY <1>3, <1>5, <1>6, <1>7, <1>8, <2>1, <2>2, <2>3 DEF PlaceIs
  <2>5. QED
    BY <1>2, <1>3, <1>9, <2>4 DEF GoesOn
<1>10. ASSUME Constructing(r)
       PROVE  GoesOn(u, r, p + 1, c + 1)' /\ place'[r].met = place[r].met
  <2>1. r \in u.readers /\ c < N /\ p + 1 = B + 2 * (c + 1) - E
    BY <1>4, <1>5, <1>7, <1>10 DEF DoesNext
  <2>2. ASSUME NEW n \in 1 .. N PROVE B + 2 * n - E <= p + 1 <=> n <= c + 1
    BY <1>6, <2>1
  <2>3. m = (p + 1) - (c + 1) /\ m \in Nat /\ m = place[r].met
    BY <1>2, <1>6, <1>10 DEF Constructing
  <2>4. p + 1 \in 0 .. L /\ c + 1 \in 0 .. N
    BY <1>6, <2>1
  <2>5. PlaceIs(u, r, p + 1, c + 1)'
    BY <1>3, <1>5, <1>7, <1>8, <2>1, <2>2, <2>3, <2>4 DEF PlaceIs
  <2>6. QED
    BY <1>3, <2>3, <2>5 DEF GoesOn
<1>11. QED
  BY <1>3, <1>9, <1>10

(* No rank is behind a barrier that another has not reached. *)
LEMMA AdvanceReached ==
  ASSUME NEW u, NEW r \in u.ranks, BuildInv(u), Unmoved(u, r),
         \/ AtBarrier(r) /\ BarrierOpen(r) /\ place'[r].met = place[r].met + 1
         \/ ~ AtBarrier(r) /\ place'[r].met = place[r].met
  PROVE  \A q, s \in u.ranks : place'[q].met <= Reached(s)'
<1> SUFFICES ASSUME NEW q \in u.ranks, NEW s \in u.ranks
             PROVE  place'[q].met <= Reached(s)'
  OBVIOUS
<1>1. DOMAIN place = u.ranks /\ place[q].met <= Reached(s) /\ place[q].met \in Nat
      /\ place[s].met \in Nat /\ place[r].met \in Nat
  BY RankShape DEF BuildInv, PlaceIs
<1>2. s # r => Reached(s)' = Reached(s)
  BY DEF Unmoved, Reached, AtBarrier, Done
<1>4. q # r => place'[q].met = place[q].met
  BY DEF Unmoved
<1>5. CASE s = r
  <2>1. Reached(r)' >= place'[r].met
    BY <1>1 DEF Reached
  <2>2. place'[r].met >= Reached(r)
    BY <1>1 DEF Reached
  <2>3. place'[r].met \in Nat /\ Reached(r) \in Nat /\ Reached(r)' \in Nat
    BY <1>1 DEF Reached
  <2>4. QED
    BY <1>1, <1>4, <1>5, <2>1, <2>2, <2>3
<1>6. CASE s # r
  <2>1. Reached(s) \in Nat
    BY <1>1 DEF Reached
  <2>2. CASE q = r
    <3>1. CASE AtBarrier(r)
      <4>1. Reached(s) > place[r].met
        BY <1>1, <3>1 DEF BarrierOpen
      <4>2. QED
        BY <1>1, <1>2, <1>6, <2>1, <2>2, <3>1, <4>1
    <3>2. CASE ~ AtBarrier(r)
      BY <1>1, <1>2, <1>6, <2>2, <3>2
    <3>3. QED
      BY <3>1, <3>2
  <2>3. CASE q # r
    BY <1>1, <1>2, <1>4, <1>6, <2>3
  <2>4. QED
    BY <2>2, <2>3
<1>7. QED
  BY <1>5, <1>6

-----------------------------------------------------------------------------
(* The files of a dataset.                                                   *)

FileStates == {"absent", "truncated", "whole"}

Writes(w) == IF w % 2 = 0 THEN "truncated" ELSE "whole"

LEMMA WritesOne ==
  ASSUME NEW x \in [1 .. NumFiles -> FileStates], LastFileLast(x), NEW w \in 0 .. 2 * NumFiles - 1,
         w > 0 => Written(x, w), w = 0 => \E f \in 1 .. NumFiles : x[f] = "absent",
         NEW y, y = [x EXCEPT ![w \div 2 + 1] = Writes(w)]
  PROVE  /\ y \in [1 .. NumFiles -> FileStates] /\ LastFileLast(y) /\ ~ IsWhole(x)
         /\ w < 2 * NumFiles - 1 => Written(y, w + 1)
         /\ w = 2 * NumFiles - 1 => IsWhole(y)
<1> USE DEF NumFiles, FileStates
<1>1. PICK f \in 1 .. 4, b \in {0, 1} : w = 2 * (f - 1) + b
  <2>1. w \div 2 + 1 \in 1 .. 4 /\ w % 2 \in {0, 1} /\ w = 2 * ((w \div 2 + 1) - 1) + (w % 2)
    OBVIOUS
  <2>2. QED
    BY <2>1
<1>2. w \div 2 = f - 1 /\ w % 2 = b /\ w \div 2 + 1 = f
  BY <1>1
<1>3. y = [x EXCEPT ![f] = IF b = 0 THEN "truncated" ELSE "whole"]
  <2>1. Writes(w) = IF b = 0 THEN "truncated" ELSE "whole"
    BY <1>2 DEF Writes
  <2>2. QED
    BY <1>2, <2>1
<1>4. /\ y \in [1 .. 4 -> FileStates] /\ y[f] = (IF b = 0 THEN "truncated" ELSE "whole")
      /\ \A g \in 1 .. 4 : g # f => y[g] = x[g]
  BY <1>3
<1>5. \A g \in 1 .. 4 : g < f => x[g] = "whole"
  <2>1. CASE w = 0
    BY <1>1, <2>1
  <2>2. CASE w > 0
    <3>1. Written(x, w)
      BY <2>2
    <3>2. \A g \in 1 .. 4 : g <= f - 1 => x[g] = "whole"
      BY <1>2, <3>1 DEF Written
    <3>3. QED
      BY <3>2
  <2>3. QED
    BY <2>1, <2>2
<1>6. w < 7 => x[4] = "absent"
  <2>1. CASE w = 0
    <3>1. PICK g \in 1 .. 4 : x[g] = "absent"
      BY <2>1
    <3>2. g = 4 \/ g \in 1 .. 3
      OBVIOUS
    <3>3. QED
      BY <3>1, <3>2 DEF LastFileLast
  <2>2. CASE w > 0
    <3>1. Written(x, w) /\ 4 \in 1 .. 4
      BY <2>2
    <3>2. w <= 6 => x[4] = "absent"
      BY <3>1 DEF Written
    <3>3. QED
      BY <3>2
  <2>3. QED
    BY <2>1, <2>2
<1>7. w = 7 => x[4] = "truncated" /\ f = 4 /\ b = 1
  <2>1. ASSUME w = 7 PROVE x[4] = "truncated" /\ f = 4 /\ b = 1
    <3>1. Written(x, w) /\ w \div 2 = 3 /\ w % 2 = 1 /\ 4 \in 1 .. 4 /\ 4 = 3 + 1
      BY <2>1
    <3>2. x[4] = "truncated"
      BY <3>1 DEF Written
    <3>3. QED
      BY <1>1, <2>1, <3>2
  <2>2. QED
    BY <2>1
<1>8. w = 7 \/ w < 7
  OBVIOUS
<1>9. ~ IsWhole(x)
  <2>1. x[4] # "whole" /\ 4 \in 1 .. 4
    BY <1>6, <1>7, <1>8
  <2>2. QED
    BY <2>1 DEF IsWhole
<1>10. LastFileLast(y)
  <2>1. CASE f = 4
    BY <1>4, <1>5, <2>1 DEF LastFileLast
  <2>2. CASE f # 4
    <3>1. y[4] = "absent"
      BY <1>1, <1>4, <1>6, <2>2
    <3>2. QED
      BY <3>1 DEF LastFileLast
  <2>3. QED
    BY <2>1, <2>2
<1>11. ASSUME w < 7 PROVE Written(y, w + 1)
  <2>1. CASE b = 0
    <3>1. (w + 1) \div 2 = f - 1 /\ (w + 1) % 2 = 1
      BY <1>1, <2>1
    <3>2. \A g \in 1 .. 4 : g <= f - 1 => y[g] = "whole"
      BY <1>4, <1>5
    <3>3. f - 1 + 1 = f /\ y[f] = "truncated"
      BY <1>4, <2>1
    <3>4. w + 1 <= 6 => y[4] = "absent"
      <4>1. w + 1 <= 6 => f # 4
        BY <1>1
      <4>2. QED
        BY <1>4, <1>6, <1>11, <4>1
    <3>5. QED
      BY <3>1, <3>2, <3>3, <3>4 DEF Written
  <2>2. CASE b = 1
    <3>1. (w + 1) \div 2 = f /\ (w + 1) % 2 = 0
      BY <1>1, <2>2
    <3>2. \A g \in 1 .. 4 : g <= f => y[g] = "whole"
      BY <1>4, <1>5, <2>2
    <3>3. y[4] = "absent"
      <4>1. f # 4
        BY <1>1, <1>11, <2>2
      <4>2. QED
        BY <1>4, <1>6, <1>11, <4>1
    <3>4. QED
      BY <3>1, <3>2, <3>3 DEF Written
  <2>3. QED
    BY <2>1, <2>2
<1>12. ASSUME w = 7 PROVE IsWhole(y)
  BY <1>4, <1>5, <1>7, <1>12 DEF IsWhole
<1>13. QED
  BY <1>4, <1>9, <1>10, <1>11, <1>12

(* The datasets of a launch are those of the job, each of them. *)
LEMMA DatasetInGrid ==
  ASSUME NEW u, IsLaunch(u), NEW n \in 1 .. Datasets(u)
  PROVE  Dataset(u, n) \in Grid(u)
<1>1. PICK p \in Nat \ {0}, s \in Nat \ {0} : p = u.prefixes /\ s = u.splits
  BY DEF IsLaunch
<1>2. n \in Nat /\ n >= 1 /\ n <= p * s
  <2>1. p * s \in Nat
    OBVIOUS
  <2>2. QED
    BY <1>1, <2>1 DEF Datasets
<1>3. PICK x \in Nat : x = n - 1
  BY <1>2
<1>4. PICK a \in Nat, b \in 0 .. s - 1 : a = x \div s /\ b = x % s /\ x = s * a + b
  BY DivNat
<1>5. a < p
  <2>1. ASSUME a >= p PROVE FALSE
    <3>1. s * (a - p) >= 0 /\ s * (a - p) = s * a - p * s /\ s * a \in Nat /\ p * s \in Nat
      BY <2>1
    <3>2. QED
      BY <1>2, <1>3, <1>4, <3>1
  <2>2. QED
    BY <2>1
<1>6. a + 1 \in 1 .. p /\ b + 1 \in 1 .. s
  BY <1>4, <1>5
<1>7. Dataset(u, n) = <<a + 1, b + 1>>
  BY <1>1, <1>3, <1>4 DEF Dataset
<1>8. QED
  BY <1>1, <1>6, <1>7 DEF Grid

LEMMA EveryDataset ==
  ASSUME NEW u, IsLaunch(u), NEW d \in Grid(u)
  PROVE  \E n \in 1 .. Datasets(u) : d = Dataset(u, n)
<1>1. PICK p \in Nat \ {0}, s \in Nat \ {0} : p = u.prefixes /\ s = u.splits
  BY DEF IsLaunch
<1>2. PICK a \in 1 .. p, b \in 1 .. s : d = <<a, b>>
  BY <1>1 DEF Grid
<1>3. PICK x \in Nat : x = s * (a - 1) + (b - 1)
  OBVIOUS
<1>4. Digits(x, s, a - 1, b - 1)
  BY <1>3 DEF Digits
<1>5. x \div s = a - 1 /\ x % s = b - 1
  BY <1>4, DivUnique, Zenon
<1>6. x + 1 <= p * s /\ p * s \in Nat
  <2>1. s * (p - a) >= 0 /\ s * (p - a) = p * s - s * a /\ s * (a - 1) = s * a - s
    OBVIOUS
  <2>2. p * s \in Nat /\ s * a \in Nat
    OBVIOUS
  <2>3. QED
    BY <1>3, <2>1, <2>2
<1>7. PICK n \in 1 .. Datasets(u) : n = x + 1
  BY <1>1, <1>6 DEF Datasets
<1>8. n - 1 = x
  BY <1>7
<1>9. Dataset(u, n) = <<a, b>>
  BY <1>1, <1>5, <1>8 DEF Dataset
<1>10. QED
  BY <1>2, <1>9

-----------------------------------------------------------------------------
(* Steps of the ranks that build.                                            *)

Sound(u) ==
  /\ IsLaunch(u) /\ BuildersOK(u) /\ Grid(job) = Grid(u) /\ BuildInv(u) /\ FilesOK

(* What is whole stays whole. *)
KeepsWhole(u) ==
  \A r \in u.ranks, n \in 1 .. Datasets(u) :
     IsWhole(files[Storage(u, r)][Dataset(u, n)]) =>
        IsWhole(files'[Storage(u, r)][Dataset(u, n)])

LEMMA KeepsBehind ==
  ASSUME NEW u, NEW r \in u.ranks, NEW c, NEW p, PlaceIs(u, r, p, c), BehindIsWhole(u, r, c),
         KeepsWhole(u), IsLaunch(u)
  PROVE  BehindIsWhole(u, r, c)'
<1>1. ASSUME r \in u.readers, NEW n \in 1 .. c
      PROVE  IsWhole(files'[Storage(u, r)][Dataset(u, n)])
  <2>1. PICK N \in Nat \ {0} : N = Datasets(u)
    BY DatasetsFacts
  <2>2. c \in 0 .. N
    BY <2>1 DEF PlaceIs
  <2>3. n \in 1 .. Datasets(u)
    BY <2>1, <2>2
  <2>4. IsWhole(files[Storage(u, r)][Dataset(u, n)])
    BY <1>1 DEF BehindIsWhole
  <2>5. QED
    BY <2>3, <2>4 DEF KeepsWhole
<1>2. BehindIsWhole(u, r, c)' <=>
        (r \in u.readers => \A n \in 1 .. c : IsWhole(files'[Storage(u, r)][Dataset(u, n)]))
  BY DEF BehindIsWhole, IsWhole
<1>3. QED
  BY <1>1, <1>2

LEMMA OtherRank ==
  ASSUME NEW u, NEW q \in u.ranks, RankOK(u, q), IsLaunch(u), place'[q] = place[q], KeepsWhole(u),
         place[q].written > 0 => FilesOf(q)' = FilesOf(q)
  PROVE  RankOK(u, q)'
<1>1. PICK p \in 0 .. ScriptLength(u, q), c \in 0 .. Datasets(u) :
        PlaceIs(u, q, p, c) /\ BehindIsWhole(u, q, c)
  BY DEF RankOK
<1>2. PlaceIs(u, q, p, c)'
  BY <1>1 DEF PlaceIs
<1>3. BehindIsWhole(u, q, c)'
  BY <1>1, KeepsBehind
<1>4. WritingOK(q)'
  <2>1. place'[q].written > 0 =>
          place'[q].builds /\ Constructing(q)' /\ Written(FilesOf(q)', place'[q].written)
    BY DEF RankOK, WritingOK, Constructing, AtBarrier, Done
  <2>2. QED
    BY <2>1 DEF WritingOK, Written
<1>5. \E a \in 0 .. ScriptLength(u, q), b \in 0 .. Datasets(u) :
        PlaceIs(u, q, a, b)' /\ BehindIsWhole(u, q, b)'
  BY <1>1, <1>2, <1>3
<1>6. /\ place'[q] = [todo |-> place'[q].todo, met |-> place'[q].met,
                      written |-> place'[q].written, storage |-> Storage(u, q),
                      builds |-> NeedToBuild(u, q)]
      /\ place'[q].written \in 0 .. 2 * NumFiles - 1
  BY DEF RankOK
<1>7. QED
  BY <1>4, <1>5, <1>6 DEF RankOK

LEMMA OneRankMoves ==
  ASSUME NEW u, Sound(u), NEW r \in u.ranks, Unmoved(u, r), KeepsWhole(u), RankOK(u, r)',
         \A q \in u.ranks : q # r /\ place[q].written > 0 => FilesOf(q)' = FilesOf(q),
         \A q, s \in u.ranks : place'[q].met <= Reached(s)'
  PROVE  BuildInv(u)'
<1>1. ASSUME NEW q \in u.ranks PROVE RankOK(u, q)'
  <2>1. CASE q = r
    BY <2>1
  <2>2. CASE q # r
    <3>1. RankOK(u, q) /\ IsLaunch(u)
      BY DEF Sound, BuildInv
    <3>2. place'[q] = place[q]
      BY <2>2 DEF Unmoved
    <3>3. place[q].written > 0 => FilesOf(q)' = FilesOf(q)
      BY <2>2
    <3>4. QED
      BY <3>1, <3>2, <3>3, OtherRank
  <2>3. QED
    BY <2>1, <2>2
<1>2. QED
  BY <1>1 DEF Unmoved, BuildInv

(* A rank that goes on, what it leaves behind being whole. *)
LEMMA WentOn ==
  ASSUME NEW u, NEW r \in u.ranks, NEW p \in Nat, NEW c \in Nat, GoesOn(u, r, p, c)',
         BehindIsWhole(u, r, c)'
  PROVE  RankOK(u, r)'
<1>1. /\ PlaceIs(u, r, p, c)' /\ place'[r].written = 0
      /\ place'[r] = [todo |-> place'[r].todo, met |-> place'[r].met,
                      written |-> place'[r].written, storage |-> Storage(u, r),
                      builds |-> NeedToBuild(u, r)]
  BY DEF GoesOn
<1>2. p \in 0 .. ScriptLength(u, r) /\ c \in 0 .. Datasets(u)
  BY <1>1 DEF PlaceIs
<1>3. WritingOK(r)'
  BY <1>1 DEF WritingOK
<1>4. 0 \in 0 .. 2 * NumFiles - 1
  BY DEF NumFiles
<1>5. QED
  BY <1>1, <1>2, <1>3, <1>4 DEF RankOK

LEMMA MeetBarrierKeeps ==
  ASSUME NEW u, Sound(u), NEW r \in u.ranks, MeetBarrier(r)
  PROVE  BuildInv(u)'
<1>1. AtBarrier(r) /\ BarrierOpen(r) /\ Advance(r) /\ files' = files /\ ~ Done(r)
  BY DEF MeetBarrier, BarrierOpen, AtBarrier
<1>2. IsLaunch(u) /\ BuildInv(u)
  BY DEF Sound
<1>3. PICK p, c : PlaceIs(u, r, p, c) /\ BehindIsWhole(u, r, c)
  BY <1>2, RankShape
<1>4. Unmoved(u, r) /\ GoesOn(u, r, p + 1, c)' /\ place'[r].met = place[r].met + 1
  BY <1>1, <1>2, <1>3, AdvanceRank
<1>5. KeepsWhole(u)
  BY <1>1 DEF KeepsWhole
<1>6. BehindIsWhole(u, r, c)'
  BY <1>2, <1>3, <1>5, KeepsBehind
<1>7. p + 1 \in Nat /\ c \in Nat
  BY <1>2, <1>3, StandsFacts DEF Stands
<1>8. RankOK(u, r)'
  BY <1>4, <1>6, <1>7, WentOn
<1>9. \A q \in u.ranks : q # r /\ place[q].written > 0 => FilesOf(q)' = FilesOf(q)
  BY <1>1, <1>4 DEF FilesOf, Unmoved
<1>10. \A q, s \in u.ranks : place'[q].met <= Reached(s)'
  BY <1>1, <1>2, <1>4, AdvanceReached
<1>11. QED
  BY <1>4, <1>5, <1>8, <1>9, <1>10, OneRankMoves

(* The files of the dataset that a rank constructs. *)
LEMMA FilesFacts ==
  ASSUME NEW u, Sound(u), NEW r \in u.ranks, NEW n \in 1 .. Datasets(u)
  PROVE  /\ Storage(u, r) \in 0 .. Nodes - 1 /\ Dataset(u, n) \in Grid(job)
         /\ files[Storage(u, r)][Dataset(u, n)] \in [1 .. NumFiles -> FileStates]
         /\ LastFileLast(files[Storage(u, r)][Dataset(u, n)])
<1>1. Storage(u, r) \in 0 .. Nodes - 1 /\ Dataset(u, n) \in Grid(job)
  BY DatasetInGrid DEF Sound, BuildersOK
<1>2. PICK s \in 0 .. Nodes - 1, d \in Grid(job) : s = Storage(u, r) /\ d = Dataset(u, n)
  BY <1>1
<1>3. files \in [0 .. Nodes - 1 -> [Grid(job) -> [1 .. NumFiles -> FileStates]]]
  BY DEF Sound, FilesOK, FileStates
<1>4. files[s][d] \in [1 .. NumFiles -> FileStates]
  BY <1>3
<1>5. LastFileLast(files[s][d])
  BY DEF Sound, FilesOK
<1>6. QED
  BY <1>2, <1>4, <1>5

(* The rank that constructs its dataset n. *)
At(u, r, p, c) ==
  /\ PlaceIs(u, r, p, c) /\ BehindIsWhole(u, r, c) /\ p \in Nat /\ c \in Nat
  /\ c + 1 \in 1 .. Datasets(u) /\ r \in u.readers
  /\ Head(place[r].todo) = Dataset(u, c + 1)
  /\ FilesOf(r) = files[Storage(u, r)][Dataset(u, c + 1)]

LEMMA ConstructingAt ==
  ASSUME NEW u, Sound(u), NEW r \in u.ranks, Constructing(r)
  PROVE  \E p, c : At(u, r, p, c)
<1>1. IsLaunch(u) /\ BuildInv(u)
  BY DEF Sound
<1>2. PICK p, c : PlaceIs(u, r, p, c) /\ BehindIsWhole(u, r, c)
  BY <1>1, RankShape
<1>3. Stands(u, r, p, c) /\ DoesNext(u, r, p, c)
  BY <1>1, <1>2, StandsFacts, NextItem
<1>4. PICK N \in Nat : N = Datasets(u)
  BY <1>3 DEF Stands
<1>5. p \in Nat /\ c \in Nat /\ r \in u.readers /\ c < N /\ Head(place[r].todo) = Dataset(u, c + 1)
  BY <1>3, <1>4 DEF Stands, DoesNext
<1>6. c + 1 \in 1 .. Datasets(u)
  BY <1>4, <1>5
<1>7. place[r].storage = Storage(u, r)
  BY <1>1, RankShape
<1>8. QED
  BY <1>2, <1>5, <1>6, <1>7 DEF At, FilesOf

LEMMA LoadKeeps ==
  ASSUME NEW u, Sound(u), NEW r \in u.ranks, Load(r)
  PROVE  BuildInv(u)'
<1>1. /\ Constructing(r) /\ Indices(r) = {"whole"} /\ Advance(r) /\ files' = files
      /\ ~ Done(r) /\ ~ AtBarrier(r)
  BY DEF Load, Loading, Constructing
<1>2. IsLaunch(u) /\ BuildInv(u)
  BY DEF Sound
<1>3. PICK p, c : At(u, r, p, c)
  BY <1>1, ConstructingAt
<1>4. /\ PlaceIs(u, r, p, c) /\ BehindIsWhole(u, r, c) /\ p + 1 \in Nat /\ c + 1 \in Nat /\ c \in Nat
      /\ c + 1 \in 1 .. Datasets(u)
  BY <1>3 DEF At
<1>5. /\ Unmoved(u, r) /\ GoesOn(u, r, p + 1, c + 1)' /\ place'[r].met = place[r].met
  BY <1>1, <1>2, <1>4, AdvanceRank
<1>6. KeepsWhole(u)
  BY <1>1 DEF KeepsWhole
<1>7. IsWhole(files[Storage(u, r)][Dataset(u, c + 1)])
  <2>1. PICK x : x = files[Storage(u, r)][Dataset(u, c + 1)]
    OBVIOUS
  <2>2. x \in [1 .. 4 -> FileStates] /\ LastFileLast(x)
    BY <1>4, <2>1, FilesFacts DEF NumFiles
  <2>3. \A f \in 2 .. 4 : x[f] = "whole"
    BY <1>1, <1>3, <2>1 DEF Indices, At, NumFiles
  <2>4. x[1] = "whole"
    BY <2>2, <2>3 DEF LastFileLast, NumFiles
  <2>5. QED
    BY <2>1, <2>3, <2>4 DEF IsWhole, NumFiles
<1>8. BehindIsWhole(u, r, c + 1)'
  <2>1. BehindIsWhole(u, r, c)'
    BY <1>2, <1>4, <1>6, KeepsBehind
  <2>2. \A n \in 1 .. c + 1 : n \in 1 .. c \/ n = c + 1
    BY <1>4
  <2>3. QED
    BY <1>1, <1>7, <2>1, <2>2 DEF BehindIsWhole, IsWhole
<1>9. RankOK(u, r)'
  BY <1>4, <1>5, <1>8, WentOn
<1>10. \A q \in u.ranks : q # r /\ place[q].written > 0 => FilesOf(q)' = FilesOf(q)
  BY <1>1, <1>5 DEF FilesOf, Unmoved
<1>11. \A q, s \in u.ranks : place'[q].met <= Reached(s)'
  BY <1>1, <1>2, <1>5, AdvanceReached
<1>12. QED
  BY <1>5, <1>6, <1>9, <1>10, <1>11, OneRankMoves

(* A write: one file of one dataset, and how far the rank is then. *)
WritesFile(r, s, d, w, y) ==
  /\ y = [files[s][d] EXCEPT ![w \div 2 + 1] = Writes(w)]
  /\ DOMAIN files' = DOMAIN files
  /\ DOMAIN files'[s] = DOMAIN files[s] /\ files'[s][d] = y
  /\ \A e \in DOMAIN files[s] : e # d => files'[s][e] = files[s][e]
  /\ \A t \in DOMAIN files : t # s => files'[t] = files[t]
  /\ files' = [t \in DOMAIN files |-> files'[t]]
  /\ files'[s] = [e \in DOMAIN files[s] |-> files'[s][e]]
  /\ IF w = 2 * NumFiles - 1 THEN Advance(r)
     ELSE place' = [place EXCEPT ![r].written = w + 1]

LEMMA WriteFacts ==
  ASSUME NEW r, WriteFile(r), NEW s \in DOMAIN files, NEW d \in DOMAIN files[s],
         NEW w \in 0 .. 2 * NumFiles - 1, w = place[r].written,
         s = place[r].storage, d = Head(place[r].todo)
  PROVE  \E y : WritesFile(r, s, d, w, y)
<1>1. PICK f : f = w \div 2 + 1
  OBVIOUS
<1>2. files' = [files EXCEPT ![s][d][f] = Writes(w)]
  BY <1>1 DEF WriteFile, Writes
<1>3. PICK y : y = [files[s][d] EXCEPT ![f] = Writes(w)]
  OBVIOUS
<1>4. PICK z : z = [files[s] EXCEPT ![d] = y]
  OBVIOUS
<1>5. files' = [files EXCEPT ![s] = z]
  BY <1>2, <1>3, <1>4
<1>6. /\ DOMAIN files' = DOMAIN files /\ files'[s] = z
      /\ \A t \in DOMAIN files : t # s => files'[t] = files[t]
      /\ files' = [t \in DOMAIN files |-> files'[t]]
  BY <1>5
<1>7. /\ DOMAIN z = DOMAIN files[s] /\ z[d] = y
      /\ \A e \in DOMAIN files[s] : e # d => z[e] = files[s][e]
      /\ z = [e \in DOMAIN files[s] |-> z[e]]
  BY <1>4
<1>8. IF w = 2 * NumFiles - 1 THEN Advance(r)
      ELSE place' = [place EXCEPT ![r].written = w + 1]
  <2>1. w = 7 <=> w \div 2 + 1 = 4 /\ ~(w % 2 = 0)
    BY DEF NumFiles
  <2>2. QED
    BY <2>1 DEF WriteFile, NumFiles
<1>9. WritesFile(r, s, d, w, y)
  BY <1>1, <1>3, <1>6, <1>7, <1>8 DEF WritesFile
<1>10. QED
  BY <1>9

LEMMA WriteFileKeeps ==
  ASSUME NEW u, Sound(u), NEW r \in u.ranks, WriteFile(r), job' = job
  PROVE  BuildInv(u)' /\ FilesOK'
<1>1. /\ Constructing(r) /\ place[r].builds /\ ~ Done(r) /\ ~ AtBarrier(r)
      /\ place[r].written > 0 \/ ~ CacheHit(r)
  BY DEF WriteFile, Building, Constructing
<1>2. IsLaunch(u) /\ BuildInv(u) /\ BuildersOK(u)
  BY DEF Sound
<1>3. PICK p, c : At(u, r, p, c)
  BY <1>1, ConstructingAt
<1>4. /\ PlaceIs(u, r, p, c) /\ BehindIsWhole(u, r, c) /\ p + 1 \in Nat /\ c + 1 \in Nat
      /\ p \in Nat /\ c \in Nat /\ c + 1 \in 1 .. Datasets(u)
  BY <1>3 DEF At
<1>5. PICK s \in 0 .. Nodes - 1, d \in Grid(job), x \in [1 .. NumFiles -> FileStates],
           w \in 0 .. 2 * NumFiles - 1 :
        /\ s = Storage(u, r) /\ d = Dataset(u, c + 1) /\ x = files[s][d] /\ w = place[r].written
        /\ LastFileLast(x)
  BY <1>2, <1>4, FilesFacts, RankShape
<1>6. /\ s = place[r].storage /\ d = Head(place[r].todo) /\ x = FilesOf(r)
      /\ w \in 0 .. 2 * NumFiles - 1 /\ WritingOK(r) /\ NeedToBuild(u, r)
      /\ DOMAIN place = u.ranks /\ place = [q \in u.ranks |-> place[q]]
      /\ place[r] = [todo |-> place[r].todo, met |-> place[r].met, written |-> w,
                     storage |-> Storage(u, r), builds |-> NeedToBuild(u, r)]
  BY <1>1, <1>2, <1>3, <1>5, RankShape DEF At
<1>7. files \in [0 .. Nodes - 1 -> [Grid(job) -> [1 .. NumFiles -> FileStates]]]
      /\ \A t \in 0 .. Nodes - 1 : \A e \in Grid(job) : LastFileLast(files[t][e])
  BY DEF Sound, FilesOK, FileStates
<1>8. s \in DOMAIN files /\ DOMAIN files = 0 .. Nodes - 1 /\ DOMAIN files[s] = Grid(job)
  BY <1>7
<1>9. PICK y : WritesFile(r, s, d, w, y)
  BY <1>6, <1>8, WriteFacts
<1>10. /\ w > 0 => Written(x, w)
       /\ w = 0 => \E f \in 1 .. NumFiles : x[f] = "absent"
  BY <1>1, <1>6 DEF WritingOK, CacheHit
<1>11. /\ y \in [1 .. NumFiles -> FileStates] /\ LastFileLast(y) /\ ~ IsWhole(x)
       /\ w < 2 * NumFiles - 1 => Written(y, w + 1)
       /\ w = 2 * NumFiles - 1 => IsWhole(y)
  <2>1. y = [x EXCEPT ![w \div 2 + 1] = Writes(w)]
    BY <1>5, <1>9 DEF WritesFile
  <2>2. QED
    BY <1>5, <1>6, <1>10, <2>1, WritesOne
<1>12. /\ files'[s][d] = y /\ DOMAIN files' = 0 .. Nodes - 1 /\ DOMAIN files'[s] = Grid(job)
       /\ \A e \in Grid(job) : e # d => files'[s][e] = files[s][e]
       /\ \A t \in 0 .. Nodes - 1 : t # s => files'[t] = files[t]
       /\ files' = [t \in 0 .. Nodes - 1 |-> files'[t]]
       /\ files'[s] = [e \in Grid(job) |-> files'[s][e]]
  BY <1>8, <1>9 DEF WritesFile
<1>13. FilesOK'
  <2>1. \A e \in Grid(job) : files'[s][e] \in [1 .. NumFiles -> FileStates] /\ LastFileLast(files'[s][e])
    <3> TAKE e \in Grid(job)
    <3>1. CASE e = d
      BY <1>11, <1>12, <3>1
    <3>2. CASE e # d
      BY <1>7, <1>12, <3>2
    <3>3. QED
      BY <3>1, <3>2
  <2>2. files'[s] \in [Grid(job) -> [1 .. NumFiles -> FileStates]]
    BY <1>12, <2>1
  <2>3. \A t \in 0 .. Nodes - 1 : files'[t] \in [Grid(job) -> [1 .. NumFiles -> FileStates]]
    BY <1>7, <1>12, <2>2
  <2>4. files' \in [0 .. Nodes - 1 -> [Grid(job) -> [1 .. NumFiles -> FileStates]]]
    BY <1>12, <2>3
  <2>5. \A t \in 0 .. Nodes - 1 : \A e \in Grid(job) : LastFileLast(files'[t][e])
    BY <1>7, <1>12, <2>1
  <2>6. Grid(job)' = Grid(job)
    BY DEF Grid
  <2>7. QED
    BY <2>4, <2>5, <2>6 DEF FilesOK, FileStates, LastFileLast
<1>14. KeepsWhole(u)
  <2> SUFFICES ASSUME NEW q \in u.ranks, NEW n \in 1 .. Datasets(u),
                      IsWhole(files[Storage(u, q)][Dataset(u, n)])
               PROVE  IsWhole(files'[Storage(u, q)][Dataset(u, n)])
    BY DEF KeepsWhole
  <2>1. PICK t \in 0 .. Nodes - 1, e \in Grid(job) : t = Storage(u, q) /\ e = Dataset(u, n)
    BY FilesFacts
  <2>2. ~(t = s /\ e = d)
    BY <1>5, <1>11, <2>1
  <2>3. files'[t][e] = files[t][e]
    BY <1>12, <2>1, <2>2
  <2>4. QED
    BY <2>1, <2>3
<1>15. ASSUME NEW q \in u.ranks, q # r, place[q].written > 0, place'[q] = place[q]
       PROVE  FilesOf(q)' = FilesOf(q)
  <2>1. place[q].builds = NeedToBuild(u, q) /\ place[q].storage = Storage(u, q) /\ WritingOK(q)
    BY <1>2, RankShape
  <2>2. NeedToBuild(u, q)
    BY <1>15, <2>1 DEF WritingOK
  <2>3. Storage(u, q) # Storage(u, r) /\ Storage(u, q) \in 0 .. Nodes - 1
    BY <1>2, <1>6, <1>15, <2>2 DEF BuildersOK
  <2>4. files'[place[q].storage] = files[place[q].storage]
    BY <1>5, <1>12, <2>1, <2>3
  <2>5. QED
    BY <1>15, <2>4 DEF FilesOf
<1>16. CASE w = 2 * NumFiles - 1
  <2>1. Advance(r) /\ IsWhole(y)
    BY <1>9, <1>11, <1>16 DEF WritesFile
  <2>2. Unmoved(u, r) /\ GoesOn(u, r, p + 1, c + 1)' /\ place'[r].met = place[r].met
    BY <1>1, <1>2, <1>4, <2>1, AdvanceRank
  <2>3. BehindIsWhole(u, r, c + 1)'
    <3>1. BehindIsWhole(u, r, c)'
      BY <1>2, <1>4, <1>14, KeepsBehind
    <3>2. \A n \in 1 .. c + 1 : n \in 1 .. c \/ n = c + 1
      BY <1>4
    <3>3. IsWhole(files'[Storage(u, r)][Dataset(u, c + 1)])
      BY <1>5, <1>12, <2>1
    <3>4. QED
      BY <3>1, <3>2, <3>3 DEF BehindIsWhole, IsWhole
  <2>4. RankOK(u, r)'
    BY <1>4, <2>2, <2>3, WentOn
  <2>5. \A q \in u.ranks : q # r /\ place[q].written > 0 => FilesOf(q)' = FilesOf(q)
    BY <1>15, <2>2 DEF Unmoved
  <2>6. \A q, t \in u.ranks : place'[q].met <= Reached(t)'
    BY <1>1, <1>2, <2>2, AdvanceReached
  <2>7. QED
    BY <1>13, <1>14, <2>2, <2>4, <2>5, <2>6, OneRankMoves
<1>17. CASE w # 2 * NumFiles - 1
  <2>1. place' = [place EXCEPT ![r].written = w + 1] /\ w < 2 * NumFiles - 1 /\ Written(y, w + 1)
    <3>1. w < 2 * NumFiles - 1
      BY <1>6, <1>17 DEF NumFiles
    <3>2. QED
      BY <1>9, <1>11, <1>17, <3>1 DEF WritesFile
  <2>2. Unmoved(u, r)
    BY <1>6, <2>1 DEF Unmoved
  <2>3. PICK t, m, b : /\ t = place[r].todo /\ m = place[r].met /\ b = NeedToBuild(u, r)
                       /\ place[r] = Place(t, m, w, s, b)
    BY <1>5, <1>6 DEF Place
  <2>4. place'[r] = Place(t, m, w + 1, s, b)
    <3>1. place'[r] = [place[r] EXCEPT !.written = w + 1]
      BY <1>6, <2>1
    <3>2. PICK z, v : z = place[r] /\ v = w + 1 /\ z = Place(t, m, w, s, b)
      BY <2>3
    <3>3. [Place(t, m, w, s, b) EXCEPT !.written = v] = Place(t, m, v, s, b)
      BY DEF Place
    <3>4. QED
      BY <3>1, <3>2, <3>3
  <2>5. /\ place'[r].todo = place[r].todo /\ place'[r].met = place[r].met
        /\ place'[r].written = w + 1 /\ place'[r].storage = s /\ place'[r].builds
        /\ w + 1 \in 0 .. 2 * NumFiles - 1
        /\ place'[r] = [todo |-> place'[r].todo, met |-> place'[r].met,
                        written |-> place'[r].written, storage |-> Storage(u, r),
                        builds |-> NeedToBuild(u, r)]
    <3>1. w + 1 \in 0 .. 2 * NumFiles - 1
      BY <1>6, <2>1 DEF NumFiles
    <3>2. /\ place'[r].todo = t /\ place'[r].met = m /\ place'[r].written = w + 1
          /\ place'[r].storage = s /\ place'[r].builds = b
      BY <2>4 DEF Place
    <3>3. place'[r] = Place(place'[r].todo, place'[r].met, place'[r].written, Storage(u, r),
                            NeedToBuild(u, r))
      BY <1>5, <2>3, <2>4, <3>2, Zenon
    <3>4. b
      BY <1>6, <2>3
    <3>5. QED
      BY <2>3, <3>1, <3>2, <3>3, <3>4 DEF Place
  <2>6. PlaceIs(u, r, p, c)'
    BY <1>4, <2>5 DEF PlaceIs
  <2>7. BehindIsWhole(u, r, c)'
    BY <1>2, <1>4, <1>14, KeepsBehind
  <2>8. WritingOK(r)'
    <3>1. Constructing(r)'
      BY <1>1, <2>5 DEF Constructing, AtBarrier, Done
    <3>2. FilesOf(r)' = y
      BY <1>6, <1>12, <2>5 DEF FilesOf
    <3>3. QED
      BY <2>1, <2>5, <3>1, <3>2 DEF WritingOK, Written
  <2>9. RankOK(u, r)'
    <3>1. p \in 0 .. ScriptLength(u, r) /\ c \in 0 .. Datasets(u)
      BY <1>4 DEF PlaceIs
    <3>2. QED
      BY <2>5, <2>6, <2>7, <2>8, <3>1 DEF RankOK
  <2>10. \A q \in u.ranks : q # r /\ place[q].written > 0 => FilesOf(q)' = FilesOf(q)
    BY <1>15, <2>2 DEF Unmoved
  <2>11. \A q, a \in u.ranks : place'[q].met <= Reached(a)'
    BY <1>1, <1>2, <2>2, <2>5, AdvanceReached
  <2>12. QED
    BY <1>13, <1>14, <2>2, <2>9, <2>10, <2>11, OneRankMoves
<1>18. QED
  BY <1>16, <1>17

-----------------------------------------------------------------------------
(* What a rank loads is there, and the building does not get stuck.          *)

(* A rank that does not build finds its dataset built. *)
LEMMA BuiltForOthers ==
  ASSUME NEW u, Sound(u), NEW r \in u.ranks, Constructing(r), ~ NeedToBuild(u, r)
  PROVE  IsWhole(FilesOf(r))
<1>1. IsLaunch(u) /\ BuildInv(u) /\ BuildersOK(u)
  BY DEF Sound
<1>2. PICK p, c : At(u, r, p, c)
  BY ConstructingAt
<1>3. /\ PlaceIs(u, r, p, c) /\ r \in u.readers /\ p \in Nat /\ c \in Nat
      /\ c + 1 \in 1 .. Datasets(u) /\ FilesOf(r) = files[Storage(u, r)][Dataset(u, c + 1)]
  BY <1>2 DEF At
<1>4. r # 0 /\ \E b \in u.readers : NeedToBuild(u, b) /\ Storage(u, b) = Storage(u, r)
  BY <1>1, <1>3 DEF BuildersOK
<1>5. PICK b \in u.readers : NeedToBuild(u, b) /\ Storage(u, b) = Storage(u, r)
  BY <1>4
<1>6. b \in u.ranks
  BY <1>1, <1>5 DEF IsLaunch
<1>7. PICK a, k : PlaceIs(u, b, a, k) /\ BehindIsWhole(u, b, k)
  BY <1>1, <1>6, RankShape
<1>8. Stands(u, b, a, k) /\ DoesNext(u, b, a, k) /\ Stands(u, r, p, c) /\ DoesNext(u, r, p, c)
  BY <1>1, <1>3, <1>6, <1>7, StandsFacts, NextItem
<1>9. place[r].met = Behind(u, r) + c + 1
  <2>1. Early(u, r) = 0
    BY DEF Early
  <2>2. place[r].met = Behind(u, r) + c + 1 - Early(u, r)
    BY <1>8, BarriersBehind
  <2>3. Behind(u, r) \in {0, 1}
    BY <1>8 DEF Stands
  <2>4. QED
    BY <1>3, <2>1, <2>2, <2>3
<1>10. /\ Behind(u, b) <= Behind(u, r) /\ Behind(u, b) \in {0, 1} /\ Behind(u, r) \in {0, 1}
       /\ Early(u, b) = 1
  BY <1>4, <1>5 DEF Behind, Early
<1>11. place[r].met <= Reached(b) /\ Reached(b) \in Nat
  <2>1. place[b].met \in Nat
    BY <1>7 DEF PlaceIs
  <2>2. QED
    BY <1>1, <1>6, <2>1 DEF BuildInv, Reached
<1>12. Reached(b) >= Behind(u, b) + (c + 1)
  BY <1>3, <1>9, <1>10, <1>11
<1>13. c + 1 <= k
  BY <1>3, <1>5, <1>6, <1>8, <1>10, <1>12, BarriersBehind
<1>14. k \in Nat /\ c + 1 \in 1 .. k
  <2>1. k \in Nat
    BY <1>8 DEF Stands
  <2>2. QED
    BY <1>3, <1>13, <2>1
<1>15. IsWhole(files[Storage(u, b)][Dataset(u, c + 1)])
  BY <1>5, <1>7, <1>14 DEF BehindIsWhole
<1>16. QED
  BY <1>3, <1>5, <1>15

LEMMA NothingMissing ==
  ASSUME NEW u, Sound(u), NEW r \in u.ranks, Missing(r)
  PROVE  FALSE
<1>1. Constructing(r) /\ ~ Building(r) /\ \E f \in 2 .. NumFiles : FilesOf(r)[f] = "absent"
  BY DEF Missing, Loading, Indices
<1>2. PICK f \in 1 .. NumFiles : FilesOf(r)[f] = "absent"
  BY <1>1 DEF NumFiles
<1>3. place[r].builds = NeedToBuild(u, r)
  BY RankShape DEF Sound
<1>4. CASE NeedToBuild(u, r)
  BY <1>1, <1>2, <1>3, <1>4 DEF Building, CacheHit
<1>5. CASE ~ NeedToBuild(u, r)
  BY <1>1, <1>2, <1>5, BuiltForOthers DEF IsWhole
<1>6. QED
  BY <1>4, <1>5

LEMMA OnlyACrash ==
  ASSUME NEW u, Sound(u), NEW r \in u.ranks, Unreadable(r)
  PROVE  \E node \in DOMAIN files : \E d \in DOMAIN files[node] : LeftByCrash(node, d)
<1>1. /\ Constructing(r) /\ ~ Building(r)
      /\ \E f \in 2 .. NumFiles : FilesOf(r)[f] = "truncated"
  BY DEF Unreadable, Loading, Indices
<1>2. IsLaunch(u) /\ BuildInv(u) /\ BuildersOK(u)
  BY DEF Sound
<1>3. place[r].builds = NeedToBuild(u, r) /\ place[r].storage = Storage(u, r)
  BY <1>2, RankShape
<1>4. NeedToBuild(u, r)
  <2>1. PICK f \in 1 .. NumFiles : FilesOf(r)[f] = "truncated"
    BY <1>1 DEF NumFiles
  <2>2. ~ IsWhole(FilesOf(r))
    BY <2>1 DEF IsWhole
  <2>3. QED
    BY <1>1, <2>2, BuiltForOthers
<1>5. ~(place[r].written > 0) /\ CacheHit(r)
  BY <1>1, <1>3, <1>4 DEF Building
<1>6. PICK p, c : At(u, r, p, c)
  BY <1>1, ConstructingAt
<1>7. c + 1 \in 1 .. Datasets(u) /\ Head(place[r].todo) = Dataset(u, c + 1)
  BY <1>6 DEF At
<1>8. PICK s \in 0 .. Nodes - 1, d \in Grid(job), x \in [1 .. NumFiles -> FileStates] :
        /\ s = Storage(u, r) /\ d = Dataset(u, c + 1) /\ x = files[s][d] /\ x = FilesOf(r)
        /\ LastFileLast(x)
  BY <1>6, <1>7, FilesFacts DEF At
<1>9. \A f \in 1 .. NumFiles : x[f] = IF f < NumFiles THEN "whole" ELSE "truncated"
  <2>1. x[4] # "absent" /\ \A f \in 1 .. 3 : x[f] = "whole"
    <3>1. x[4] # "absent"
      BY <1>5, <1>8 DEF CacheHit, NumFiles
    <3>2. QED
      BY <1>8, <3>1 DEF LastFileLast, NumFiles
  <2>2. x[4] = "truncated"
    <3>1. PICK f \in 2 .. 4 : x[f] = "truncated"
      BY <1>1, <1>8 DEF NumFiles
    <3>2. f = 4 \/ f \in 1 .. 3
      OBVIOUS
    <3>3. QED
      BY <2>1, <3>1, <3>2
  <2>3. QED
    BY <2>1, <2>2 DEF NumFiles
<1>10. ASSUME NEW q \in DOMAIN place, place[q].written > 0
       PROVE  place[q].storage # s \/ Head(place[q].todo) # d
  <2>1. q \in u.ranks
    BY <1>2, <1>10 DEF BuildInv
  <2>2. place[q].builds = NeedToBuild(u, q) /\ place[q].storage = Storage(u, q) /\ WritingOK(q)
    BY <1>2, <2>1, RankShape
  <2>3. NeedToBuild(u, q) /\ q # r
    BY <1>5, <1>10, <2>2 DEF WritingOK
  <2>4. Storage(u, q) # Storage(u, r)
    BY <1>2, <1>4, <2>1, <2>3 DEF BuildersOK
  <2>5. QED
    BY <1>8, <2>2, <2>4
<1>11. LeftByCrash(s, d)
  BY <1>8, <1>9, <1>10 DEF LeftByCrash
<1>12. s \in DOMAIN files /\ d \in DOMAIN files[s]
  BY DEF Sound, FilesOK
<1>13. QED
  BY <1>11, <1>12

(* The rank with the fewest barriers behind it is not kept waiting. *)
LEMMA NobodyStuck ==
  ASSUME NEW u, Sound(u), ~ Built
  PROVE  BuildingGoesOn
<1>1. IsLaunch(u) /\ BuildInv(u) /\ DOMAIN place = u.ranks
  BY DEF Sound, BuildInv
<1>2. \A q \in u.ranks : \E p, c : Stands(u, q, p, c) /\ DoesNext(u, q, p, c) /\ PlaceIs(u, q, p, c)
  <2> TAKE q \in u.ranks
  <2>1. PICK p, c : PlaceIs(u, q, p, c)
    BY <1>1, RankShape
  <2>2. QED
    BY <1>1, <2>1, StandsFacts, NextItem
<1>3. \A q \in u.ranks :
        /\ place[q].met \in Nat
        /\ Done(q) => place[q].met = Datasets(u) + Extra(u)
        /\ AtBarrier(q) => place[q].met < Datasets(u) + Extra(u)
  <2> TAKE q \in u.ranks
  <2>1. PICK p, c : Stands(u, q, p, c) /\ DoesNext(u, q, p, c) /\ PlaceIs(u, q, p, c)
    BY <1>2
  <2>2. place[q].met \in Nat
    BY <2>1 DEF PlaceIs
  <2>3. QED
    BY <2>1, <2>2, BarriersBehind
<1>4. CASE \E q \in u.ranks : Constructing(q)
  BY <1>1, <1>4 DEF BuildingGoesOn
<1>5. CASE ~ \E q \in u.ranks : Constructing(q)
  <2>1. \A q \in u.ranks : Done(q) \/ AtBarrier(q)
    BY <1>5 DEF Constructing
  <2> DEFINE T == {place[q].met : q \in {t \in u.ranks : AtBarrier(t)}}
  <2>2. T # {} /\ T \subseteq Nat
    BY <1>1, <1>3, <2>1 DEF Built
  <2>3. PICK m \in T : \A k \in T : m <= k
    BY <2>2, LeastNat
  <2>4. PICK r \in u.ranks : AtBarrier(r) /\ place[r].met = m
    BY <2>3
  <2>5. ASSUME NEW q \in u.ranks PROVE Reached(q) > place[r].met
    <3>1. CASE AtBarrier(q)
      <4>1. m <= place[q].met
        BY <2>3, <3>1
      <4>2. QED
        BY <1>3, <2>4, <3>1, <4>1 DEF Reached
    <3>2. CASE ~ AtBarrier(q)
      <4>1. Done(q)
        BY <2>1, <3>2
      <4>2. place[q].met > place[r].met
        BY <1>3, <2>4, <4>1
      <4>3. QED
        BY <1>3, <3>2, <4>2 DEF Reached
    <3>3. QED
      BY <3>1, <3>2
  <2>6. BarrierOpen(r)
    BY <1>1, <2>4, <2>5 DEF BarrierOpen
  <2>7. QED
    BY <1>1, <2>6 DEF BuildingGoesOn
<1>6. QED
  BY <1>4, <1>5

(* Once all are done, every dataset on the storage of a reader is whole. *)
LEMMA BuiltIsWhole ==
  ASSUME NEW u, Sound(u), Built, NEW r \in u.readers, NEW d \in Grid(job)
  PROVE  IsWhole(files[place[r].storage][d])
<1>1. IsLaunch(u) /\ BuildInv(u) /\ r \in u.ranks /\ Grid(job) = Grid(u)
  BY DEF Sound, IsLaunch
<1>2. PICK p, c : PlaceIs(u, r, p, c) /\ BehindIsWhole(u, r, c)
  BY <1>1, RankShape
<1>3. Stands(u, r, p, c) /\ DoesNext(u, r, p, c) /\ Done(r)
  BY <1>1, <1>2, StandsFacts, NextItem DEF Built, BuildInv
<1>4. place[r].storage = Storage(u, r)
  BY <1>1, RankShape
<1>5. PICK n \in 1 .. Datasets(u) : d = Dataset(u, n)
  BY <1>1, EveryDataset
<1>6. n \in 1 .. c
  <2>1. PICK N \in Nat \ {0}, B \in {0, 1}, E \in {0, 1}, X \in Nat :
          /\ N = Datasets(u) /\ B = Behind(u, r) /\ E = Early(u, r) /\ X = Extra(u)
    BY <1>3 DEF Stands
  <2>2. \A m \in 1 .. N : B + 2 * m - E <= p <=> m <= c
    BY <1>3, <2>1, Zenon DEF Stands
  <2>3. p = 2 * N + X /\ ((X = 0 /\ B = 0) \/ X > 1) /\ c \in Nat
    BY <1>3, <2>1 DEF Stands, DoesNext
  <2>4. n \in 1 .. N
    BY <1>5, <2>1
  <2>5. B + 2 * n - E <= p
    BY <2>3, <2>4
  <2>6. n <= c
    BY <2>2, <2>4, <2>5
  <2>7. QED
    BY <2>3, <2>4, <2>6
<1>7. QED
  BY <1>2, <1>4, <1>5, <1>6 DEF BehindIsWhole

LEMMA BuildStartsSound ==
  ASSUME NEW u, IsLaunch(u), BuildersOK(u), BuildStarts(u)
  PROVE  BuildInv(u)'
<1>1. /\ DOMAIN place' = u.ranks /\ place' = [r \in u.ranks |-> place'[r]]
      /\ \A r \in u.ranks :
           place'[r] = Place(Script(u, r), 0, 0, Storage(u, r), NeedToBuild(u, r))
  BY DEF BuildStarts, Place
<1>2. ASSUME NEW r \in u.ranks PROVE RankOK(u, r)' /\ place'[r].met = 0
  <2>1. /\ place'[r].todo = Script(u, r) /\ place'[r].met = 0 /\ place'[r].written = 0
        /\ place'[r] = [todo |-> place'[r].todo, met |-> place'[r].met,
                        written |-> place'[r].written, storage |-> Storage(u, r),
                        builds |-> NeedToBuild(u, r)]
    <3>1. PICK t, s, b : t = Script(u, r) /\ s = Storage(u, r) /\ b = NeedToBuild(u, r)
      OBVIOUS
    <3>2. place'[r] = Place(t, 0, 0, s, b)
      BY <1>1, <3>1
    <3>3. /\ place'[r].todo = t /\ place'[r].met = 0 /\ place'[r].written = 0
          /\ place'[r] = Place(place'[r].todo, place'[r].met, place'[r].written, s, b)
      BY <3>2 DEF Place
    <3>4. QED
      BY <3>1, <3>3 DEF Place
  <2>2. PICK s, L : s = Script(u, r) /\ L = ScriptLength(u, r)
    OBVIOUS
  <2>3. HasItems(s, L)
    BY <2>2, ScriptFacts DEF IsScript
  <2>4. L \in Nat /\ s = Rest(s, 0, L)
    <3>1. L \in Nat /\ DOMAIN s = 1 .. L /\ s = [i \in 1 .. L |-> s[i]]
      BY <2>3 DEF HasItems
    <3>2. L - 0 = L /\ \A i \in 1 .. L : 0 + i = i
      BY <3>1
    <3>3. QED
      BY <3>1, <3>2 DEF Rest
  <2>5. PICK N \in Nat \ {0} : N = Datasets(u)
    BY DatasetsFacts
  <2>6. ASSUME NEW n \in 1 .. Datasets(u) PROVE Slot(u, r, n) <= 0 <=> n <= 0
    BY <2>5 DEF Slot, Behind, Early
  <2>7. PlaceIs(u, r, 0, 0)'
    <3>1. 0 \in 0 .. L /\ 0 \in 0 .. N /\ 0 = 0 - 0 /\ 0 \in Nat
      BY <2>4
    <3>2. QED
      BY <2>1, <2>2, <2>4, <2>5, <2>6, <3>1 DEF PlaceIs
  <2>8. BehindIsWhole(u, r, 0)'
    BY DEF BehindIsWhole
  <2>9. WritingOK(r)'
    BY <2>1 DEF WritingOK
  <2>10. 0 \in 0 .. 2 * NumFiles - 1 /\ 0 \in 0 .. ScriptLength(u, r) /\ 0 \in 0 .. Datasets(u)
    BY <2>2, <2>4, <2>5 DEF NumFiles
  <2>11. QED
    BY <2>1, <2>7, <2>8, <2>9, <2>10 DEF RankOK
<1>3. \A r, q \in u.ranks : place'[r].met <= Reached(q)'
  BY <1>2 DEF Reached
<1>4. QED
  BY <1>1, <1>2, <1>3 DEF BuildInv

-----------------------------------------------------------------------------
(* The datasets, across launches and crashes.                                *)

(* What is being read was built: the launch, its ranks and the cache. *)
CacheRead ==
  /\ why # "missing"
  /\ why = "unreadable" =>
        \E node \in DOMAIN files : \E d \in DOMAIN files[node] : LeftByCrash(node, d)

CacheInv ==
  /\ FilesOK /\ CacheRead
  /\ phase \in {"building", "training"} => why = "none" /\ BuildInv(Launch(job, layout))
  /\ phase = "training" => Built /\ DOMAIN iterators = Readers(job, layout)

LEMMA SoundLaunch ==
  ASSUME ProgressInv, CacheInv, phase \in {"building", "training"},
         NEW u, u = Launch(job, layout)
  PROVE  Sound(u) /\ u.readers = Readers(job, layout) /\ why = "none"
<1>1. job \in Jobs /\ Launched(job, layout)
  BY DEF ProgressInv, CountersOK, RunningOK
<1>2. /\ IsLaunch(u) /\ BuildersOK(u) /\ u.readers = Readers(job, layout)
      /\ u.prefixes = job.prefixes /\ u.splits = job.splits
  BY <1>1, LaunchShape
<1>3. BuildInv(u) /\ FilesOK /\ why = "none"
  BY DEF CacheInv
<1>4. QED
  BY <1>2, <1>3 DEF Sound, Grid

LEMMA InitCache == Init => CacheInv
<1> SUFFICES ASSUME Init PROVE CacheInv
  OBVIOUS
<1>1. /\ phase = "down" /\ why = "none"
      /\ files = [node \in 0 .. Nodes - 1 |-> [d \in Grid(job) |-> NoFiles]]
  BY DEF Init, Grid
<1>2. NoFiles \in [1 .. NumFiles -> {"absent", "truncated", "whole"}] /\ LastFileLast(NoFiles)
  BY DEF NoFiles, NumFiles, LastFileLast
<1>3. FilesOK
  BY <1>1, <1>2 DEF FilesOK
<1>4. QED
  BY <1>1, <1>3 DEF CacheInv, CacheRead

(* Steps that leave the cache and the ranks alone. *)
LEMMA CacheAlone ==
  ASSUME ProgressInv, CacheInv, UNCHANGED <<job, layout, files, place>>,
         \/ why' = why
         \/ why' \notin {"missing", "unreadable"} /\ phase' \notin {"building", "training"},
         phase' \in {"building", "training"} => phase \in {"building", "training"},
         phase' = "training" => Built /\ DOMAIN iterators' = Readers(job, layout)
  PROVE  CacheInv'
<1>1. FilesOK'
  BY DEF CacheInv, FilesOK, Grid, LastFileLast
<1>2. CacheRead'
  <2>1. CASE why' = why
    BY <2>1 DEF CacheInv, CacheRead, LeftByCrash
  <2>2. CASE why' \notin {"missing", "unreadable"}
    BY <2>2 DEF CacheRead
  <2>3. QED
    BY <2>1, <2>2
<1>3. ASSUME phase' \in {"building", "training"}
      PROVE  why' = "none" /\ BuildInv(Launch(job, layout))'
  <2>1. why = "none" /\ BuildInv(Launch(job, layout)) /\ why' = why
    BY <1>3 DEF CacheInv
  <2>2. PICK u : u = Launch(job, layout)
    OBVIOUS
  <2>3. u = Launch(job', layout')
    BY <2>2
  <2>4. BuildInv(u) /\ UNCHANGED <<place, files>>
    BY <2>1, <2>2
  <2>5. BuildInv(u)'
    <3>1. IsLaunch(u)
      BY <1>3, <2>2, SoundLaunch DEF Sound
    <3>2. KeepsWhole(u)
      BY <2>4 DEF KeepsWhole
    <3>3. ASSUME NEW q \in u.ranks PROVE RankOK(u, q)'
      <4>1. RankOK(u, q) /\ place'[q] = place[q] /\ FilesOf(q)' = FilesOf(q)
        BY <2>4 DEF BuildInv, FilesOf
      <4>2. QED
        BY <3>1, <3>2, <4>1, OtherRank
    <3>4. \A q : Reached(q)' = Reached(q)
      BY <2>4 DEF Reached, AtBarrier, Done
    <3>5. QED
      BY <2>4, <3>3, <3>4 DEF BuildInv
  <2>6. QED
    BY <2>1, <2>3, <2>5
<1>4. Built' <=> Built
  BY DEF Built, Done
<1>5. QED
  BY <1>1, <1>2, <1>3, <1>4 DEF CacheInv

LEMMA StartCache ==
  ASSUME ProgressInv, ProgressInv', CacheInv, NEW l \in Layouts, Start(l)
  PROVE  CacheInv'
<1>1. /\ job' = job /\ layout' = l /\ files' = files
      /\ phase' = IF why' = "none" THEN "building" ELSE "failed"
      /\ phase' = "building" => BuildStarts(Launch(job, l))
      /\ why' \in {"world size", "batch size", "microbatches", "none"}
  BY DEF Start, StartError
<1>2. FilesOK'
  BY <1>1 DEF CacheInv, FilesOK, Grid, LastFileLast
<1>3. ASSUME phase' = "building" PROVE BuildInv(Launch(job, layout))'
  <2>1. job \in Jobs /\ Launched(job, l)
    BY <1>1, <1>3 DEF ProgressInv, CountersOK, RunningOK
  <2>2. PICK u : u = Launch(job, l)
    OBVIOUS
  <2>3. IsLaunch(u) /\ BuildersOK(u) /\ BuildStarts(u)
    BY <1>1, <1>3, <2>1, <2>2, LaunchShape
  <2>4. BuildInv(u)'
    BY <2>3, BuildStartsSound
  <2>5. u = Launch(job', layout')
    BY <1>1, <2>2
  <2>6. QED
    BY <2>4, <2>5
<1>4. QED
  BY <1>1, <1>2, <1>3 DEF CacheInv, CacheRead

LEMMA BuildCache ==
  ASSUME ProgressInv, CacheInv, NEW r \in DOMAIN place, BuildDatasets(r)
  PROVE  CacheInv'
<1>1. /\ phase = "building" /\ phase' = phase /\ why' = why /\ UNCHANGED <<job, layout>>
      /\ MeetBarrier(r) \/ WriteFile(r) \/ Load(r)
  BY DEF BuildDatasets, BuildStep
<1>2. PICK u : u = Launch(job, layout)
  OBVIOUS
<1>3. Sound(u) /\ why = "none"
  BY <1>1, <1>2, SoundLaunch
<1>4. r \in u.ranks
  BY <1>3 DEF Sound, BuildInv
<1>5. BuildInv(u)' /\ FilesOK'
  <2>1. CASE WriteFile(r)
    BY <1>1, <1>3, <1>4, <2>1, WriteFileKeeps
  <2>2. CASE MeetBarrier(r) \/ Load(r)
    <3>1. files' = files
      BY <2>2 DEF MeetBarrier, Load
    <3>2. FilesOK'
      BY <1>1, <3>1 DEF CacheInv, FilesOK, Grid, LastFileLast
    <3>3. BuildInv(u)'
      BY <1>3, <1>4, <2>2, MeetBarrierKeeps, LoadKeeps
    <3>4. QED
      BY <3>2, <3>3
  <2>3. QED
    BY <1>1, <2>1, <2>2
<1>6. u = Launch(job', layout')
  BY <1>1, <1>2
<1>7. QED
  BY <1>1, <1>3, <1>5, <1>6 DEF CacheInv, CacheRead

LEMMA BuildFailsCache ==
  ASSUME ProgressInv, CacheInv, NEW r \in DOMAIN place, BuildFails(r)
  PROVE  CacheInv'
<1>1. /\ phase = "building" /\ phase' = "failed" /\ UNCHANGED <<job, layout, files, place>>
      /\ \/ Missing(r) /\ why' = "missing"
         \/ Unreadable(r) /\ why' = "unreadable"
  BY DEF BuildFails, Fail
<1>2. PICK u : u = Launch(job, layout)
  OBVIOUS
<1>3. Sound(u)
  BY <1>1, <1>2, SoundLaunch
<1>4. r \in u.ranks
  BY <1>3 DEF Sound, BuildInv
<1>5. Unreadable(r) /\ why' = "unreadable"
  BY <1>1, <1>3, <1>4, NothingMissing
<1>6. \E node \in DOMAIN files : \E d \in DOMAIN files[node] : LeftByCrash(node, d)
  BY <1>3, <1>4, <1>5, OnlyACrash
<1>7. CacheRead'
  BY <1>1, <1>5, <1>6 DEF CacheRead, LeftByCrash
<1>8. FilesOK'
  BY <1>1 DEF CacheInv, FilesOK, Grid, LastFileLast
<1>9. QED
  BY <1>1, <1>7, <1>8 DEF CacheInv

LEMMA CrashCache ==
  ASSUME CacheInv, Crash
  PROVE  CacheInv'
<1>1. phase' = "down" /\ why' = why /\ why = "none" /\ UNCHANGED <<job, layout, files>>
  BY DEF Crash, CacheInv
<1>2. FilesOK'
  BY <1>1 DEF CacheInv, FilesOK, Grid, LastFileLast
<1>3. QED
  BY <1>1, <1>2 DEF CacheInv, CacheRead

LEMMA CacheStep == ProgressInv /\ ProgressInv' /\ CacheInv /\ [Next]_vars => CacheInv'
<1> SUFFICES ASSUME ProgressInv, ProgressInv', CacheInv, [Next]_vars PROVE CacheInv'
  OBVIOUS
<1>1. CASE \E l \in Layouts : Start(l)
  BY <1>1, StartCache
<1>2. CASE \E r \in DOMAIN place : BuildDatasets(r) \/ BuildFails(r)
  BY <1>2, BuildCache, BuildFailsCache
<1>3. CASE BuildLoaders
  <2>1. /\ phase = "building" /\ Built /\ UNCHANGED <<job, layout, files, place>>
        /\ \/ /\ phase' = "training" /\ why' = why
              /\ iterators' = [r \in Readers(job, layout) |->
                                 Iterator(job.s, DataRank(job, layout, r), ResumeAt(saved))]
           \/ phase' = "failed" /\ why' = "no samples left"
    BY <1>3 DEF BuildLoaders, Fail
  <2>2. phase' = "training" => DOMAIN iterators' = Readers(job, layout)
    BY <2>1
  <2>3. QED
    BY <2>1, <2>2, CacheAlone
<1>4. CASE TrainIteration
  <2>1. phase = "training" /\ ((\E n : Iterates(n)) \/ Aborts)
    BY <1>4, IterationCases
  <2>2. CASE Aborts
    BY <2>1, <2>2, CacheAlone DEF Aborts
  <2>3. ASSUME NEW n, Iterates(n) PROVE CacheInv'
    <3>1. /\ UNCHANGED <<job, layout, files, place>> /\ why' = why /\ phase' \in {"down", "training"}
          /\ DOMAIN iterators' = Readers(job, layout)
      BY <2>3 DEF Iterates
    <3>2. Built
      BY <2>1 DEF CacheInv
    <3>3. QED
      BY <2>1, <3>1, <3>2, CacheAlone
  <2>4. QED
    BY <2>1, <2>2, <2>3
<1>5. CASE Finish
  <2>1. UNCHANGED <<job, layout, files, place, why>> /\ phase' = "finished"
    BY <1>5 DEF Finish
  <2>2. QED
    BY <2>1, CacheAlone
<1>6. CASE Crash
  BY <1>6, CrashCache
<1>7. CASE UNCHANGED vars
  <2>1. UNCHANGED <<job, layout, files, place, why, phase, iterators>>
    BY <1>7 DEF vars
  <2>2. QED
    BY <2>1, CacheAlone DEF CacheInv
<1>8. QED
  BY <1>1, <1>2, <1>3, <1>4, <1>5, <1>6, <1>7 DEF Next

LEMMA Cache == Spec => []CacheInv
<1>1. Init => CacheInv
  BY InitCache
<1>2. ProgressInv /\ ProgressInv' /\ CacheInv /\ [Next]_vars => CacheInv'
  BY CacheStep
<1>3. Spec => []ProgressInv
  BY Progress
<1>4. QED
  BY <1>1, <1>2, <1>3, PTL DEF Spec

(* Whatever the launches and the storage of their ranks, and whenever a      *)
(* launch crashes: no rank looks for the files of a dataset before they are  *)
(* built, no barrier is waited at for ever, and what is loaded is whole,     *)
(* unless the cache is one that a crash left with its last file truncated.   *)
THEOREM DatasetsBuiltBeforeReadThm == Spec => []DatasetsBuiltBeforeRead
<1>1. ProgressInv /\ CacheInv => DatasetsBuiltBeforeRead
  <2> SUFFICES ASSUME ProgressInv, CacheInv PROVE DatasetsBuiltBeforeRead
    OBVIOUS
  <2>1. PICK u : u = Launch(job, layout)
    OBVIOUS
  <2>2. phase = "building" => Built \/ BuildingGoesOn
    BY <2>1, SoundLaunch, NobodyStuck
  <2>3. ASSUME phase = "training", NEW r \in DOMAIN iterators,
               NEW d \in DOMAIN files[place[r].storage]
        PROVE  ToSet(files[place[r].storage][d]) = {"whole"}
    <3>1. Sound(u) /\ u.readers = Readers(job, layout)
      BY <2>1, <2>3, SoundLaunch
    <3>2. Built /\ r \in u.readers
      BY <2>3, <3>1 DEF CacheInv
    <3>3. place[r].storage \in 0 .. Nodes - 1
      <4>1. r \in u.ranks /\ BuildInv(u) /\ BuildersOK(u)
        BY <3>1, <3>2 DEF Sound, IsLaunch
      <4>2. QED
        BY <4>1, RankShape DEF BuildersOK
    <3>4. PICK x : x = files[place[r].storage][d]
      OBVIOUS
    <3>5. d \in Grid(job) /\ x \in [1 .. 4 -> FileStates]
      BY <2>3, <3>3, <3>4 DEF CacheInv, FilesOK, FileStates, NumFiles
    <3>6. \A f \in 1 .. 4 : x[f] = "whole"
      BY <3>1, <3>2, <3>4, <3>5, BuiltIsWhole DEF IsWhole, NumFiles
    <3>7. ToSet(x) = {"whole"}
      BY <3>5, <3>6 DEF ToSet
    <3>8. QED
      BY <3>4, <3>7
  <2>4. QED
    BY <2>2, <2>3 DEF CacheInv, CacheRead, DatasetsBuiltBeforeRead
<1>2. QED
  BY <1>1, Progress, Cache, PTL

-----------------------------------------------------------------------------
(* The random sampler. *)

Repeats(s, r) ==
  /\ IsDataRank(r)
  /\ s.type = "cyclic" /\ s.sharding \in BOOLEAN /\ s.total \in Nat /\ ActiveTotal(s, r) > 0

(* Whole chunks of an epoch; what it has of samples of a rank with and       *)
(* without sharding, and of microbatches.                                    *)
Turns(s, r) == s.total \div ChunkOf(r)

Bucket(s, r) == Turns(s, r) * r.mbs

Whole(s, r) == (s.total \div r.mbs) * r.mbs

Share(s, r) ==
  IF s.sharding THEN Bucket(s, r) ELSE (Whole(s, r) - r.rank + r.dp - 1) \div r.dp

Batches(s, r) == Share(s, r) \div r.mbs

(* The sample of r that has k others of r before it in epoch e, and the      *)
(* microbatch that has u others before it.                                   *)
SampleAt(s, r, e, k) ==
  <<e, IF s.sharding THEN r.rank * Bucket(s, r) + RandPerm(Bucket(s, r), e)[k]
       ELSE RandPerm(Whole(s, r), e)[r.rank + k * r.dp]>>

Batch(s, r, e, u) == [i \in 1 .. r.mbs |-> SampleAt(s, r, e, u * r.mbs + i - 1)]

EqualEpochs(s, r) == s.sharding \/ (s.total \div r.mbs) % r.dp = 0

IsEpoch(s, r) ==
  /\ Turns(s, r) \in Nat \ {0} /\ Turns(s, r) <= s.total
  /\ ActiveTotal(s, r) = ChunkOf(r) * Turns(s, r)
  /\ Bucket(s, r) \in Nat /\ Bucket(s, r) <= s.total
  /\ Whole(s, r) \in Nat /\ Whole(s, r) <= s.total
  /\ Share(s, r) \in Nat /\ Batches(s, r) \in Nat
  /\ Turns(s, r) <= Batches(s, r) /\ Batches(s, r) * r.mbs <= Share(s, r)
  /\ EqualEpochs(s, r) => Batches(s, r) = Turns(s, r)
  /\ ~ s.sharding => \A k \in Nat : k < Share(s, r) => r.rank + k * r.dp < Whole(s, r)

(* A multiple of d divided by d. *)
LEMMA DivExact ==
  ASSUME NEW d \in Nat \ {0}, NEW k \in Int, NEW y \in 0 .. d - 1
  PROVE  (d * k + y) \div d = k /\ (d * k + y) % d = y
<1>1. PICK x : x = d * k + y
  OBVIOUS
<1>2. Digits(x, d, k, y)
  BY <1>1 DEF Digits
<1>3. QED
  BY <1>1, <1>2, DivUnique

LEMMA EpochFacts ==
  ASSUME NEW s, NEW r, Repeats(s, r)
  PROVE  IsEpoch(s, r)
<1>0. PICK m \in Nat \ {0}, p \in Nat \ {0}, T \in Nat, d \in Nat :
         m = r.mbs /\ p = r.dp /\ T = s.total /\ d = r.rank /\ d \in 0 .. p - 1
  BY DEF Repeats, IsDataRank
<1>1. m = r.mbs /\ p = r.dp /\ T = s.total /\ d = r.rank /\ d \in 0 .. p - 1
  BY <1>0
<1>2. PICK h \in Nat \ {0} : h = m * p /\ h = ChunkOf(r)
  BY <1>1, Positive DEF ChunkOf
<1>3. PICK q \in Nat, x \in 0 .. h - 1 : q = T \div h /\ x = T % h /\ T = h * q + x
  BY DivNat
<1>4. Turns(s, r) = q /\ ActiveTotal(s, r) = T - x
  BY <1>1, <1>2, <1>3 DEF Turns, ActiveTotal
<1>5. h * q \in Nat /\ T - x = h * q
  BY <1>3
<1>6. q # 0
  BY <1>4, <1>5 DEF Repeats
<1>7. PICK b \in Nat : b = q * m /\ b = Bucket(s, r)
  BY <1>1, <1>4 DEF Bucket
<1>8. h * q = p * b
  BY <1>2, <1>7
<1>9. p * b >= b /\ b >= q
  <2>1. p * b = b + (p - 1) * b /\ (p - 1) * b >= 0
    OBVIOUS
  <2>2. q * m = q + q * (m - 1) /\ q * (m - 1) >= 0
    OBVIOUS
  <2>3. (p - 1) * b \in Int /\ q * (m - 1) \in Int /\ p * b \in Int
    OBVIOUS
  <2>4. QED
    BY <1>7, <2>1, <2>2, <2>3
<1>10. q <= T /\ b <= T
  BY <1>3, <1>5, <1>8, <1>9
<1>11. PICK v \in Nat, y \in 0 .. m - 1 : v = T \div m /\ y = T % m /\ T = m * v + y
  BY DivNat
<1>12. PICK w \in Nat : w = v * m /\ w = Whole(s, r) /\ w = m * v
  BY <1>1, <1>11 DEF Whole
<1>13. w <= T
  BY <1>11, <1>12
<1>14. v >= p * q
  <2>1. m * (p * q) = h * q /\ p * q \in Int
    BY <1>2
  <2>2. m * (p * q) <= T
    BY <1>3, <1>5, <2>1
  <2>3. QED
    BY <1>11, <2>1, <2>2, DivAtLeast
<1>15. w >= p * b
  <2>1. m * (v - p * q) >= 0 /\ m * (v - p * q) = m * v - m * (p * q)
    BY <1>14
  <2>2. m * (p * q) = p * b
    BY <1>7
  <2>3. m * v \in Int /\ p * b \in Int
    OBVIOUS
  <2>4. QED
    BY <1>12, <2>1, <2>2, <2>3
<1>16. PICK z : z = w - d + p - 1
  OBVIOUS
<1>17. z \in Nat /\ z >= w
  BY <1>1, <1>16
<1>18. PICK g \in Nat, f \in 0 .. p - 1 : g = z \div p /\ f = z % p /\ z = p * g + f
  BY <1>17, DivNat
<1>19. g >= b
  <2>1. p * b <= z /\ b \in Int /\ z \in Int
    BY <1>15, <1>17
  <2>2. QED
    BY <1>18, <2>1, DivAtLeast
<1>20. PICK S \in Nat : S = Share(s, r) /\ S = IF s.sharding THEN b ELSE g
  BY <1>1, <1>7, <1>12, <1>16, <1>18 DEF Share, Repeats
<1>21. S >= b
  BY <1>19, <1>20
<1>22. PICK B \in Nat, e \in 0 .. m - 1 : B = S \div m /\ e = S % m /\ S = m * B + e
  BY DivNat
<1>23. B = Batches(s, r)
  BY <1>1, <1>20, <1>22 DEF Batches
<1>24. q <= B
  <2>1. m * q <= S /\ S \in Int /\ q \in Int
    BY <1>7, <1>21
  <2>2. QED
    BY <1>22, <2>1, DivAtLeast
<1>25. B * m <= S
  BY <1>22
<1>26. S = b => B = q
  <2>1. b = m * q + 0 /\ 0 \in 0 .. m - 1 /\ q \in Int
    BY <1>7
  <2>2. (m * q + 0) \div m = q
    BY <2>1, DivExact
  <2>3. QED
    BY <1>22, <2>1, <2>2
<1>27. ASSUME v % p = 0 PROVE g = b
  <2>1. PICK k \in Nat, j \in 0 .. p - 1 : k = v \div p /\ j = v % p /\ v = p * k + j
    BY DivNat
  <2>2. v = p * k
    BY <1>27, <2>1
  <2>3. k = q
    <3>1. T = h * k + y
      <4>1. m * v = h * k
        BY <1>2, <2>2
      <4>2. QED
        BY <1>11, <4>1
    <3>2. y \in 0 .. h - 1
      <4>1. h = m + m * (p - 1) /\ m * (p - 1) >= 0 /\ m * (p - 1) \in Int
        BY <1>2
      <4>2. QED
        BY <4>1
    <3>3. T \div h = k
      BY <3>1, <3>2, DivExact
    <3>4. QED
      BY <1>3, <3>3
  <2>4. w = p * b
    BY <1>7, <1>12, <2>2, <2>3
  <2>5. z = p * b + (p - 1 - d) /\ p - 1 - d \in 0 .. p - 1
    <3>1. p - 1 - d \in 0 .. p - 1
      BY <1>1
    <3>2. p * b \in Int
      OBVIOUS
    <3>3. QED
      BY <1>16, <2>4, <3>1, <3>2
  <2>6. (p * b + (p - 1 - d)) \div p = b
    BY <2>5, DivExact
  <2>7. QED
    BY <1>18, <2>5, <2>6
<1>28. EqualEpochs(s, r) => B = q
  BY <1>1, <1>11, <1>20, <1>26, <1>27 DEF EqualEpochs
<1>29. ASSUME ~ s.sharding, NEW k \in Nat, k < S PROVE d + k * p < w
  <2>1. k <= g - 1
    BY <1>20, <1>29
  <2>2. p * (g - 1 - k) >= 0 /\ p * (g - 1 - k) = p * g - p - k * p
    BY <2>1
  <2>3. p * g \in Int /\ k * p \in Int
    OBVIOUS
  <2>4. QED
    BY <1>16, <1>18, <2>2, <2>3
<1>30. QED
  BY <1>1, <1>2, <1>4, <1>5, <1>6, <1>7, <1>10, <1>12, <1>13, <1>20, <1>23, <1>24, <1>25,
     <1>28, <1>29 DEF IsEpoch

(* Cutting a sequence into microbatches. *)
LEMMA CutFacts ==
  ASSUME NEW m \in Nat \ {0}, NEW n \in Nat, NEW f, DOMAIN f = 1 .. n,
         f = [i \in DOMAIN f |-> f[i]]
  PROVE  CutIn(m, f) = [k \in 1 .. n \div m |-> [i \in 1 .. m |-> f[(k - 1) * m + i]]]
<1>1. Len(f) = n
  BY SeqFacts
<1>2. PICK q \in Nat, x \in 0 .. m - 1 : q = n \div m /\ x = n % m /\ n = m * q + x
  BY DivNat
<1>3. ASSUME NEW k \in 1 .. q
      PROVE  SubSeq(f, (k - 1) * m + 1, k * m) = [i \in 1 .. m |-> f[(k - 1) * m + i]]
  <2>1. PICK a \in Nat, b \in Nat : a = (k - 1) * m /\ b = k * m /\ b = a + m /\ b <= n
    <3>1. (k - 1) * m \in Nat /\ k * m = (k - 1) * m + m
      OBVIOUS
    <3>2. m * (q - k) >= 0 /\ m * (q - k) = m * q - k * m
      OBVIOUS
    <3>3. m * q \in Int /\ k * m \in Nat
      OBVIOUS
    <3>4. k * m <= n
      BY <1>2, <3>2, <3>3
    <3>5. QED
      BY <3>1, <3>3, <3>4
  <2> DEFINE S == {f[i] : i \in 1 .. n}
             y == SubSeq(f, a + 1, b)
  <2>2. \A i \in a + 1 .. b : f[i] \in S
    BY <2>1
  <2> HIDE DEF S
  <2>3. y \in Seq(S) /\ Len(y) = m /\ \A i \in 1 .. m : y[i] = f[a + i]
    <3>1. PICK l \in Int : l = a + 1
      OBVIOUS
    <3>2. b \in Int /\ b - l + 1 = m /\ l <= b
      BY <2>1, <3>1
    <3>3. \A i \in l .. b : f[i] \in S
      BY <2>2, <3>1
    <3>4. /\ SubSeq(f, l, b) \in Seq(S)
          /\ Len(SubSeq(f, l, b)) = IF l <= b THEN b - l + 1 ELSE 0
          /\ \A i \in 1 .. b - l + 1 : SubSeq(f, l, b)[i] = f[l + i - 1]
      BY <3>2, <3>3, SubSeqProperties
    <3>5. y = SubSeq(f, l, b)
      BY <3>1
    <3> HIDE DEF y
    <3>6. \A i \in 1 .. m : l + i - 1 = a + i
      BY <3>1
    <3>7. QED
      BY <3>2, <3>4, <3>5, <3>6
  <2> HIDE DEF y
  <2>4. y = [i \in 1 .. m |-> y[i]]
    BY <2>3
  <2>5. y = [i \in 1 .. m |-> f[a + i]]
    BY <2>3, <2>4
  <2>6. QED
    BY <2>1, <2>5 DEF y
<1>4. CutIn(m, f) = [k \in 1 .. q |-> SubSeq(f, (k - 1) * m + 1, k * m)]
  BY <1>1, <1>2 DEF CutIn
<1>5. QED
  BY <1>2, <1>3, <1>4

(* What is left of epoch e from its turn u on. *)
RestOf(s, r, e, u) == [n \in 1 .. Batches(s, r) - u |-> Batch(s, r, e, u + n - 1)]

(* The samples of r in epoch e from turn u on: those at u * mbs and behind. *)
SamplesFrom(s, r, e, u) ==
  [i \in 1 .. Share(s, r) - u * r.mbs |-> SampleAt(s, r, e, u * r.mbs + i - 1)]

LEMMA RestIsCut ==
  ASSUME NEW s, NEW r, Repeats(s, r), NEW e, NEW u \in Nat, u <= Batches(s, r)
  PROVE  CutIn(r.mbs, SamplesFrom(s, r, e, u)) = RestOf(s, r, e, u)
<1>1. PICK m \in Nat \ {0}, S \in Nat, B \in Nat :
         m = r.mbs /\ S = Share(s, r) /\ B = Batches(s, r) /\ B = S \div m /\ B * m <= S
  BY EpochFacts DEF IsEpoch, Repeats, IsDataRank, Batches
<1>2. PICK a \in Nat : a = u * m /\ a <= S
  <2>1. u * m \in Nat
    OBVIOUS
  <2>2. (B - u) * m >= 0 /\ (B - u) * m = B * m - u * m
    BY <1>1
  <2>3. QED
    BY <1>1, <2>1, <2>2
<1>3. (S - a) \div m = B - u
  <2>1. S - a = S - m * u
    BY <1>2
  <2>2. (S - m * u) \div m = S \div m - u
    <3>1. S \in Int /\ u \in Int
      OBVIOUS
    <3>2. QED
      BY <3>1, DivShift
  <2>3. QED
    BY <1>1, <2>1, <2>2
<1> DEFINE f == [i \in 1 .. S - a |-> SampleAt(s, r, e, a + i - 1)]
<1>4. f = SamplesFrom(s, r, e, u)
  BY <1>1, <1>2 DEF SamplesFrom
<1>5. /\ DOMAIN f = 1 .. S - a /\ f = [i \in DOMAIN f |-> f[i]]
      /\ \A i \in 1 .. S - a : f[i] = SampleAt(s, r, e, a + i - 1)
  OBVIOUS
<1> HIDE DEF f
<1>6. PICK N \in Nat : N = S - a
  BY <1>2
<1>7. CutIn(m, f) = [k \in 1 .. B - u |-> [i \in 1 .. m |-> f[(k - 1) * m + i]]]
  <2>1. DOMAIN f = 1 .. N
    BY <1>5, <1>6
  <2>2. CutIn(m, f) = [k \in 1 .. N \div m |-> [i \in 1 .. m |-> f[(k - 1) * m + i]]]
    BY <1>5, <2>1, CutFacts
  <2>3. QED
    BY <1>3, <1>6, <2>2
<1>8. ASSUME NEW k \in 1 .. B - u
      PROVE  [i \in 1 .. m |-> f[(k - 1) * m + i]] = Batch(s, r, e, u + k - 1)
  <2>1. (k - 1) * m \in Nat /\ (u + k - 1) * m = a + (k - 1) * m /\ a + (k - 1) * m + m <= S
    <3>1. (k - 1) * m \in Nat
      OBVIOUS
    <3>2. (u + k - 1) * m = u * m + (k - 1) * m
      OBVIOUS
    <3>3. (B - u - k) * m >= 0 /\ (B - u - k) * m = B * m - u * m - (k - 1) * m - m
      BY <1>1
    <3>4. B * m \in Int
      OBVIOUS
    <3>5. QED
      BY <1>1, <1>2, <3>1, <3>2, <3>3, <3>4
  <2>2. PICK b \in Nat : b = (k - 1) * m /\ a + b + m <= S /\ (u + k - 1) * m = a + b
    BY <2>1
  <2>3. \A i \in 1 .. m : b + i \in 1 .. S - a /\ a + (b + i) - 1 = (a + b) + i - 1
    BY <1>2, <2>2
  <2>4. \A i \in 1 .. m : f[b + i] = SampleAt(s, r, e, (a + b) + i - 1)
    BY <1>5, <2>3
  <2>5. Batch(s, r, e, u + k - 1) = [i \in 1 .. m |-> SampleAt(s, r, e, (a + b) + i - 1)]
    BY <1>1, <2>2 DEF Batch
  <2>6. QED
    BY <2>2, <2>4, <2>5
<1>9. CutIn(m, f) = [k \in 1 .. B - u |-> Batch(s, r, e, u + k - 1)]
  BY <1>7, <1>8
<1>10. QED
  BY <1>1, <1>4, <1>9 DEF RestOf

(* The pass that starts after x microbatches of every rank: the one that    *)
(* began an epoch would be at the same place.                               *)
LEMMA RandomPass ==
  ASSUME NEW s, NEW r, Repeats(s, r), NEW e \in Nat, NEW u \in Nat, u < Turns(s, r),
         NEW c, c = ChunkOf(r) * (e * Turns(s, r) + u)
  PROVE  Pass(s, r, c) = RestOf(s, r, e, u)
<1>0. PICK m \in Nat \ {0}, p \in Nat \ {0}, d \in Nat :
         m = r.mbs /\ p = r.dp /\ d = r.rank /\ d <= p - 1
  BY DEF Repeats, IsDataRank
<1>1. IsEpoch(s, r)
  BY EpochFacts
<1>2. PICK h \in Nat \ {0}, q \in Nat \ {0}, A \in Nat \ {0} :
         h = m * p /\ h = ChunkOf(r) /\ q = Turns(s, r) /\ A = h * q /\ A = ActiveTotal(s, r)
  <2>1. m * p \in Nat \ {0} /\ ChunkOf(r) = m * p
    BY <1>0, Positive DEF ChunkOf
  <2>2. PICK h \in Nat \ {0} : h = m * p
    BY <2>1
  <2>3. PICK q \in Nat \ {0} : q = Turns(s, r)
    BY <1>1 DEF IsEpoch
  <2>4. h * q \in Nat \ {0}
    BY Positive
  <2>5. ActiveTotal(s, r) = h * q
    BY <1>1, <2>1, <2>2, <2>3 DEF IsEpoch
  <2>6. QED
    BY <2>1, <2>2, <2>3, <2>4, <2>5
<1>3. PICK S \in Nat, B \in Nat, b \in Nat, w \in Nat :
         /\ S = Share(s, r) /\ B = Batches(s, r) /\ b = Bucket(s, r) /\ w = Whole(s, r)
         /\ q <= B /\ b = q * m
         /\ S = IF s.sharding THEN b ELSE (w - d + p - 1) \div p
  BY <1>0, <1>1, <1>2 DEF IsEpoch, Share, Bucket
<1>4. PICK x \in Nat : x = h * u /\ c = A * e + x /\ x <= A - 1
  <2>1. h * u \in Nat
    OBVIOUS
  <2>2. c = (h * q) * e + h * u
    <3>1. c = h * (e * q + u)
      BY <1>2
    <3>2. h * (e * q + u) = (h * q) * e + h * u
      OBVIOUS
    <3>3. QED
      BY <3>1, <3>2
  <2>3. h * (q - u - 1) >= 0 /\ h * (q - u - 1) = h * q - h * u - h
    BY <1>2
  <2>4. h * q \in Nat /\ A * e = (h * q) * e
    BY <1>2
  <2>5. h * u <= A - 1
    BY <1>2, <2>1, <2>3, <2>4
  <2>6. c = A * e + h * u
    BY <2>2, <2>4
  <2>7. QED
    BY <2>1, <2>5, <2>6
<1>5. c \div A = e /\ c % A = x
  <2>1. x \in 0 .. A - 1 /\ e \in Int
    BY <1>4
  <2>2. QED
    BY <1>4, <2>1, DivExact
<1>6. PICK a \in Nat : a = u * m /\ x = p * a /\ x \div p = a
  <2>1. PICK a \in Nat : a = u * m
    OBVIOUS
  <2>2. x = p * a
    <3>1. (m * p) * u = p * (u * m)
      OBVIOUS
    <3>2. QED
      BY <1>2, <1>4, <2>1, <3>1
  <2>3. (p * a + 0) \div p = a
    <3>1. a \in Int /\ 0 \in 0 .. p - 1
      OBVIOUS
    <3>2. QED
      BY <3>1, DivExact
  <2>4. QED
    BY <2>1, <2>2, <2>3
<1> DEFINE Left == IF s.sharding
                   THEN [i \in 1 .. b - a |-> <<e, d * b + RandPerm(b, e)[a + i - 1]>>]
                   ELSE [i \in 1 .. (w - x - d + p - 1) \div p |->
                           <<e, RandPerm(w, e)[x + d + (i - 1) * p]>>]
<1>7. Pass(s, r, c) = CutIn(m, Left)
  <2>1. s.total \div ChunkOf(r) = q /\ (s.total \div h) * m = b /\ (s.total \div m) * m = w
    BY <1>0, <1>2, <1>3 DEF Turns, Bucket, Whole
  <2>2. Pass(s, r, c) = RandomSampler(s, r, c)
    BY DEF Pass, Repeats
  <2>3. QED
    BY <1>0, <1>2, <1>5, <1>6, <2>1, <2>2 DEF RandomSampler
<1>8. Left = SamplesFrom(s, r, e, u)
  <2>1. CASE s.sharding
    <3>1. SamplesFrom(s, r, e, u) = [i \in 1 .. b - a |-> SampleAt(s, r, e, a + i - 1)]
      BY <1>0, <1>3, <1>6, <2>1 DEF SamplesFrom
    <3>2. \A i \in 1 .. b - a :
             SampleAt(s, r, e, a + i - 1) = <<e, d * b + RandPerm(b, e)[a + i - 1]>>
      BY <1>0, <1>3, <2>1 DEF SampleAt
    <3>3. QED
      BY <2>1, <3>1, <3>2
  <2>2. CASE ~ s.sharding
    <3>1. (w - x - d + p - 1) \div p = S - a
      <4>1. PICK z \in Int : z = w - d + p - 1
        OBVIOUS
      <4>2. (z - p * a) \div p = z \div p - a
        <5>1. a \in Int
          OBVIOUS
        <5>2. QED
          BY <5>1, DivShift
      <4>3. w - x - d + p - 1 = z - p * a
        BY <1>6, <4>1
      <4>4. QED
        BY <1>3, <2>2, <4>1, <4>2, <4>3
    <3>2. SamplesFrom(s, r, e, u) = [i \in 1 .. S - a |-> SampleAt(s, r, e, a + i - 1)]
      BY <1>0, <1>3, <1>6 DEF SamplesFrom
    <3>3. ASSUME NEW i \in 1 .. S - a
          PROVE  SampleAt(s, r, e, a + i - 1) = <<e, RandPerm(w, e)[x + d + (i - 1) * p]>>
      <4>1. d + (a + i - 1) * p = x + d + (i - 1) * p
        <5>1. (a + i - 1) * p = p * a + (i - 1) * p
          OBVIOUS
        <5>2. p * a \in Int /\ (i - 1) * p \in Int
          OBVIOUS
        <5>3. QED
          BY <1>6, <5>1, <5>2
      <4>2. SampleAt(s, r, e, a + i - 1) = <<e, RandPerm(w, e)[d + (a + i - 1) * p]>>
        BY <1>0, <1>3, <2>2 DEF SampleAt
      <4>3. QED
        BY <4>1, <4>2
    <3>4. QED
      BY <2>2, <3>1, <3>2, <3>3
  <2>3. QED
    BY <2>1, <2>2 DEF Repeats
<1> HIDE DEF Left
<1>9. u <= Batches(s, r)
  BY <1>2, <1>3
<1>10. QED
  BY <1>0, <1>7, <1>8, <1>9, RestIsCut

(* An iterator with t microbatches of every rank behind it: it is in epoch e *)
(* before turn u.  Epochs overlap by a turn, for a rank may have one more    *)
(* microbatch in an epoch than others, and goes on with it.                  *)
IsBefore(s, r, t, e, u) ==
  e \in Nat /\ u \in Nat /\ u <= Batches(s, r) /\ e * Turns(s, r) + u = t

StandsIn(s, r, t, it) ==
  /\ it.consumed = ChunkOf(r) * t
  /\ \E e, u \in Nat : IsBefore(s, r, t, e, u) /\ it.left = RestOf(s, r, e, u)

(* The microbatch that is drawn then. *)
IsTurn(s, r, t, b) ==
  \E e, u \in Nat : IsBefore(s, r, t, e, u) /\ u < Batches(s, r) /\ b = Batch(s, r, e, u)

LEMMA NewPass ==
  ASSUME NEW s, NEW r, Repeats(s, r), NEW t \in Nat
  PROVE  \E e, u \in Nat :
           /\ IsBefore(s, r, t, e, u) /\ u < Batches(s, r)
           /\ Pass(s, r, ChunkOf(r) * t) = RestOf(s, r, e, u)
<1>1. PICK q \in Nat \ {0}, B \in Nat : q = Turns(s, r) /\ B = Batches(s, r) /\ q <= B
  BY EpochFacts DEF IsEpoch
<1>2. PICK e \in Nat, u \in 0 .. q - 1 : t = q * e + u
  BY DivNat
<1>3. u \in Nat /\ u < q /\ e * q + u = t
  BY <1>2
<1>4. PICK c : c = ChunkOf(r) * t
  OBVIOUS
<1>5. u < Turns(s, r) /\ c = ChunkOf(r) * (e * Turns(s, r) + u)
  BY <1>1, <1>3, <1>4
<1>6. Pass(s, r, c) = RestOf(s, r, e, u)
  BY <1>3, <1>5, RandomPass
<1>7. IsBefore(s, r, t, e, u) /\ u < Batches(s, r)
  BY <1>1, <1>3 DEF IsBefore
<1>8. QED
  BY <1>3, <1>4, <1>6, <1>7

LEMMA NewIterator ==
  ASSUME NEW s, NEW r, Repeats(s, r), NEW t \in Nat
  PROVE  StandsIn(s, r, t, Iterator(s, r, ChunkOf(r) * t))
<1>1. PICK it, c : it = Iterator(s, r, c) /\ c = ChunkOf(r) * t
  OBVIOUS
<1>2. it.left = Pass(s, r, c) /\ it.consumed = c
  BY <1>1 DEF Iterator
<1>3. \E e, u \in Nat : IsBefore(s, r, t, e, u) /\ Pass(s, r, c) = RestOf(s, r, e, u)
  BY <1>1, NewPass
<1>4. StandsIn(s, r, t, it)
  BY <1>1, <1>2, <1>3 DEF StandsIn
<1>5. QED
  BY <1>1, <1>4

LEMMA RandomStep ==
  ASSUME NEW s, NEW r, Repeats(s, r), NEW t \in Nat, NEW it, StandsIn(s, r, t, it)
  PROVE  /\ IsTurn(s, r, t, NextBatch(s, r, it).batch)
         /\ StandsIn(s, r, t + 1, NextBatch(s, r, it).it)
<1>1. PICK B \in Nat, q \in Nat, h \in Nat :
         B = Batches(s, r) /\ q = Turns(s, r) /\ h = ChunkOf(r)
  BY EpochFacts DEF IsEpoch, Repeats, IsDataRank, ChunkOf
<1>2. PICK now : now = Refilled(s, r, it)
  OBVIOUS
<1>3. /\ now.consumed = h * t
      /\ \E e, u \in Nat : /\ IsBefore(s, r, t, e, u) /\ u < Batches(s, r)
                           /\ now.left = RestOf(s, r, e, u)
  <2>1. PICK e \in Nat, u \in Nat : IsBefore(s, r, t, e, u) /\ it.left = RestOf(s, r, e, u)
    BY DEF StandsIn
  <2>2. u <= B /\ it.consumed = h * t
    BY <1>1, <2>1 DEF IsBefore, StandsIn
  <2>3. PICK n \in Nat : n = B - u
    BY <2>2
  <2> DEFINE f == [k \in 1 .. n |-> Batch(s, r, e, u + k - 1)]
  <2>4. f = it.left
    BY <1>1, <2>1, <2>3 DEF RestOf
  <2>5. DOMAIN f = 1 .. n /\ f = [k \in DOMAIN f |-> f[k]]
    OBVIOUS
  <2> HIDE DEF f
  <2>6. n = 0 <=> it.left = << >>
    BY <2>4, <2>5, SeqFacts
  <2>7. CASE n = 0
    <3>1. PICK c : c = ChunkOf(r) * t /\ c = it.consumed
      BY <1>1, <2>2
    <3>2. now = Iterator(s, r, c)
      BY <1>2, <2>6, <2>7, <3>1 DEF Refilled, Repeats
    <3>3. now.left = Pass(s, r, c) /\ now.consumed = c
      BY <3>2 DEF Iterator
    <3>4. \E x, y \in Nat : /\ IsBefore(s, r, t, x, y) /\ y < Batches(s, r)
                            /\ Pass(s, r, c) = RestOf(s, r, x, y)
      BY <3>1, NewPass
    <3>5. QED
      BY <2>2, <3>1, <3>3, <3>4
  <2>8. CASE n # 0
    <3>1. now = it
      BY <1>2, <2>6, <2>8 DEF Refilled
    <3>2. u < Batches(s, r)
      BY <1>1, <2>3, <2>8
    <3>3. QED
      BY <2>1, <2>2, <3>1, <3>2
  <2>9. QED
    BY <2>7, <2>8
<1>4. PICK e \in Nat, u \in Nat :
         IsBefore(s, r, t, e, u) /\ u < Batches(s, r) /\ now.left = RestOf(s, r, e, u)
  BY <1>3
<1>5. PICK n \in Nat : n = B - u /\ n > 0
  BY <1>1, <1>4
<1> DEFINE f == [k \in 1 .. n |-> Batch(s, r, e, u + k - 1)]
<1>6. f = now.left
  BY <1>1, <1>4, <1>5 DEF RestOf
<1>7. /\ DOMAIN f = 1 .. n /\ f = [k \in DOMAIN f |-> f[k]]
      /\ f[1] = Batch(s, r, e, u)
      /\ \A k \in 1 .. n - 1 : f[k + 1] = Batch(s, r, e, (u + 1) + k - 1)
  <2>1. 1 \in 1 .. n /\ u + 1 - 1 = u
    BY <1>5
  <2>2. f[1] = Batch(s, r, e, u + 1 - 1)
    BY <2>1
  <2>3. \A k \in 1 .. n - 1 : k + 1 \in 1 .. n /\ u + (k + 1) - 1 = (u + 1) + k - 1
    OBVIOUS
  <2>4. \A k \in 1 .. n - 1 : f[k + 1] = Batch(s, r, e, u + (k + 1) - 1)
    BY <2>3
  <2>5. QED
    BY <2>1, <2>2, <2>3, <2>4
<1> HIDE DEF f
<1>8. Head(f) = f[1] /\ Tail(f) = [k \in 1 .. n - 1 |-> f[k + 1]]
  BY <1>5, <1>7, SeqFacts
<1>9. Head(now.left) = Batch(s, r, e, u) /\ Tail(now.left) = RestOf(s, r, e, u + 1)
  <2>1. RestOf(s, r, e, u + 1) = [k \in 1 .. n - 1 |-> Batch(s, r, e, (u + 1) + k - 1)]
    <3>1. Batches(s, r) - (u + 1) = n - 1
      BY <1>1, <1>5
    <3>2. QED
      BY <3>1 DEF RestOf
  <2>2. QED
    BY <1>6, <1>7, <1>8, <2>1
<1>10. PICK x : x = NextBatch(s, r, it)
  OBVIOUS
<1>11. x = [batch |-> Head(now.left), it |-> [left |-> Tail(now.left), consumed |-> now.consumed + h]]
  <2>1. NextBatch(s, r, it)
          = [batch |-> Head(Refilled(s, r, it).left),
             it |-> [left |-> Tail(Refilled(s, r, it).left),
                     consumed |-> Refilled(s, r, it).consumed + ChunkOf(r)]]
    BY DEF NextBatch
  <2>2. QED
    BY <1>1, <1>2, <1>10, <2>1
<1>12. IsTurn(s, r, t, x.batch)
  BY <1>4, <1>9, <1>11 DEF IsTurn
<1>13. IsBefore(s, r, t + 1, e, u + 1)
  <2>1. e * q + u = t /\ u + 1 <= B
    BY <1>1, <1>4 DEF IsBefore
  <2>2. e * q + (u + 1) = t + 1
    BY <2>1
  <2>3. QED
    BY <1>1, <2>1, <2>2 DEF IsBefore
<1>14. x.it.consumed = ChunkOf(r) * (t + 1)
  <2>1. h * (t + 1) = h * t + h
    OBVIOUS
  <2>2. x.it.consumed = now.consumed + h
    BY <1>11
  <2>3. now.consumed = h * t
    BY <1>3
  <2>4. x.it.consumed = h * (t + 1)
    BY <2>1, <2>2, <2>3
  <2>5. QED
    BY <1>1, <2>4
<1>15. x.it.left = RestOf(s, r, e, u + 1)
  <2>1. x.it.left = Tail(now.left)
    BY <1>11
  <2>2. QED
    BY <1>9, <2>1, Zenon
<1>16. StandsIn(s, r, t + 1, x.it)
  <2>1. u + 1 \in Nat
    OBVIOUS
  <2>2. QED
    BY <1>13, <1>14, <1>15, <2>1, Zenon DEF StandsIn
<1>17. QED
  BY <1>10, <1>12, <1>16

(* n microbatches from the t-th on. *)
DrawsTurns(s, r, t, n, x) ==
  /\ x.drawn = [k \in 1 .. n |-> x.drawn[k]]
  /\ \A k \in 1 .. n : IsTurn(s, r, t + k - 1, x.drawn[k])
  /\ StandsIn(s, r, t + n, x.it)

LEMMA RandomDraws ==
  ASSUME NEW s, NEW r, Repeats(s, r), NEW t \in Nat, NEW it, StandsIn(s, r, t, it),
         NEW n \in Nat
  PROVE  DrawsTurns(s, r, t, n, Draws(s, r, it, n))
<1>1. PICK g : DrawsBy(s, r, it, n, g)
  BY DrawsFacts, Zenon
<1>2. /\ Draws(s, r, it, n) = g[n]
      /\ g[0] = [drawn |-> << >>, it |-> it]
      /\ \A i \in 1 .. n : g[i] = TakeOne(s, r, g[i - 1])
  BY <1>1, Zenon DEF DrawsBy
<1> DEFINE T == {m \in Nat : m <= n => DrawsTurns(s, r, t, m, g[m])}
<1>3. 0 \in T
  <2>1. g[0].drawn = << >> /\ g[0].it = it
    BY <1>2
  <2>2. << >> = [k \in 1 .. 0 |-> << >>[k]] /\ t + 0 = t /\ 1 .. 0 = {}
    OBVIOUS
  <2>3. DrawsTurns(s, r, t, 0, g[0])
    BY <2>1, <2>2 DEF DrawsTurns
  <2>4. QED
    BY <2>3
<1>4. ASSUME NEW m \in Nat, m \in T PROVE m + 1 \in T
  <2>1. ASSUME m + 1 <= n PROVE DrawsTurns(s, r, t, m + 1, g[m + 1])
    <3>1. PICK x, y : x = g[m] /\ y = g[m + 1]
      OBVIOUS
    <3>2. DrawsTurns(s, r, t, m, x)
      <4>1. m <= n
        BY <2>1
      <4>2. QED
        BY <1>4, <3>1, <4>1
    <3>3. y = TakeOne(s, r, x)
      <4>1. m + 1 \in 1 .. n /\ (m + 1) - 1 = m
        BY <2>1
      <4>2. g[m + 1] = TakeOne(s, r, g[(m + 1) - 1])
        BY <1>2, <4>1
      <4>3. QED
        BY <3>1, <4>1, <4>2
    <3>4. PICK j, z, f :
             j = t + m /\ j \in Nat /\ z = NextBatch(s, r, x.it) /\ f = x.drawn
      OBVIOUS
    <3>5. y.drawn = Append(f, z.batch) /\ y.it = z.it
      BY <3>3, <3>4 DEF TakeOne
    <3>6. IsTurn(s, r, j, z.batch) /\ StandsIn(s, r, j + 1, z.it)
      <4>1. StandsIn(s, r, j, x.it)
        BY <3>2, <3>4 DEF DrawsTurns
      <4>2. QED
        BY <3>4, <4>1, RandomStep
    <3>7. /\ DOMAIN f = 1 .. m /\ f = [k \in DOMAIN f |-> f[k]]
          /\ \A k \in 1 .. m : IsTurn(s, r, t + k - 1, f[k])
      BY <3>2, <3>4 DEF DrawsTurns
    <3>8. Append(f, z.batch) = [k \in 1 .. m + 1 |-> IF k <= m THEN f[k] ELSE z.batch]
      BY <3>7, SeqFacts
    <3>9. /\ y.drawn = [k \in 1 .. m + 1 |-> y.drawn[k]]
          /\ \A k \in 1 .. m + 1 : y.drawn[k] = IF k <= m THEN f[k] ELSE z.batch
      BY <3>5, <3>8
    <3>10. ASSUME NEW k \in 1 .. m + 1 PROVE IsTurn(s, r, t + k - 1, y.drawn[k])
      <4>1. CASE k <= m
        <5>1. k \in 1 .. m /\ y.drawn[k] = f[k]
          BY <3>9, <4>1
        <5>2. QED
          BY <3>7, <5>1
      <4>2. CASE k > m
        <5>1. t + k - 1 = j /\ y.drawn[k] = z.batch
          BY <3>4, <3>9, <4>2
        <5>2. QED
          BY <3>6, <5>1
      <4>3. QED
        BY <4>1, <4>2
    <3>11. StandsIn(s, r, t + (m + 1), y.it)
      <4>1. j + 1 = t + (m + 1)
        BY <3>4
      <4>2. QED
        BY <3>5, <3>6, <4>1
    <3>12. QED
      BY <3>1, <3>9, <3>10, <3>11 DEF DrawsTurns
  <2>2. QED
    BY <2>1
<1>5. n \in T
  <2> HIDE DEF T
  <2>1. Nat \subseteq T
    BY <1>3, <1>4, NatInductionSet
  <2>2. QED
    BY <2>1
<1>6. QED
  BY <1>2, <1>5

(* The first N epochs are permuted. *)
IsPermuted(s, N) ==
  \A n \in 0 .. s.total, e \in 0 .. N :
     /\ RandPerm(n, e) \in [0 .. n - 1 -> 0 .. n - 1]
     /\ \A i, k \in 0 .. n - 1 : RandPerm(n, e)[i] = RandPerm(n, e)[k] => i = k

LEMMA JobPermuted ==
  ASSUME NEW j \in Jobs
  PROVE  IsPermuted(j.s, j.samples)
BY PermutationAssumption DEF IsPermuted

(* The place of a sample among those that r reads in an epoch. *)
LEMMA PlaceFacts ==
  ASSUME NEW s, NEW r, Repeats(s, r), NEW e, NEW u \in Nat, u < Batches(s, r),
         NEW i \in 1 .. r.mbs
  PROVE  \E a \in Nat : /\ a = r.mbs * u + (i - 1) /\ a < Share(s, r)
                        /\ Batch(s, r, e, u)[i] = SampleAt(s, r, e, a)
<1>1. PICK m \in Nat \ {0}, B \in Nat, S \in Nat :
         m = r.mbs /\ B = Batches(s, r) /\ S = Share(s, r) /\ B * m <= S
  BY EpochFacts DEF IsEpoch, Repeats, IsDataRank
<1>2. u * m \in Nat /\ u * m = m * u
  OBVIOUS
<1>3. PICK a \in Nat : a = m * u + (i - 1) /\ a = u * m + i - 1
  BY <1>1, <1>2
<1>4. a < S
  <2>1. (B - u - 1) * m >= 0 /\ (B - u - 1) * m = B * m - u * m - m
    BY <1>1
  <2>2. B * m \in Int
    OBVIOUS
  <2>3. QED
    BY <1>1, <1>2, <1>3, <2>1, <2>2
<1>5. Batch(s, r, e, u)[i] = SampleAt(s, r, e, a)
  BY <1>1, <1>3 DEF Batch
<1>6. QED
  BY <1>1, <1>3, <1>4, <1>5

(* A sample is read in one epoch, by one data-parallel rank and at one place. *)
SameSample(s, N, r, e, u, i, v, f, y, k) ==
  /\ Repeats(s, r) /\ Repeats(s, v) /\ r.dp = v.dp /\ r.mbs = v.mbs
  /\ N \in Nat /\ IsPermuted(s, N) /\ e \in 0 .. N /\ f \in 0 .. N
  /\ u \in Nat /\ u < Batches(s, r) /\ y \in Nat /\ y < Batches(s, v)
  /\ i \in 1 .. r.mbs /\ k \in 1 .. v.mbs
  /\ Batch(s, r, e, u)[i] = Batch(s, v, f, y)[k]

LEMMA SamplesApart ==
  ASSUME NEW s, NEW N, NEW r, NEW e, NEW u, NEW i, NEW v, NEW f, NEW y, NEW k,
         SameSample(s, N, r, e, u, i, v, f, y, k)
  PROVE  e = f /\ r.rank = v.rank /\ u = y /\ i = k
<1> /\ Repeats(s, r) /\ Repeats(s, v) /\ r.dp = v.dp /\ r.mbs = v.mbs
    /\ N \in Nat /\ IsPermuted(s, N) /\ e \in 0 .. N /\ f \in 0 .. N
    /\ u \in Nat /\ u < Batches(s, r) /\ y \in Nat /\ y < Batches(s, v)
    /\ i \in 1 .. r.mbs /\ k \in 1 .. v.mbs
    /\ Batch(s, r, e, u)[i] = Batch(s, v, f, y)[k]
  BY DEF SameSample
<1>0. PICK m \in Nat \ {0}, p \in Nat \ {0}, d \in Nat, c \in Nat :
         /\ m = r.mbs /\ m = v.mbs /\ p = r.dp /\ p = v.dp
         /\ d = r.rank /\ c = v.rank /\ d <= p - 1 /\ c <= p - 1
  BY DEF Repeats, IsDataRank
<1>1. PICK a \in Nat : /\ a = m * u + (i - 1) /\ a < Share(s, r)
                       /\ Batch(s, r, e, u)[i] = SampleAt(s, r, e, a)
  BY <1>0, PlaceFacts
<1>2. PICK g \in Nat : /\ g = m * y + (k - 1) /\ g < Share(s, v)
                       /\ Batch(s, v, f, y)[k] = SampleAt(s, v, f, g)
  BY <1>0, PlaceFacts
<1>3. PICK b \in Nat, w \in Nat :
         /\ b = Bucket(s, r) /\ b = Bucket(s, v) /\ w = Whole(s, r) /\ w = Whole(s, v)
         /\ b <= s.total /\ w <= s.total
  <2>1. Bucket(s, r) = Bucket(s, v) /\ Whole(s, r) = Whole(s, v)
    BY DEF Bucket, Whole, Turns, ChunkOf
  <2>2. QED
    BY <2>1, EpochFacts DEF IsEpoch
<1>4. SampleAt(s, r, e, a) = SampleAt(s, v, f, g)
  BY <1>1, <1>2
<1>5. e = f
  BY <1>4 DEF SampleAt
<1>6. s.total \in Nat /\ b \in 0 .. s.total /\ w \in 0 .. s.total
  BY <1>3 DEF Repeats
<1>7. d = c /\ a = g
  <2>1. CASE s.sharding
    <3>1. PICK perm : /\ perm = RandPerm(b, e) /\ perm \in [0 .. b - 1 -> 0 .. b - 1]
                      /\ \A z, x \in 0 .. b - 1 : perm[z] = perm[x] => z = x
      BY <1>6 DEF IsPermuted
    <3>2. a \in 0 .. b - 1 /\ g \in 0 .. b - 1
      BY <1>1, <1>2, <1>3, <2>1 DEF Share
    <3>3. d * b + perm[a] = c * b + perm[g]
      BY <1>0, <1>3, <1>4, <1>5, <2>1, <3>1 DEF SampleAt
    <3>4. PICK t \in 0 .. b - 1, z \in 0 .. b - 1 : t = perm[a] /\ z = perm[g]
      BY <3>1, <3>2
    <3>5. b \in Nat \ {0} /\ d \in Int /\ c \in Int
      BY <3>2
    <3>6. b * d + t = b * c + z
      <4>1. d * b = b * d /\ c * b = b * c
        OBVIOUS
      <4>2. QED
        BY <3>3, <3>4, <4>1
    <3>7. (b * d + t) \div b = d /\ (b * d + t) % b = t
      BY <3>4, <3>5, DivExact
    <3>8. (b * c + z) \div b = c /\ (b * c + z) % b = z
      BY <3>4, <3>5, DivExact
    <3>9. d = c /\ t = z
      BY <3>6, <3>7, <3>8
    <3>10. QED
      BY <3>1, <3>2, <3>4, <3>9
  <2>2. CASE ~ s.sharding
    <3>1. PICK perm : /\ perm = RandPerm(w, e)
                      /\ \A z, x \in 0 .. w - 1 : perm[z] = perm[x] => z = x
      BY <1>6 DEF IsPermuted
    <3>2. d + a * p < w /\ c + g * p < w
      BY <1>0, <1>1, <1>2, <1>3, <2>2, EpochFacts DEF IsEpoch
    <3>3. perm[d + a * p] = perm[c + g * p]
      BY <1>0, <1>3, <1>4, <1>5, <2>2, <3>1 DEF SampleAt
    <3>4. PICK t \in Nat, z \in Nat : t = d + a * p /\ z = c + g * p
      <4>1. a * p \in Nat /\ g * p \in Nat
        OBVIOUS
      <4>2. QED
        BY <4>1
    <3>5. t = z
      BY <3>1, <3>2, <3>3, <3>4
    <3>6. d \in 0 .. p - 1 /\ c \in 0 .. p - 1 /\ a \in Int /\ g \in Int
      BY <1>0
    <3>7. p * a + d = p * g + c
      <4>1. a * p = p * a /\ g * p = p * g
        OBVIOUS
      <4>2. a * p \in Nat /\ g * p \in Nat
        OBVIOUS
      <4>3. QED
        BY <3>4, <3>5, <4>1, <4>2
    <3>8. (p * a + d) \div p = a /\ (p * a + d) % p = d
      BY <3>6, DivExact
    <3>9. (p * g + c) \div p = g /\ (p * g + c) % p = c
      BY <3>6, DivExact
    <3>10. QED
      BY <3>7, <3>8, <3>9
  <2>3. QED
    BY <2>1, <2>2 DEF Repeats
<1>8. u = y /\ i = k
  <2>1. i - 1 \in 0 .. m - 1 /\ k - 1 \in 0 .. m - 1 /\ u \in Int /\ y \in Int
    BY <1>0
  <2>2. (m * u + (i - 1)) \div m = u /\ (m * u + (i - 1)) % m = i - 1
    BY <2>1, DivExact
  <2>3. (m * y + (k - 1)) \div m = y /\ (m * y + (k - 1)) % m = k - 1
    BY <2>1, DivExact
  <2>4. u = y /\ i - 1 = k - 1
    BY <1>1, <1>2, <1>7, <2>2, <2>3
  <2>5. i \in Int /\ k \in Int
    OBVIOUS
  <2>6. QED
    BY <2>4, <2>5
<1>9. QED
  BY <1>0, <1>5, <1>7, <1>8

-----------------------------------------------------------------------------
(* The samples of an iteration.                                              *)

ReadEach(D, n, m) ==
  \A r \in DOMAIN D : /\ DOMAIN D[r].drawn = 1 .. n
                      /\ \A k \in 1 .. n : DOMAIN D[r].drawn[k] = 1 .. m

LEMMA SamplesOfAre ==
  ASSUME NEW D, NEW n, NEW m, ReadEach(D, n, m)
  PROVE  \A x : x \in SamplesOf(D) <=>
                  \E r \in DOMAIN D, k \in 1 .. n, i \in 1 .. m : x = D[r].drawn[k][i]
<1> DEFINE Of(r) == UNION {ToSet(D[r].drawn[k]) : k \in DOMAIN D[r].drawn}
<1> /\ \A r \in DOMAIN D : /\ DOMAIN D[r].drawn = 1 .. n
                           /\ \A k \in 1 .. n : DOMAIN D[r].drawn[k] = 1 .. m
  BY DEF ReadEach
<1>1. ASSUME NEW r \in DOMAIN D, NEW x
      PROVE  x \in Of(r) <=> \E k \in 1 .. n, i \in 1 .. m : x = D[r].drawn[k][i]
  <2>1. x \in Of(r) <=> \E k \in DOMAIN D[r].drawn : x \in ToSet(D[r].drawn[k])
    OBVIOUS
  <2>2. \A k \in 1 .. n :
           x \in ToSet(D[r].drawn[k]) <=> \E i \in 1 .. m : x = D[r].drawn[k][i]
    BY DEF ToSet
  <2>3. QED
    BY <2>1, <2>2
<1>2. \A x : x \in SamplesOf(D) <=> \E r \in DOMAIN D : x \in Of(r)
  BY DEF SamplesOf
<1> HIDE DEF Of
<1>3. QED
  BY <1>1, <1>2

(* The numbers below n, as samples. *)
Prefix(n) == {<<0, i>> : i \in 0 .. n - 1}

LEMMA PrefixCount ==
  ASSUME NEW n \in Nat
  PROVE  IsFiniteSet(Prefix(n)) /\ Cardinality(Prefix(n)) = n
<1> DEFINE f == [i \in 0 .. n - 1 |-> <<0, i>>]
<1>1. f \in Bijection(0 .. n - 1, Prefix(n))
  <2>1. f \in [0 .. n - 1 -> Prefix(n)]
    BY DEF Prefix
  <2>2. \A i, k \in 0 .. n - 1 : f[i] = f[k] => i = k
    OBVIOUS
  <2>3. \A x \in Prefix(n) : \E i \in 0 .. n - 1 : f[i] = x
    BY DEF Prefix
  <2> HIDE DEF f
  <2>4. QED
    BY <2>1, <2>2, <2>3 DEF Bijection, Injection, Surjection, IsInjective
<1>2. IsFiniteSet(0 .. n - 1) /\ Cardinality(0 .. n - 1) = n
  <2>1. 0 \in Int /\ n - 1 \in Int
    OBVIOUS
  <2>2. /\ IsFiniteSet(0 .. n - 1)
        /\ Cardinality(0 .. n - 1) = IF 0 > n - 1 THEN 0 ELSE n - 1 - 0 + 1
    BY <2>1, FS_Interval
  <2>3. QED
    BY <2>2
<1>3. ExistsBijection(0 .. n - 1, Prefix(n))
  BY <1>1 DEF ExistsBijection
<1>4. QED
  BY <1>2, <1>3, FS_Bijection

(* As many different things as there are triples. *)
Cells(n, p, m) == (1 .. n) \X ((0 .. p - 1) \X (1 .. m))

LEMMA CellCount ==
  ASSUME NEW n \in Nat, NEW p \in Nat, NEW m \in Nat
  PROVE  IsFiniteSet(Cells(n, p, m)) /\ Cardinality(Cells(n, p, m)) = n * (p * m)
<1>1. IsFiniteSet(1 .. n) /\ Cardinality(1 .. n) = n
  <2>1. 1 \in Int /\ n \in Int
    OBVIOUS
  <2>2. IsFiniteSet(1 .. n) /\ Cardinality(1 .. n) = IF 1 > n THEN 0 ELSE n - 1 + 1
    BY <2>1, FS_Interval
  <2>3. QED
    BY <2>2
<1>2. IsFiniteSet(1 .. m) /\ Cardinality(1 .. m) = m
  <2>1. 1 \in Int /\ m \in Int
    OBVIOUS
  <2>2. IsFiniteSet(1 .. m) /\ Cardinality(1 .. m) = IF 1 > m THEN 0 ELSE m - 1 + 1
    BY <2>1, FS_Interval
  <2>3. QED
    BY <2>2
<1>3. IsFiniteSet(0 .. p - 1) /\ Cardinality(0 .. p - 1) = p
  <2>1. 0 \in Int /\ p - 1 \in Int
    OBVIOUS
  <2>2. /\ IsFiniteSet(0 .. p - 1)
        /\ Cardinality(0 .. p - 1) = IF 0 > p - 1 THEN 0 ELSE p - 1 - 0 + 1
    BY <2>1, FS_Interval
  <2>3. QED
    BY <2>2
<1>4. PICK A, B, C : A = 1 .. n /\ B = 0 .. p - 1 /\ C = 1 .. m
  OBVIOUS
<1>5. IsFiniteSet(B \X C) /\ Cardinality(B \X C) = p * m
  BY <1>2, <1>3, <1>4, FS_Product
<1>6. IsFiniteSet(A \X (B \X C)) /\ Cardinality(A \X (B \X C)) = n * (p * m)
  <2>1. PICK Y : Y = B \X C
    OBVIOUS
  <2>2. IsFiniteSet(Y) /\ Cardinality(Y) = p * m /\ IsFiniteSet(A) /\ Cardinality(A) = n
    BY <1>1, <1>4, <1>5, <2>1
  <2>3. IsFiniteSet(A \X Y) /\ Cardinality(A \X Y) = Cardinality(A) * Cardinality(Y)
    BY <2>2, FS_Product
  <2>4. QED
    BY <2>1, <2>2, <2>3
<1>7. QED
  BY <1>4, <1>6 DEF Cells

Counts(f, n, p, m, S) ==
  /\ DOMAIN f = Cells(n, p, m) /\ f = [x \in DOMAIN f |-> f[x]]
  /\ \A y : y \in S <=> \E x \in Cells(n, p, m) : y = f[x]
  /\ \A x, y \in Cells(n, p, m) : f[x] = f[y] => x = y

LEMMA CountedByCells ==
  ASSUME NEW n \in Nat, NEW p \in Nat, NEW m \in Nat, NEW f, NEW S, Counts(f, n, p, m, S)
  PROVE  IsFiniteSet(S) /\ Cardinality(S) = n * (p * m)
<1> /\ DOMAIN f = Cells(n, p, m) /\ f = [x \in DOMAIN f |-> f[x]]
    /\ \A y : y \in S <=> \E x \in Cells(n, p, m) : y = f[x]
    /\ \A x, y \in Cells(n, p, m) : f[x] = f[y] => x = y
  BY DEF Counts
<1>1. PICK X : X = Cells(n, p, m)
  OBVIOUS
<1>2. f \in Bijection(X, S)
  <2>1. f \in [X -> S]
    BY <1>1
  <2>2. \A x, y \in X : f[x] = f[y] => x = y
    BY <1>1
  <2>3. \A y \in S : \E x \in X : f[x] = y
    BY <1>1
  <2>4. QED
    BY <2>1, <2>2, <2>3 DEF Bijection, Injection, Surjection, IsInjective
<1>3. ExistsBijection(X, S)
  BY <1>2 DEF ExistsBijection
<1>4. QED
  BY <1>1, <1>3, CellCount, FS_Bijection

AllRepeat(j, l) == \A r \in Readers(j, l) : Repeats(j.s, DataRank(j, l, r))

(* Sample x is the i-th of a microbatch of reader r: that before turn u of   *)
(* epoch e, with t microbatches behind it.                                   *)
ReadAt(j, l, x, t, r, e, u, i) ==
  /\ r \in Readers(j, l) /\ e \in Nat /\ u \in Nat /\ i \in 1 .. l.mbs
  /\ IsBefore(j.s, DataRank(j, l, r), t, e, u) /\ u < Batches(j.s, DataRank(j, l, r))
  /\ x = Batch(j.s, DataRank(j, l, r), e, u)[i]

ReadIn(j, l, x, t) == \E r, e, u, i : ReadAt(j, l, x, t, r, e, u, i)

LEMMA RankShares ==
  ASSUME NEW j \in Jobs, NEW l, Launched(j, l), NEW r \in Readers(j, l)
  PROVE  /\ DataRank(j, l, r).dp = SizesOf(j, l).dp /\ DataRank(j, l, r).mbs = l.mbs
         /\ DataRank(j, l, r).rank \in 0 .. SizesOf(j, l).dp - 1
         /\ DataRank(j, l, r) = [rank |-> DataRank(j, l, r).rank,
                                 dp |-> SizesOf(j, l).dp, mbs |-> l.mbs]
<1>1. /\ DataRank(j, l, r).dp = SizesOf(j, l).dp /\ DataRank(j, l, r).mbs = l.mbs
      /\ DataRank(j, l, r) = [rank |-> DataRank(j, l, r).rank,
                              dp |-> SizesOf(j, l).dp, mbs |-> l.mbs]
  BY DEF DataRank
<1>2. IsDataRank(DataRank(j, l, r))
  BY LaunchFacts
<1>3. QED
  BY <1>1, <1>2 DEF IsDataRank

(* The time is no less than the epoch, and tells nothing of samples twice.   *)
LEMMA ReadApart ==
  ASSUME NEW j \in Jobs, NEW l, Launched(j, l), AllRepeat(j, l),
         NEW x, NEW t \in Nat, NEW v \in Nat, t <= j.samples, v <= j.samples,
         NEW r, NEW e, NEW u, NEW i, ReadAt(j, l, x, t, r, e, u, i),
         NEW q, NEW f, NEW y, NEW k, ReadAt(j, l, x, v, q, f, y, k)
  PROVE  t = v /\ DataRank(j, l, r) = DataRank(j, l, q) /\ e = f /\ i = k
<1>1. r \in Readers(j, l) /\ q \in Readers(j, l) /\ e \in Nat /\ u \in Nat
      /\ f \in Nat /\ y \in Nat
  BY DEF ReadAt
<1>2. PICK a, b, s : a = DataRank(j, l, r) /\ b = DataRank(j, l, q) /\ s = j.s
  OBVIOUS
<1>3. /\ a = [rank |-> a.rank, dp |-> SizesOf(j, l).dp, mbs |-> l.mbs]
      /\ b = [rank |-> b.rank, dp |-> SizesOf(j, l).dp, mbs |-> l.mbs]
      /\ a.dp = b.dp /\ a.mbs = b.mbs /\ a.mbs = l.mbs
  BY <1>1, <1>2, RankShares
<1>4. Repeats(s, a) /\ Repeats(s, b)
  BY <1>1, <1>2 DEF AllRepeat
<1>5. PICK T \in Nat \ {0} : T = Turns(s, a) /\ T = Turns(s, b)
  <2>1. Turns(s, a) = Turns(s, b)
    BY <1>3 DEF Turns, ChunkOf
  <2>2. QED
    BY <1>4, <2>1, EpochFacts DEF IsEpoch
<1>6. /\ e * T + u = t /\ u < Batches(s, a) /\ i \in 1 .. a.mbs /\ x = Batch(s, a, e, u)[i]
      /\ f * T + y = v /\ y < Batches(s, b) /\ k \in 1 .. b.mbs /\ x = Batch(s, b, f, y)[k]
  BY <1>2, <1>3, <1>5 DEF ReadAt, IsBefore
<1>7. e <= t /\ f <= v
  <2>1. e * T = e + e * (T - 1) /\ e * (T - 1) >= 0
    BY <1>1
  <2>2. f * T = f + f * (T - 1) /\ f * (T - 1) >= 0
    BY <1>1
  <2>3. e * (T - 1) \in Int /\ f * (T - 1) \in Int
    BY <1>1
  <2>4. QED
    BY <1>1, <1>6, <2>1, <2>2, <2>3
<1>8. PICK N \in Nat : N = j.samples /\ e \in 0 .. N /\ f \in 0 .. N
  BY <1>1, <1>7, JobFacts
<1>9. IsPermuted(s, N)
  BY <1>2, <1>8, JobPermuted
<1>10. e = f /\ a.rank = b.rank /\ u = y /\ i = k
  <2>1. /\ Repeats(s, a) /\ Repeats(s, b) /\ a.dp = b.dp /\ a.mbs = b.mbs
        /\ e \in 0 .. N /\ f \in 0 .. N /\ i \in 1 .. a.mbs /\ k \in 1 .. b.mbs
    BY <1>3, <1>4, <1>6, <1>8
  <2>2. u \in Nat /\ u < Batches(s, a) /\ y \in Nat /\ y < Batches(s, b)
    BY <1>1, <1>6
  <2>3. Batch(s, a, e, u)[i] = Batch(s, b, f, y)[k]
    BY <1>6
  <2>4. SameSample(s, N, a, e, u, i, b, f, y, k)
    BY <1>9, <2>1, <2>2, <2>3 DEF SameSample
  <2>5. QED
    BY <2>4, SamplesApart, Zenon
<1>11. QED
  BY <1>2, <1>3, <1>6, <1>10

(* Every reader draws n microbatches, with t behind it. *)
DrawnBy(j, l, t, n, D) ==
  /\ DOMAIN D = Readers(j, l)
  /\ \A r \in Readers(j, l) : DrawsTurns(j.s, DataRank(j, l, r), t, n, D[r])
  /\ \A r, q \in Readers(j, l) :
        DataRank(j, l, r) = DataRank(j, l, q) => D[r].drawn = D[q].drawn

NewSamples(j, l, t, n, S) ==
  /\ IsFiniteSet(S) /\ Cardinality(S) = n * Chunk(j, l)
  /\ \A x \in S : \E v \in Nat : t <= v /\ v < t + n /\ ReadIn(j, l, x, v)

LEMMA DrawnSamples ==
  ASSUME NEW j \in Jobs, NEW l, Launched(j, l), AllRepeat(j, l), NEW t \in Nat, NEW n \in Nat,
         t + n <= j.samples, NEW D, DrawnBy(j, l, t, n, D)
  PROVE  NewSamples(j, l, t, n, SamplesOf(D))
<1>1. PICK p \in Nat \ {0}, m \in Nat \ {0} :
         p = SizesOf(j, l).dp /\ m = l.mbs /\ Chunk(j, l) = p * m
  BY LaunchFacts, LayoutFacts DEF Chunk, Launched
<1>2. PICK R : R = Readers(j, l) /\ R = DOMAIN D
  BY DEF DrawnBy
<1>3. /\ DOMAIN D = Readers(j, l)
      /\ \A r \in R : /\ D[r].drawn = [k \in 1 .. n |-> D[r].drawn[k]]
                      /\ \A k \in 1 .. n :
                            IsTurn(j.s, DataRank(j, l, r), t + k - 1, D[r].drawn[k])
  BY <1>2 DEF DrawnBy, DrawsTurns
<1>4. ASSUME NEW r \in R, NEW k \in 1 .. n
      PROVE  /\ DOMAIN D[r].drawn[k] = 1 .. m
             /\ \E e, u : \A i \in 1 .. m :
                   ReadAt(j, l, D[r].drawn[k][i], t + k - 1, r, e, u, i)
  <2>1. PICK e \in Nat, u \in Nat :
           /\ IsBefore(j.s, DataRank(j, l, r), t + k - 1, e, u)
           /\ u < Batches(j.s, DataRank(j, l, r))
           /\ D[r].drawn[k] = Batch(j.s, DataRank(j, l, r), e, u)
    BY <1>3 DEF IsTurn
  <2>2. DOMAIN D[r].drawn[k] = 1 .. m
    BY <1>1, <1>2, <2>1, RankShares DEF Batch
  <2>3. \A i \in 1 .. m : ReadAt(j, l, D[r].drawn[k][i], t + k - 1, r, e, u, i)
    BY <1>1, <1>2, <2>1 DEF ReadAt
  <2>4. QED
    BY <2>2, <2>3
<1>5. PICK S : S = SamplesOf(D)
  OBVIOUS
<1>6. \A x : x \in S <=> \E r \in R, k \in 1 .. n, i \in 1 .. m : x = D[r].drawn[k][i]
  <2>1. \A r \in DOMAIN D : /\ DOMAIN D[r].drawn = 1 .. n
                            /\ \A k \in 1 .. n : DOMAIN D[r].drawn[k] = 1 .. m
    BY <1>2, <1>3, <1>4
  <2>2. \A x : x \in SamplesOf(D) <=>
                  \E r \in DOMAIN D, k \in 1 .. n, i \in 1 .. m : x = D[r].drawn[k][i]
    <3>1. ReadEach(D, n, m)
      BY <2>1 DEF ReadEach
    <3>2. QED
      BY <3>1, SamplesOfAre
  <2>3. QED
    BY <1>2, <1>5, <2>2, Zenon
<1>7. PICK g : \A d \in 0 .. p - 1 : g[d] \in R /\ DataRank(j, l, g[d]).rank = d
  <2>1. {DataRank(j, l, r).rank : r \in R} = 0 .. p - 1
    BY <1>1, <1>2, ReadersAssumption DEF Launched
  <2>2. \A d \in 0 .. p - 1 : \E r \in R : DataRank(j, l, r).rank = d
    BY <2>1
  <2> DEFINE h == [d \in 0 .. p - 1 |-> CHOOSE r \in R : DataRank(j, l, r).rank = d]
  <2>3. \A d \in 0 .. p - 1 : h[d] \in R /\ DataRank(j, l, h[d]).rank = d
    BY <2>2
  <2>4. QED
    BY <2>3
<1> DEFINE f == [x \in Cells(n, p, m) |-> D[g[x[2][1]]].drawn[x[1]][x[2][2]]]
<1>8. ASSUME NEW x \in Cells(n, p, m)
      PROVE  \E k \in 1 .. n, d \in 0 .. p - 1, i \in 1 .. m : x = <<k, <<d, i>>>>
  BY DEF Cells
<1>9. ASSUME NEW k \in 1 .. n, NEW d \in 0 .. p - 1, NEW i \in 1 .. m
      PROVE  /\ <<k, <<d, i>>>> \in Cells(n, p, m)
             /\ f[<<k, <<d, i>>>>] = D[g[d]].drawn[k][i]
  BY DEF Cells
<1>10. DOMAIN f = Cells(n, p, m) /\ f = [x \in DOMAIN f |-> f[x]]
  OBVIOUS
<1> HIDE DEF f
<1>11. ASSUME NEW y
       PROVE  y \in S <=> \E x \in Cells(n, p, m) : y = f[x]
  <2>1. ASSUME y \in S PROVE \E x \in Cells(n, p, m) : y = f[x]
    <3>1. PICK r \in R, k \in 1 .. n, i \in 1 .. m : y = D[r].drawn[k][i]
      BY <1>6, <2>1
    <3>2. PICK d \in 0 .. p - 1 : d = DataRank(j, l, r).rank
      BY <1>1, <1>2, RankShares
    <3>3. DataRank(j, l, r) = DataRank(j, l, g[d])
      <4>1. PICK q : q = g[d] /\ q \in R /\ DataRank(j, l, q).rank = d
        BY <1>7
      <4>2. DataRank(j, l, r) = [rank |-> d, dp |-> SizesOf(j, l).dp, mbs |-> l.mbs]
        BY <1>2, <3>2, RankShares
      <4>3. DataRank(j, l, q) = [rank |-> d, dp |-> SizesOf(j, l).dp, mbs |-> l.mbs]
        <5>1. q \in Readers(j, l)
          BY <1>2, <4>1
        <5>2. DataRank(j, l, q) = [rank |-> DataRank(j, l, q).rank,
                                   dp |-> SizesOf(j, l).dp, mbs |-> l.mbs]
          BY <5>1, RankShares
        <5>3. QED
          BY <4>1, <5>2, Zenon
      <4>4. QED
        BY <4>1, <4>2, <4>3
    <3>4. D[r].drawn = D[g[d]].drawn
      BY <1>2, <1>7, <3>3 DEF DrawnBy
    <3>5. f[<<k, <<d, i>>>>] = D[g[d]].drawn[k][i] /\ <<k, <<d, i>>>> \in Cells(n, p, m)
      BY <1>9
    <3>6. D[r].drawn[k][i] = D[g[d]].drawn[k][i]
      BY <3>4
    <3>7. y = f[<<k, <<d, i>>>>]
      BY <3>1, <3>5, <3>6, Zenon
    <3>8. QED
      BY <3>5, <3>7, Zenon
  <2>2. ASSUME NEW x \in Cells(n, p, m), y = f[x] PROVE y \in S
    <3>1. PICK k \in 1 .. n, d \in 0 .. p - 1, i \in 1 .. m : x = <<k, <<d, i>>>>
      BY <1>8
    <3>2. y = D[g[d]].drawn[k][i]
      BY <1>9, <2>2, <3>1
    <3>3. QED
      BY <1>6, <1>7, <3>2
  <2>3. QED
    BY <2>1, <2>2
<1>12. ASSUME NEW x \in Cells(n, p, m), NEW y \in Cells(n, p, m), f[x] = f[y]
       PROVE  x = y
  <2>1. PICK k \in 1 .. n, d \in 0 .. p - 1, i \in 1 .. m : x = <<k, <<d, i>>>>
    BY <1>8
  <2>2. PICK a \in 1 .. n, b \in 0 .. p - 1, c \in 1 .. m : y = <<a, <<b, c>>>>
    BY <1>8
  <2>3. PICK z : z = D[g[d]].drawn[k][i] /\ z = D[g[b]].drawn[a][c]
    BY <1>9, <1>12, <2>1, <2>2
  <2>4. g[d] \in R /\ g[b] \in R /\ DataRank(j, l, g[d]).rank = d /\ DataRank(j, l, g[b]).rank = b
    BY <1>7
  <2>5. PICK e1, u1 : ReadAt(j, l, z, t + k - 1, g[d], e1, u1, i)
    <3>1. PICK q \in R : q = g[d]
      BY <2>4
    <3>2. \E e1, u1 : ReadAt(j, l, D[q].drawn[k][i], t + k - 1, q, e1, u1, i)
      BY <1>4, Zenon
    <3>3. QED
      BY <2>3, <3>1, <3>2, Zenon
  <2>6. PICK e2, u2 : ReadAt(j, l, z, t + a - 1, g[b], e2, u2, c)
    <3>1. PICK q \in R : q = g[b]
      BY <2>4
    <3>2. \E e2, u2 : ReadAt(j, l, D[q].drawn[a][c], t + a - 1, q, e2, u2, c)
      BY <1>4, Zenon
    <3>3. QED
      BY <2>3, <3>1, <3>2, Zenon
  <2>7. PICK v \in Nat, w \in Nat :
           v = t + k - 1 /\ w = t + a - 1 /\ v <= j.samples /\ w <= j.samples
    BY JobFacts
  <2>8. ReadAt(j, l, z, v, g[d], e1, u1, i) /\ ReadAt(j, l, z, w, g[b], e2, u2, c)
    BY <2>5, <2>6, <2>7
  <2>9. v = w /\ DataRank(j, l, g[d]) = DataRank(j, l, g[b]) /\ i = c
    BY <2>7, <2>8, ReadApart
  <2>10. k = a /\ d = b
    BY <2>4, <2>7, <2>9
  <2>11. QED
    BY <2>1, <2>2, <2>9, <2>10
<1>13. IsFiniteSet(S) /\ Cardinality(S) = n * (p * m)
  <2>1. Counts(f, n, p, m, S)
    BY <1>10, <1>11, <1>12 DEF Counts
  <2>2. QED
    BY <2>1, CountedByCells
<1>14. ASSUME NEW x \in S
       PROVE  \E v \in Nat : t <= v /\ v < t + n /\ ReadIn(j, l, x, v)
  <2>1. PICK r \in R, k \in 1 .. n, i \in 1 .. m : x = D[r].drawn[k][i]
    BY <1>6
  <2>2. PICK e, u : ReadAt(j, l, x, t + k - 1, r, e, u, i)
    BY <1>4, <2>1
  <2>3. PICK v \in Nat : v = t + k - 1 /\ t <= v /\ v < t + n
    OBVIOUS
  <2>4. ReadIn(j, l, x, v)
    BY <2>2, <2>3 DEF ReadIn
  <2>5. QED
    BY <2>3, <2>4
<1>15. QED
  BY <1>1, <1>5, <1>13, <1>14 DEF NewSamples

(* With equal shares no epoch overlaps the next. *)
AllEqual(j, l) == \A r \in Readers(j, l) : EqualEpochs(j.s, DataRank(j, l, r))

LEMMA OneTurn ==
  ASSUME NEW s, NEW r, Repeats(s, r), EqualEpochs(s, r), NEW t, NEW e, NEW u, NEW f, NEW y,
         IsBefore(s, r, t, e, u), u < Batches(s, r), IsBefore(s, r, t, f, y), y < Batches(s, r)
  PROVE  e = f /\ u = y
<1>1. PICK q \in Nat \ {0} : q = Turns(s, r) /\ q = Batches(s, r)
  BY EpochFacts DEF IsEpoch
<1>2. /\ e \in Int /\ u \in 0 .. q - 1 /\ e * q + u = t
      /\ f \in Int /\ y \in 0 .. q - 1 /\ f * q + y = t
  BY <1>1 DEF IsBefore
<1>3. e * q = q * e /\ f * q = q * f
  BY <1>2
<1>4. q * e + u = q * f + y
  BY <1>2, <1>3
<1>5. (q * e + u) \div q = e /\ (q * e + u) % q = u
  BY <1>2, DivExact
<1>6. (q * f + y) \div q = f /\ (q * f + y) % q = y
  BY <1>2, DivExact
<1>7. QED
  BY <1>4, <1>5, <1>6

LEMMA DrawnAll ==
  ASSUME NEW j \in Jobs, NEW l, Launched(j, l), AllRepeat(j, l), AllEqual(j, l),
         NEW t \in Nat, NEW n \in Nat, NEW D, DrawnBy(j, l, t, n, D),
         NEW x, NEW v \in Nat, t <= v, v < t + n, ReadIn(j, l, x, v)
  PROVE  x \in SamplesOf(D)
<1>1. PICK r, e, u, i : ReadAt(j, l, x, v, r, e, u, i)
  BY DEF ReadIn
<1>2. PICK s, a : s = j.s /\ a = DataRank(j, l, r)
  OBVIOUS
<1>3. /\ r \in Readers(j, l) /\ i \in 1 .. l.mbs
      /\ IsBefore(s, a, v, e, u) /\ u < Batches(s, a) /\ x = Batch(s, a, e, u)[i]
  BY <1>1, <1>2 DEF ReadAt
<1>4. Repeats(s, a) /\ EqualEpochs(s, a) /\ a.mbs = l.mbs
  BY <1>2, <1>3, RankShares DEF AllRepeat, AllEqual
<1>5. PICK k \in 1 .. n : k = v - t + 1 /\ t + k - 1 = v
  OBVIOUS
<1>6. r \in DOMAIN D /\ DrawsTurns(s, a, t, n, D[r])
  BY <1>2, <1>3 DEF DrawnBy
<1>7. DOMAIN D[r].drawn = 1 .. n /\ IsTurn(s, a, v, D[r].drawn[k])
  BY <1>5, <1>6 DEF DrawsTurns
<1>8. PICK f \in Nat, y \in Nat :
         IsBefore(s, a, v, f, y) /\ y < Batches(s, a) /\ D[r].drawn[k] = Batch(s, a, f, y)
  BY <1>7 DEF IsTurn
<1>9. f = e /\ y = u
  BY <1>3, <1>4, <1>8, OneTurn
<1>10. D[r].drawn[k] = Batch(s, a, e, u)
  BY <1>8, <1>9
<1>11. x \in ToSet(D[r].drawn[k])
  <2>1. DOMAIN Batch(s, a, e, u) = 1 .. l.mbs
    BY <1>4 DEF Batch
  <2>2. QED
    BY <1>3, <1>10, <2>1 DEF ToSet
<1>12. QED
  BY <1>5, <1>6, <1>7, <1>11 DEF SamplesOf

(* A reader of every data-parallel rank. *)
IsReader(j, l, g) ==
  \A d \in 0 .. SizesOf(j, l).dp - 1 : g[d] \in Readers(j, l) /\ DataRank(j, l, g[d]).rank = d

LEMMA ReaderOfEach ==
  ASSUME NEW j \in Jobs, NEW l, Launched(j, l)
  PROVE  \E g : IsReader(j, l, g)
<1>1. PICK R, P : R = Readers(j, l) /\ P = 0 .. SizesOf(j, l).dp - 1
  OBVIOUS
<1>2. {DataRank(j, l, r).rank : r \in R} = P
  BY <1>1, ReadersAssumption DEF Launched
<1>3. \A d \in P : \E r \in R : DataRank(j, l, r).rank = d
  BY <1>2
<1> DEFINE h == [d \in P |-> CHOOSE r \in R : DataRank(j, l, r).rank = d]
<1>4. \A d \in P : h[d] \in R /\ DataRank(j, l, h[d]).rank = d
  BY <1>3
<1> HIDE DEF h
<1>5. IsReader(j, l, h)
  BY <1>1, <1>4 DEF IsReader
<1>6. QED
  BY <1>5

(* The samples that are read by time t, if epochs are. *)
ReadBy(j, l, T, t) ==
  /\ \A x \in T : \E v \in Nat : v < t /\ ReadIn(j, l, x, v)
  /\ AllEqual(j, l) => \A x : \A v \in Nat : v < t /\ ReadIn(j, l, x, v) => x \in T

LEMMA EpochsInFull ==
  ASSUME NEW j \in Jobs, NEW l, Launched(j, l), AllRepeat(j, l), AllEqual(j, l),
         NEW t \in Nat, t <= j.samples, NEW S, ReadBy(j, l, S, t),
         NEW e \in Nat, NEW q \in Nat \ {0},
         \A r \in Readers(j, l) : q = Turns(j.s, DataRank(j, l, r)),
         e * q + q <= t
  PROVE  Cardinality({x \in S : x[1] = e}) = q * Chunk(j, l)
<1>1. PICK p \in Nat \ {0}, m \in Nat \ {0} :
         p = SizesOf(j, l).dp /\ m = l.mbs /\ Chunk(j, l) = p * m
  BY LaunchFacts, LayoutFacts DEF Chunk, Launched
<1>2. PICK g : IsReader(j, l, g)
  BY ReaderOfEach
<1>3. PICK R, s, A : R = Readers(j, l) /\ s = j.s /\ A = {x \in S : x[1] = e}
  OBVIOUS
<1>4. \A d \in 0 .. p - 1 : g[d] \in R /\ DataRank(j, l, g[d]).rank = d
  BY <1>1, <1>2, <1>3 DEF IsReader
<1>5. ASSUME NEW r \in R
      PROVE  /\ Repeats(s, DataRank(j, l, r)) /\ q = Turns(s, DataRank(j, l, r))
             /\ q = Batches(s, DataRank(j, l, r)) /\ DataRank(j, l, r).mbs = m
  <2>1. Repeats(s, DataRank(j, l, r)) /\ EqualEpochs(s, DataRank(j, l, r))
    BY <1>3 DEF AllRepeat, AllEqual
  <2>2. IsEpoch(s, DataRank(j, l, r))
    BY <2>1, EpochFacts
  <2>3. QED
    BY <1>1, <1>3, <2>1, <2>2, RankShares DEF IsEpoch
<1>6. ASSUME NEW r \in R, NEW u \in Nat, u < q, NEW i \in 1 .. m
      PROVE  \E v \in Nat : /\ v < t /\ v = e * q + u
                            /\ ReadAt(j, l, Batch(s, DataRank(j, l, r), e, u)[i], v, r, e, u, i)
  <2>1. e * q \in Nat
    OBVIOUS
  <2>2. PICK v \in Nat : v = e * q + u /\ v < t
    BY <1>6, <2>1
  <2>3. u <= Batches(s, DataRank(j, l, r)) /\ u < Batches(s, DataRank(j, l, r))
    BY <1>5, <1>6
  <2>4. IsBefore(s, DataRank(j, l, r), v, e, u)
    BY <1>5, <2>2, <2>3 DEF IsBefore
  <2>5. ReadAt(j, l, Batch(s, DataRank(j, l, r), e, u)[i], v, r, e, u, i)
    BY <1>1, <1>3, <2>3, <2>4 DEF ReadAt
  <2>6. QED
    BY <2>2, <2>5
<1> DEFINE f == [x \in Cells(q, p, m) |->
                   Batch(s, DataRank(j, l, g[x[2][1]]), e, x[1] - 1)[x[2][2]]]
<1>7. ASSUME NEW x \in Cells(q, p, m)
      PROVE  \E k \in 1 .. q, d \in 0 .. p - 1, i \in 1 .. m : x = <<k, <<d, i>>>>
  BY DEF Cells
<1>8. ASSUME NEW k \in 1 .. q, NEW d \in 0 .. p - 1, NEW i \in 1 .. m
      PROVE  /\ <<k, <<d, i>>>> \in Cells(q, p, m)
             /\ f[<<k, <<d, i>>>>] = Batch(s, DataRank(j, l, g[d]), e, k - 1)[i]
  BY DEF Cells
<1>9. DOMAIN f = Cells(q, p, m) /\ f = [x \in DOMAIN f |-> f[x]]
  OBVIOUS
<1> HIDE DEF f
<1>10. ASSUME NEW y, NEW x \in Cells(q, p, m), y = f[x] PROVE y \in A
  <2>1. PICK k \in 1 .. q, d \in 0 .. p - 1, i \in 1 .. m : x = <<k, <<d, i>>>>
    BY <1>7
  <2>2. y = Batch(s, DataRank(j, l, g[d]), e, k - 1)[i]
    BY <1>8, <1>10, <2>1
  <2>3. PICK r \in R : r = g[d]
    BY <1>4
  <2>4. k - 1 \in Nat /\ k - 1 < q
    OBVIOUS
  <2>5. PICK v \in Nat : v < t /\ ReadAt(j, l, y, v, r, e, k - 1, i)
    BY <1>6, <2>2, <2>3, <2>4
  <2>6. ReadIn(j, l, y, v)
    BY <2>5 DEF ReadIn
  <2>7. y \in S
    BY <2>5, <2>6 DEF ReadBy
  <2>8. y[1] = e
    <3>1. i \in 1 .. DataRank(j, l, r).mbs
      BY <1>5
    <3>2. y = SampleAt(s, DataRank(j, l, r), e, (k - 1) * DataRank(j, l, r).mbs + i - 1)
      BY <2>2, <2>3, <3>1 DEF Batch
    <3>3. QED
      BY <3>2 DEF SampleAt
  <2>9. QED
    BY <1>3, <2>7, <2>8
<1>11. ASSUME NEW y \in A PROVE \E x \in Cells(q, p, m) : y = f[x]
  <2>1. y \in S /\ y[1] = e
    BY <1>3
  <2>2. PICK v \in Nat : v < t /\ ReadIn(j, l, y, v)
    BY <2>1 DEF ReadBy
  <2>3. PICK r, c, u, i : ReadAt(j, l, y, v, r, c, u, i)
    BY <2>2 DEF ReadIn
  <2>4. /\ r \in R /\ c \in Nat /\ u \in Nat /\ i \in 1 .. m
        /\ u < Batches(s, DataRank(j, l, r)) /\ y = Batch(s, DataRank(j, l, r), c, u)[i]
    BY <1>1, <1>3, <2>3 DEF ReadAt
  <2>5. c = e
    <3>1. i \in 1 .. DataRank(j, l, r).mbs
      BY <1>5, <2>4
    <3>2. y = SampleAt(s, DataRank(j, l, r), c, u * DataRank(j, l, r).mbs + i - 1)
      BY <2>4, <3>1 DEF Batch
    <3>3. QED
      BY <2>1, <3>2 DEF SampleAt
  <2>6. PICK k \in 1 .. q : k - 1 = u
    <3>1. u < q
      BY <1>5, <2>4
    <3>2. u + 1 \in 1 .. q /\ (u + 1) - 1 = u
      BY <2>4, <3>1
    <3>3. QED
      BY <3>2
  <2>7. PICK d \in 0 .. p - 1 : d = DataRank(j, l, r).rank
    BY <1>1, <1>3, <2>4, RankShares
  <2>8. DataRank(j, l, r) = DataRank(j, l, g[d])
    <3>1. PICK z : z = g[d] /\ z \in R /\ DataRank(j, l, z).rank = d
      BY <1>4
    <3>2. r \in Readers(j, l) /\ z \in Readers(j, l)
      BY <1>3, <2>4, <3>1
    <3>3. DataRank(j, l, r) = [rank |-> DataRank(j, l, r).rank, dp |-> SizesOf(j, l).dp, mbs |-> l.mbs]
      BY <3>2, RankShares
    <3>4. DataRank(j, l, z) = [rank |-> DataRank(j, l, z).rank, dp |-> SizesOf(j, l).dp, mbs |-> l.mbs]
      BY <3>2, RankShares
    <3>5. DataRank(j, l, r) = DataRank(j, l, z)
      BY <2>7, <3>1, <3>3, <3>4, Zenon
    <3>6. QED
      BY <3>1, <3>5
  <2>9. y = f[<<k, <<d, i>>>>] /\ <<k, <<d, i>>>> \in Cells(q, p, m)
    BY <1>8, <2>4, <2>5, <2>6, <2>8
  <2>10. QED
    BY <2>9
<1>12. ASSUME NEW x \in Cells(q, p, m), NEW y \in Cells(q, p, m), f[x] = f[y]
       PROVE  x = y
  <2>1. PICK k \in 1 .. q, d \in 0 .. p - 1, i \in 1 .. m : x = <<k, <<d, i>>>>
    BY <1>7
  <2>2. PICK a \in 1 .. q, b \in 0 .. p - 1, c \in 1 .. m : y = <<a, <<b, c>>>>
    BY <1>7
  <2>3. PICK r \in R, w \in R : r = g[d] /\ w = g[b]
    BY <1>4
  <2>4. PICK z : /\ z = Batch(s, DataRank(j, l, r), e, k - 1)[i]
                 /\ z = Batch(s, DataRank(j, l, w), e, a - 1)[c]
    BY <1>8, <1>12, <2>1, <2>2, <2>3
  <2>5. DataRank(j, l, r).rank = d /\ DataRank(j, l, w).rank = b
    BY <1>4, <2>3
  <2>6. k - 1 \in Nat /\ k - 1 < q /\ a - 1 \in Nat /\ a - 1 < q
    OBVIOUS
  <2>7. PICK v \in Nat : v < t /\ v = e * q + (k - 1) /\ ReadAt(j, l, z, v, r, e, k - 1, i)
    BY <1>6, <2>4, <2>6
  <2>8. PICK o \in Nat : o < t /\ o = e * q + (a - 1) /\ ReadAt(j, l, z, o, w, e, a - 1, c)
    BY <1>6, <2>4, <2>6
  <2>9. v <= j.samples /\ o <= j.samples
    BY <2>7, <2>8, JobFacts
  <2>10. v = o /\ DataRank(j, l, r) = DataRank(j, l, w) /\ i = c
    BY <2>7, <2>8, <2>9, ReadApart
  <2>11. e * q \in Int
    OBVIOUS
  <2>12. k = a
    BY <2>7, <2>8, <2>10, <2>11
  <2>13. d = b
    BY <2>5, <2>10
  <2>14. QED
    BY <2>1, <2>2, <2>10, <2>12, <2>13
<1>13. Cardinality(A) = q * (p * m)
  <2>1. Counts(f, q, p, m, A)
    BY <1>9, <1>10, <1>11, <1>12 DEF Counts
  <2>2. QED
    BY <2>1, CountedByCells
<1>14. QED
  BY <1>1, <1>3, <1>13

(* The samples of an iteration of the sequential sampler. *)
Index(c, h, m, k, d, i) == c + (k - 1) * h + d * m + i - 1

Cover(c, n, p, m, h, b) ==
  /\ b \in Nat /\ b = n * h
  /\ \A k \in 1 .. n, d \in 0 .. p - 1, i \in 1 .. m : Index(c, h, m, k, d, i) \in c .. c + b - 1
  /\ \A x \in c .. c + b - 1 :
        \E k \in 1 .. n, d \in 0 .. p - 1, i \in 1 .. m : x = Index(c, h, m, k, d, i)

LEMMA SlicesCover ==
  ASSUME NEW c \in Nat, NEW n \in Nat, NEW p \in Nat \ {0}, NEW m \in Nat \ {0},
         NEW h, h = p * m
  PROVE  Cover(c, n, p, m, h, n * h)
<1>1. h \in Nat \ {0}
  BY Positive
<1>2. ASSUME NEW k \in 1 .. n, NEW d \in 0 .. p - 1, NEW i \in 1 .. m
      PROVE  Index(c, h, m, k, d, i) \in c .. c + n * h - 1
  <2>1. PICK a \in Nat : a = (k - 1) * h /\ a + h <= n * h
    <3>1. (k - 1) * h \in Nat /\ (n - k) * h >= 0
      BY <1>1
    <3>2. (n - k) * h = n * h - (k - 1) * h - h
      BY <1>1
    <3>3. n * h \in Int
      BY <1>1
    <3>4. QED
      BY <1>1, <3>1, <3>2, <3>3
  <2>2. PICK b \in Nat : b = d * m /\ b + m <= h
    <3>1. d * m \in Nat /\ (p - 1 - d) * m >= 0
      OBVIOUS
    <3>2. (p - 1 - d) * m = p * m - m - d * m
      OBVIOUS
    <3>3. p * m \in Int
      OBVIOUS
    <3>4. QED
      BY <3>1, <3>2, <3>3
  <2>3. n * h \in Nat
    BY <1>1
  <2>4. c + a + b + i - 1 \in c .. c + n * h - 1
    BY <1>1, <2>1, <2>2, <2>3
  <2>5. QED
    BY <2>1, <2>2, <2>4 DEF Index
<1>3. ASSUME NEW x \in c .. c + n * h - 1
      PROVE  \E k \in 1 .. n, d \in 0 .. p - 1, i \in 1 .. m : x = Index(c, h, m, k, d, i)
  <2>1. n * h \in Nat
    BY <1>1
  <2>2. PICK y \in Nat : y = x - c /\ y < n * h
    BY <2>1
  <2>3. PICK q \in Nat, z \in 0 .. h - 1 : q = y \div h /\ y = h * q + z
    BY <1>1, DivNat
  <2>4. q < n
    <3>1. ASSUME q >= n PROVE FALSE
      <4>1. h * (q - n) >= 0 /\ h * (q - n) = h * q - n * h
        BY <1>1, <3>1
      <4>2. h * q \in Int
        BY <1>1
      <4>3. QED
        BY <2>1, <2>2, <2>3, <4>1, <4>2
    <3>2. QED
      BY <3>1
  <2>5. PICK d \in Nat, g \in 0 .. m - 1 : d = z \div m /\ z = m * d + g
    BY DivNat
  <2>6. d < p
    <3>1. ASSUME d >= p PROVE FALSE
      <4>1. m * (d - p) >= 0 /\ m * (d - p) = m * d - p * m
        BY <3>1
      <4>2. m * d \in Int /\ p * m \in Int
        OBVIOUS
      <4>3. QED
        BY <2>5, <4>1, <4>2
    <3>2. QED
      BY <3>1
  <2>7. PICK k \in 1 .. n, i \in 1 .. m : k = q + 1 /\ i = g + 1
    BY <2>4
  <2>8. (k - 1) * h = h * q /\ d * m = m * d
    <3>1. k - 1 = q
      BY <2>7
    <3>2. QED
      BY <1>1, <3>1
  <2>9. h * q \in Int /\ m * d \in Int
    BY <1>1
  <2>10. x = c + (k - 1) * h + d * m + i - 1
    BY <2>2, <2>3, <2>5, <2>7, <2>8, <2>9
  <2>11. x = Index(c, h, m, k, d, i) /\ d \in 0 .. p - 1
    BY <2>6, <2>10 DEF Index
  <2>12. QED
    BY <2>7, <2>11
<1>4. PICK b \in Nat : b = n * h
  BY <1>1
<1>5. Cover(c, n, p, m, h, b)
  BY <1>2, <1>3, <1>4 DEF Cover
<1>6. QED
  BY <1>4, <1>5

(* Every reader draws its slices of n chunks from sample c on. *)
DrawnInOrder(j, l, c, n, D) ==
  /\ DOMAIN D = Readers(j, l)
  /\ \A r \in Readers(j, l) :
        D[r].drawn = [k \in 1 .. n |-> Slice(DataRank(j, l, r), c + (k - 1) * Chunk(j, l))]

LEMMA InOrderSamples ==
  ASSUME NEW j \in Jobs, NEW l, Launched(j, l), NEW c \in Nat, NEW n \in Nat, NEW D,
         DrawnInOrder(j, l, c, n, D)
  PROVE  Prefix(c) \cup SamplesOf(D) = Prefix(c + Chunk(j, l) * n)
<1>1. PICK p \in Nat \ {0}, m \in Nat \ {0}, h \in Nat \ {0} :
         p = SizesOf(j, l).dp /\ m = l.mbs /\ h = Chunk(j, l) /\ h = p * m
  BY LaunchFacts, LayoutFacts DEF Chunk, Launched
<1>2. PICK R, S : R = Readers(j, l) /\ S = SamplesOf(D)
  OBVIOUS
<1>3. ASSUME NEW r \in R, NEW k \in 1 .. n
      PROVE  D[r].drawn[k] = [i \in 1 .. m |->
                                <<0, Index(c, h, m, k, DataRank(j, l, r).rank, i)>>]
  <2>1. DataRank(j, l, r).mbs = m
    BY <1>1, <1>2, RankShares
  <2>2. D[r].drawn[k] = Slice(DataRank(j, l, r), c + (k - 1) * h)
    BY <1>1, <1>2 DEF DrawnInOrder
  <2>3. QED
    BY <2>1, <2>2 DEF Slice, Index
<1>4. ReadEach(D, n, m)
  <2>1. \A r \in DOMAIN D : r \in R /\ DOMAIN D[r].drawn = 1 .. n
    BY <1>2 DEF DrawnInOrder
  <2>2. \A r \in R : \A k \in 1 .. n : DOMAIN D[r].drawn[k] = 1 .. m
    BY <1>3
  <2>3. QED
    BY <2>1, <2>2 DEF ReadEach
<1>5. \A x : x \in S <=> \E r \in R, k \in 1 .. n, i \in 1 .. m : x = D[r].drawn[k][i]
  <2>1. \A x : x \in SamplesOf(D) <=>
                 \E r \in DOMAIN D, k \in 1 .. n, i \in 1 .. m : x = D[r].drawn[k][i]
    BY <1>4, SamplesOfAre
  <2>2. DOMAIN D = R
    BY <1>2 DEF DrawnInOrder
  <2>3. QED
    BY <1>2, <2>1, <2>2, Zenon
<1>6. PICK g : \A d \in 0 .. p - 1 : g[d] \in R /\ DataRank(j, l, g[d]).rank = d
  BY <1>1, <1>2, ReaderOfEach DEF IsReader
<1>7. PICK b \in Nat : b = n * h /\ b = h * n
  OBVIOUS
<1>8. Cover(c, n, p, m, h, b)
  BY <1>1, <1>7, SlicesCover
<1>9. ASSUME NEW x \in S PROVE x \in Prefix(c + b)
  <2>1. PICK r \in R, k \in 1 .. n, i \in 1 .. m : x = D[r].drawn[k][i]
    BY <1>5
  <2>2. PICK d \in 0 .. p - 1 : d = DataRank(j, l, r).rank
    BY <1>1, <1>2, RankShares
  <2>3. PICK z : z = Index(c, h, m, k, d, i) /\ x = <<0, z>>
    <3>1. D[r].drawn[k] = [y \in 1 .. m |-> <<0, Index(c, h, m, k, d, y)>>]
      BY <1>3, <2>2
    <3>2. x = <<0, Index(c, h, m, k, d, i)>>
      BY <2>1, <3>1
    <3>3. QED
      BY <3>2
  <2>4. z \in c .. c + b - 1
    BY <1>8, <2>3 DEF Cover
  <2>5. z \in 0 .. (c + b) - 1
    BY <2>4
  <2>6. QED
    BY <2>3, <2>5 DEF Prefix
<1>10. ASSUME NEW z \in c .. c + b - 1 PROVE <<0, z>> \in S
  <2>1. PICK k \in 1 .. n, d \in 0 .. p - 1, i \in 1 .. m : z = Index(c, h, m, k, d, i)
    BY <1>8 DEF Cover
  <2>2. PICK r \in R : r = g[d] /\ DataRank(j, l, r).rank = d
    BY <1>6
  <2>3. D[r].drawn[k] = [y \in 1 .. m |-> <<0, Index(c, h, m, k, d, y)>>]
    BY <1>3, <2>2
  <2>4. D[r].drawn[k][i] = <<0, z>>
    BY <2>1, <2>3
  <2>5. QED
    BY <1>5, <2>4
<1>11. ASSUME NEW x \in Prefix(c + b) PROVE x \in Prefix(c) \cup S
  <2>1. PICK z \in 0 .. (c + b) - 1 : x = <<0, z>>
    BY DEF Prefix
  <2>2. CASE z < c
    <3>1. z \in 0 .. c - 1
      BY <2>2
    <3>2. QED
      BY <2>1, <3>1 DEF Prefix
  <2>3. CASE z >= c
    <3>1. z \in c .. c + b - 1
      BY <2>3
    <3>2. QED
      BY <1>10, <2>1, <3>1
  <2>4. QED
    BY <2>2, <2>3
<1>12. ASSUME NEW x \in Prefix(c) PROVE x \in Prefix(c + b)
  <2>1. PICK z \in 0 .. c - 1 : x = <<0, z>>
    BY DEF Prefix
  <2>2. z \in 0 .. (c + b) - 1
    OBVIOUS
  <2>3. QED
    BY <2>1, <2>2 DEF Prefix
<1>13. QED
  BY <1>1, <1>2, <1>7, <1>9, <1>11, <1>12

-----------------------------------------------------------------------------
(* What is in the weights, at any time.                                      *)

(* The samples T in the weights when c are counted. *)
Weights(j, l, T, c) ==
  /\ IsFiniteSet(T) /\ Cardinality(T) = c
  /\ j.s.type = "single" => T = Prefix(c)
  /\ j.s.type = "cyclic" => c = 0 \/ \E t \in Nat : c = Chunk(j, l) * t /\ ReadBy(j, l, T, t)

SameReplica(R, d) ==
  \A r, q \in R : DataRank(job, layout, r) = DataRank(job, layout, q) => d[r] = d[q]

(* The loop of a random sampler goes on at time t. *)
ReadsOn(t) ==
  /\ t \in Nat /\ consumed = Chunk(job, layout) * t /\ ReadBy(job, layout, trained, t)
  /\ \A r \in Readers(job, layout) :
        StandsIn(job.s, DataRank(job, layout, r), t, iterators[r])

LoopOK ==
  phase = "training" =>
    /\ SameReplica(Readers(job, layout), iterators)
    /\ job.s.type = "cyclic" => AllRepeat(job, layout) /\ \E t : ReadsOn(t)

SamplesInv ==
  /\ Weights(job, layout, trained, consumed)
  /\ Weights(job, layout, saved.trained, saved.consumed)
  /\ SameReplica(DOMAIN drawn, drawn)
  /\ LoopOK

(* Nothing is in the weights of a job that has not begun. *)
LEMMA NoWeights ==
  ASSUME NEW j, NEW l
  PROVE  Weights(j, l, {}, 0)
<1>1. IsFiniteSet({}) /\ Cardinality({}) = 0
  BY FS_EmptySet
<1>2. Prefix(0) = {}
  BY DEF Prefix
<1>3. QED
  BY <1>1, <1>2 DEF Weights

LEMMA WeightsRead ==
  ASSUME NEW j \in Jobs, NEW l, Launched(j, l), j.s.type = "cyclic",
         NEW T, NEW c, Weights(j, l, T, c)
  PROVE  \E t \in Nat : c = Chunk(j, l) * t /\ ReadBy(j, l, T, t)
<1>1. CASE c = 0
  <2>1. T = {}
    BY <1>1, FS_EmptySet DEF Weights
  <2>2. ReadBy(j, l, T, 0)
    BY <2>1 DEF ReadBy
  <2>3. Chunk(j, l) * 0 = 0
    BY LaunchFacts
  <2>4. QED
    BY <1>1, <2>2, <2>3
<1>2. CASE c # 0
  BY <1>2 DEF Weights
<1>3. QED
  BY <1>1, <1>2

LEMMA InitSamples == Init => SamplesInv
<1> SUFFICES ASSUME Init PROVE SamplesInv
  OBVIOUS
<1>1. /\ trained = {} /\ consumed = 0 /\ saved.trained = {} /\ saved.consumed = 0
      /\ drawn = << >> /\ phase = "down"
  BY DEF Init, Checkpoint
<1>2. Weights(job, layout, {}, 0)
  BY NoWeights
<1>3. SameReplica(DOMAIN drawn, drawn)
  <2>1. DOMAIN drawn = {}
    BY <1>1
  <2>2. QED
    BY <2>1 DEF SameReplica
<1>4. QED
  BY <1>1, <1>2, <1>3 DEF SamplesInv, LoopOK

LEMMA NothingConsumed ==
  ASSUME NEW j \in Jobs, NEW c, OnTrack(j.b, 0, c)
  PROVE  c = 0
<1>1. IsBatch(j.b) /\ j.b.global \in Nat /\ j.b.rampup \in BOOLEAN /\ j.b.ramp \in Nat
  BY JobFacts DEF IsBatch
<1>2. CASE ~ j.b.rampup
  <2>1. 0 * j.b.global = 0
    BY <1>1
  <2>2. QED
    BY <1>2, <2>1 DEF OnTrack
<1>3. CASE j.b.rampup
  <2>1. RampConsumed(j.b)[0] = 0
    BY <1>1, RampConsumedFacts
  <2>2. RampIters(j.b) \in Nat /\ RampConsumed(j.b)[RampIters(j.b)] > j.b.ramp
    BY <1>1, <1>3, RampEnds
  <2>3. RampIters(j.b) # 0
    BY <1>1, <2>1, <2>2
  <2>4. QED
    BY <1>3, <2>1, <2>2, <2>3 DEF OnTrack
<1>4. QED
  BY <1>1, <1>2, <1>3

(* A random sampler goes on with the layout it was saved with. *)
LEMMA StartSamples ==
  ASSUME ProgressInv, SamplesInv, NEW l \in Layouts, Start(l)
  PROVE  SamplesInv'
<1>1. /\ layout' = l /\ consumed' = saved.consumed /\ trained' = saved.trained
      /\ drawn' = << >> /\ job' = job /\ saved' = saved
      /\ phase' \in {"building", "failed"} /\ LayoutAllowed(l)
  BY DEF Start
<1>2. /\ job \in Jobs /\ saved.iteration \in Nat /\ saved.consumed \in Nat
      /\ OnTrack(job.b, saved.iteration, saved.consumed)
  BY DEF ProgressInv, CountersOK
<1>3. Weights(job, layout, saved.trained, saved.consumed)
  BY DEF SamplesInv
<1>4. Weights(job, l, saved.trained, saved.consumed)
  <2>1. CASE job.s.type = "single"
    BY <1>3, <2>1 DEF Weights
  <2>2. CASE job.s.type = "cyclic" /\ saved.iteration > 0
    BY <1>1, <1>3, <2>2 DEF LayoutAllowed
  <2>3. CASE saved.iteration = 0
    <3>1. saved.consumed = 0
      BY <1>2, <2>3, NothingConsumed
    <3>2. saved.trained = {}
      BY <1>3, <3>1, FS_EmptySet DEF Weights
    <3>3. QED
      BY <3>1, <3>2, NoWeights
  <2>4. QED
    BY <1>2, <2>1, <2>2, <2>3, JobFacts
<1>5. SameReplica(DOMAIN drawn, drawn)'
  <2>1. DOMAIN drawn' = {}
    BY <1>1
  <2>2. QED
    BY <2>1 DEF SameReplica
<1>6. QED
  BY <1>1, <1>4, <1>5 DEF SamplesInv, LoopOK

(* A step out of the loop leaves the weights alone. *)
LEMMA WeightsAlone ==
  ASSUME SamplesInv, UNCHANGED <<job, layout, consumed, trained, drawn>>,
         phase' # "training", saved' = Checkpoint \/ saved' = saved
  PROVE  SamplesInv'
<1>1. Weights(job, layout, trained, consumed) /\ Weights(job, layout, saved.trained, saved.consumed)
  BY DEF SamplesInv
<1>2. Weights(job, layout, saved'.trained, saved'.consumed)
  <2>1. CASE saved' = Checkpoint
    <3>1. saved'.trained = trained /\ saved'.consumed = consumed
      BY <2>1 DEF Checkpoint
    <3>2. QED
      BY <1>1, <3>1
  <2>2. CASE saved' = saved
    BY <1>1, <2>2
  <2>3. QED
    BY <2>1, <2>2
<1>3. SameReplica(DOMAIN drawn, drawn)'
  BY DEF SamplesInv, SameReplica
<1>4. QED
  BY <1>1, <1>2, <1>3 DEF SamplesInv, LoopOK

LEMMA LoadersSamples ==
  ASSUME ProgressInv, SamplesInv, BuildLoaders
  PROVE  SamplesInv'
<1>1. /\ UNCHANGED <<job, layout, consumed, trained, drawn, saved>> /\ phase = "building"
      /\ \/ phase' = "failed"
         \/ /\ phase' = "training"
            /\ SamplerAccepted(job.s, [rank |-> 0, dp |-> SizesOf(job, layout).dp,
                                       mbs |-> layout.mbs], ResumeAt(saved))
            /\ iterators' = [r \in Readers(job, layout) |->
                               Iterator(job.s, DataRank(job, layout, r), ResumeAt(saved))]
  BY DEF BuildLoaders, Fail
<1>2. /\ CountersOK /\ Launched(job, layout) /\ job \in Jobs
      /\ consumed = saved.consumed /\ consumed \in Nat
  BY <1>1 DEF ProgressInv, RunningOK, CountersOK
<1>3. ResumeAt(saved) = consumed
  BY <1>2, ResumesAtConsumed
<1>4. CASE phase' = "failed"
  BY <1>1, <1>4, WeightsAlone
<1>5. CASE phase' # "failed"
  <2>1. \A r \in Readers(job, layout) :
           iterators'[r] = Iterator(job.s, DataRank(job, layout, r), consumed)
    BY <1>1, <1>3, <1>5
  <2>2. SameReplica(Readers(job, layout), iterators)'
    BY <1>1, <2>1 DEF SameReplica
  <2>3. ASSUME job.s.type = "cyclic" PROVE AllRepeat(job, layout) /\ \E t : ReadsOn(t)'
    <3>1. PICK one : one = [rank |-> 0, dp |-> SizesOf(job, layout).dp, mbs |-> layout.mbs]
      OBVIOUS
    <3>2. ActiveTotal(job.s, one) > 0
      BY <1>1, <1>5, <2>3, <3>1 DEF SamplerAccepted
    <3>3. AllRepeat(job, layout)
      <4> SUFFICES ASSUME NEW r \in Readers(job, layout)
                   PROVE  Repeats(job.s, DataRank(job, layout, r))
        BY DEF AllRepeat
      <4>1. ChunkOf(DataRank(job, layout, r)) = ChunkOf(one)
        BY <1>2, <3>1, RankShares DEF ChunkOf
      <4>2. ActiveTotal(job.s, DataRank(job, layout, r)) > 0
        BY <3>2, <4>1 DEF ActiveTotal
      <4>3. IsDataRank(DataRank(job, layout, r))
        BY <1>2, LaunchFacts
      <4>4. QED
        BY <1>2, <2>3, <4>2, <4>3, JobFacts DEF Repeats
    <3>4. PICK t \in Nat : consumed = Chunk(job, layout) * t /\ ReadBy(job, layout, trained, t)
      BY <1>2, <2>3, WeightsRead DEF SamplesInv
    <3>5. ASSUME NEW r \in Readers(job, layout)
          PROVE  StandsIn(job.s, DataRank(job, layout, r), t, iterators'[r])
      <4>1. Repeats(job.s, DataRank(job, layout, r))
        BY <3>3 DEF AllRepeat
      <4>2. ChunkOf(DataRank(job, layout, r)) = Chunk(job, layout)
        BY <1>2, LaunchFacts
      <4>3. iterators'[r] = Iterator(job.s, DataRank(job, layout, r),
                                     ChunkOf(DataRank(job, layout, r)) * t)
        BY <2>1, <3>4, <4>2
      <4>4. QED
        BY <4>1, <4>3, NewIterator
    <3>6. ReadsOn(t)'
      BY <1>1, <3>4, <3>5 DEF ReadsOn
    <3>7. QED
      BY <3>3, <3>6
  <2>4. LoopOK'
    BY <1>1, <2>2, <2>3 DEF LoopOK
  <2>5. QED
    BY <1>1, <2>4 DEF SamplesInv, SameReplica
<1>6. QED
  BY <1>4, <1>5

LEMMA SameTime ==
  ASSUME NEW h \in Nat \ {0}, NEW a \in Nat, NEW b \in Nat, h * a <= h * b
  PROVE  a <= b
<1>1. ASSUME a >= b + 1 PROVE FALSE
  <2>1. h * (a - b - 1) >= 0 /\ h * (a - b - 1) = h * a - h * b - h
    BY <1>1
  <2>2. h * a \in Int /\ h * b \in Int
    OBVIOUS
  <2>3. QED
    BY <2>1, <2>2
<1>2. QED
  BY <1>1

(* The samples that come after those read by time t are new. *)
ReadsFrom(j, l, t, n, T, D) ==
  /\ t \in Nat /\ n \in Nat /\ t + n <= j.samples
  /\ ReadBy(j, l, T, t) /\ IsFiniteSet(T) /\ DrawnBy(j, l, t, n, D)

ReadsUpTo(j, l, t, n, T, S) ==
  /\ ReadBy(j, l, T \cup S, t + n) /\ IsFiniteSet(T \cup S)
  /\ Cardinality(T \cup S) = Cardinality(T) + n * Chunk(j, l)

LEMMA ReadsMore ==
  ASSUME NEW j \in Jobs, NEW l, Launched(j, l), AllRepeat(j, l),
         NEW t, NEW n, NEW T, NEW D, ReadsFrom(j, l, t, n, T, D)
  PROVE  ReadsUpTo(j, l, t, n, T, SamplesOf(D))
<1> /\ t \in Nat /\ n \in Nat /\ t + n <= j.samples
    /\ ReadBy(j, l, T, t) /\ IsFiniteSet(T) /\ DrawnBy(j, l, t, n, D)
  BY DEF ReadsFrom
<1>1. PICK S : S = SamplesOf(D)
  OBVIOUS
<1>2. NewSamples(j, l, t, n, S)
  BY <1>1, DrawnSamples
<1>3. /\ IsFiniteSet(S) /\ Cardinality(S) = n * Chunk(j, l)
      /\ \A x \in S : \E v \in Nat : t <= v /\ v < t + n /\ ReadIn(j, l, x, v)
  BY <1>2 DEF NewSamples
<1>4. T \cap S = {}
  <2> SUFFICES ASSUME NEW x \in T, x \in S PROVE FALSE
    OBVIOUS
  <2>1. PICK v \in Nat : v < t /\ ReadIn(j, l, x, v)
    BY DEF ReadBy
  <2>2. PICK w \in Nat : t <= w /\ w < t + n /\ ReadIn(j, l, x, w)
    BY <1>3
  <2>3. PICK r1, e1, u1, i1 : ReadAt(j, l, x, v, r1, e1, u1, i1)
    BY <2>1 DEF ReadIn
  <2>4. PICK r2, e2, u2, i2 : ReadAt(j, l, x, w, r2, e2, u2, i2)
    BY <2>2 DEF ReadIn
  <2>5. v <= j.samples /\ w <= j.samples
    BY <2>1, <2>2, JobFacts
  <2>6. v = w
    BY <2>3, <2>4, <2>5, ReadApart
  <2>7. QED
    BY <2>1, <2>2, <2>6
<1>5. IsFiniteSet(T \cup S) /\ Cardinality(T \cup S) = Cardinality(T) + n * Chunk(j, l)
  <2>1. IsFiniteSet(T \cup S) /\ Cardinality(T \cup S)
                                   = Cardinality(T) + Cardinality(S) - Cardinality(T \cap S)
    BY <1>3, FS_Union
  <2>2. Cardinality(T \cap S) = 0
    BY <1>4, FS_EmptySet
  <2>3. Cardinality(T) \in Nat /\ Cardinality(S) \in Nat
    BY <1>3, FS_CardinalityType
  <2>4. QED
    BY <1>3, <2>1, <2>2, <2>3
<1>6. ReadBy(j, l, T \cup S, t + n)
  <2>1. ASSUME NEW x \in T \cup S PROVE \E v \in Nat : v < t + n /\ ReadIn(j, l, x, v)
    <3>1. CASE x \in T
      <4>1. PICK v \in Nat : v < t /\ ReadIn(j, l, x, v)
        BY <3>1 DEF ReadBy
      <4>2. v < t + n
        BY <4>1
      <4>3. QED
        BY <4>1, <4>2
    <3>2. CASE x \in S
      BY <1>3, <3>2
    <3>3. QED
      BY <3>1, <3>2
  <2>2. ASSUME AllEqual(j, l), NEW x, NEW v \in Nat, v < t + n, ReadIn(j, l, x, v)
        PROVE  x \in T \cup S
    <3>1. CASE v < t
      BY <2>2, <3>1 DEF ReadBy
    <3>2. CASE v >= t
      <4>1. t <= v
        BY <3>2
      <4>2. x \in SamplesOf(D)
        BY <2>2, <4>1, DrawnAll
      <4>3. QED
        BY <1>1, <4>2
    <3>3. QED
      BY <3>1, <3>2
  <2>3. QED
    BY <2>1, <2>2 DEF ReadBy
<1>7. QED
  BY <1>1, <1>5, <1>6 DEF ReadsUpTo

(* What the readers draw in an iteration of n microbatches. *)
Drawing(n) ==
  [r \in Readers(job, layout) |-> Draws(job.s, DataRank(job, layout, r), iterators[r], n)]

LEMMA SameDraws ==
  ASSUME LoopOK, phase = "training", NEW n, NEW D, D = Drawing(n)
  PROVE  /\ SameReplica(Readers(job, layout), [r \in Readers(job, layout) |-> D[r].drawn])
         /\ SameReplica(Readers(job, layout), [r \in Readers(job, layout) |-> D[r].it])
         /\ \A r, q \in Readers(job, layout) :
               DataRank(job, layout, r) = DataRank(job, layout, q) => D[r] = D[q]
<1>1. ASSUME NEW r \in Readers(job, layout), NEW q \in Readers(job, layout),
             DataRank(job, layout, r) = DataRank(job, layout, q)
      PROVE  D[r] = D[q]
  <2>1. iterators[r] = iterators[q]
    BY <1>1 DEF LoopOK, SameReplica
  <2>2. /\ D[r] = Draws(job.s, DataRank(job, layout, r), iterators[r], n)
        /\ D[q] = Draws(job.s, DataRank(job, layout, q), iterators[q], n)
    BY DEF Drawing
  <2>3. QED
    BY <1>1, <2>1, <2>2
<1>2. QED
  BY <1>1 DEF SameReplica

LEMMA CyclicIteration ==
  ASSUME ProgressInv, SamplesInv, phase = "training", job.s.type = "cyclic", NEW n, Iterates(n)
  PROVE  /\ Weights(job, layout, trained', consumed')
         /\ AllRepeat(job, layout) /\ \E t : ReadsOn(t)'
<1>1. /\ Launched(job, layout) /\ job \in Jobs /\ CountersOK /\ consumed \in Nat
      /\ LoopOK /\ Weights(job, layout, trained, consumed)
  BY DEF ProgressInv, RunningOK, CountersOK, SamplesInv
<1>2. PICK h \in Nat \ {0} : h = Chunk(job, layout)
  BY <1>1, LaunchFacts
<1>3. n \in Nat /\ consumed + h * n <= job.samples
  BY <1>1, <1>2, IterationFits DEF Iterates
<1>4. AllRepeat(job, layout) /\ \E t : ReadsOn(t)
  BY <1>1 DEF LoopOK
<1>5. PICK t : ReadsOn(t)
  BY <1>4
<1>6. /\ t \in Nat /\ consumed = h * t /\ ReadBy(job, layout, trained, t)
      /\ \A r \in Readers(job, layout) :
            StandsIn(job.s, DataRank(job, layout, r), t, iterators[r])
  BY <1>2, <1>5 DEF ReadsOn
<1>7. consumed + h * n = h * (t + n) /\ n * h = h * n
  BY <1>2, <1>3, <1>6
<1>8. t + n <= job.samples
  <2>1. PICK N \in Nat : N = job.samples
    BY <1>1, JobFacts
  <2>2. h * N = N + (h - 1) * N /\ (h - 1) * N >= 0
    BY <1>2
  <2>3. h * N \in Int /\ (h - 1) * N \in Int
    BY <1>2
  <2>4. h * (t + n) <= h * N
    <3>1. h * (t + n) <= N
      BY <1>3, <1>7, <2>1
    <3>2. h * (t + n) \in Int
      BY <1>2, <1>3, <1>6
    <3>3. QED
      BY <2>2, <2>3, <3>1, <3>2
  <2>5. t + n \in Nat
    BY <1>3, <1>6
  <2>6. QED
    BY <2>1, <2>4, <2>5, SameTime
<1>9. PICK D : D = Drawing(n)
  OBVIOUS
<1>10. ASSUME NEW r \in Readers(job, layout)
       PROVE  DrawsTurns(job.s, DataRank(job, layout, r), t, n, D[r])
  <2>1. D[r] = Draws(job.s, DataRank(job, layout, r), iterators[r], n)
    BY <1>9 DEF Drawing
  <2>2. DrawsTurns(job.s, DataRank(job, layout, r), t, n,
                   Draws(job.s, DataRank(job, layout, r), iterators[r], n))
    BY <1>3, <1>4, <1>6, RandomDraws DEF AllRepeat
  <2>3. QED
    BY <2>1, <2>2
<1>11. DrawnBy(job, layout, t, n, D)
  <2>1. DOMAIN D = Readers(job, layout)
    BY <1>9 DEF Drawing
  <2>2. \A r, q \in Readers(job, layout) :
           DataRank(job, layout, r) = DataRank(job, layout, q) => D[r] = D[q]
    BY <1>1, <1>9, SameDraws
  <2>3. QED
    BY <1>10, <2>1, <2>2 DEF DrawnBy
<1>12. /\ trained' = trained \cup SamplesOf(D) /\ consumed' = consumed + h * n
       /\ \A r \in Readers(job, layout) : iterators'[r] = D[r].it
       /\ UNCHANGED <<job, layout>>
  BY <1>2, <1>9 DEF Iterates, Drawing
<1>13. /\ ReadBy(job, layout, trained', t + n) /\ IsFiniteSet(trained')
       /\ Cardinality(trained') = Cardinality(trained) + n * h
  <2>1. IsFiniteSet(trained)
    BY <1>1 DEF Weights
  <2>2. /\ ReadBy(job, layout, trained \cup SamplesOf(D), t + n)
        /\ IsFiniteSet(trained \cup SamplesOf(D))
        /\ Cardinality(trained \cup SamplesOf(D)) = Cardinality(trained) + n * Chunk(job, layout)
    <3>1. ReadsFrom(job, layout, t, n, trained, D)
      BY <1>1, <1>3, <1>4, <1>6, <1>8, <1>11, <2>1 DEF ReadsFrom
    <3>2. ReadsUpTo(job, layout, t, n, trained, SamplesOf(D))
      BY <1>1, <1>4, <3>1, ReadsMore
    <3>3. QED
      BY <3>2 DEF ReadsUpTo
  <2>3. QED
    BY <1>2, <1>12, <2>2
<1>14. Weights(job, layout, trained', consumed')
  <2>1. Cardinality(trained) = consumed
    BY <1>1 DEF Weights
  <2>2. Cardinality(trained') = consumed'
    BY <1>7, <1>12, <1>13, <2>1
  <2>3. consumed' = Chunk(job, layout) * (t + n) /\ t + n \in Nat
    BY <1>2, <1>3, <1>6, <1>7, <1>12
  <2>4. QED
    BY <1>13, <2>2, <2>3 DEF Weights
<1>15. ReadsOn(t + n)'
  <2>1. consumed' = Chunk(job, layout) * (t + n) /\ t + n \in Nat
    BY <1>2, <1>3, <1>6, <1>7, <1>12
  <2>2. \A r \in Readers(job, layout) :
           StandsIn(job.s, DataRank(job, layout, r), t + n, iterators'[r])
    BY <1>10, <1>12 DEF DrawsTurns
  <2>3. QED
    BY <1>12, <1>13, <2>1, <2>2 DEF ReadsOn
<1>16. QED
  BY <1>4, <1>14, <1>15

LEMMA SingleIteration ==
  ASSUME ProgressInv, SamplesInv, phase = "training", job.s.type = "single", NEW n, Iterates(n)
  PROVE  Weights(job, layout, trained', consumed')
<1>1. /\ Launched(job, layout) /\ job \in Jobs /\ CountersOK /\ consumed \in Nat
      /\ Weights(job, layout, trained, consumed)
  BY DEF ProgressInv, RunningOK, CountersOK, SamplesInv
<1>2. PICK h \in Nat \ {0} : h = Chunk(job, layout)
  BY <1>1, LaunchFacts
<1>3. n \in Nat /\ consumed + h * n <= job.samples
  BY <1>1, <1>2, IterationFits DEF Iterates
<1>4. PICK D : D = Drawing(n)
  OBVIOUS
<1>5. ASSUME NEW r \in Readers(job, layout)
      PROVE  D[r].drawn = [k \in 1 .. n |->
                             Slice(DataRank(job, layout, r), consumed + (k - 1) * h)]
  <2>1. IsDataRank(DataRank(job, layout, r)) /\ ChunkOf(DataRank(job, layout, r)) = h
    BY <1>1, <1>2, LaunchFacts
  <2>2. consumed + n * ChunkOf(DataRank(job, layout, r)) <= job.s.total /\ job.s.total \in Nat
    <3>1. job.samples \in Nat /\ job.s.total \in Nat /\ job.samples <= job.s.total
      BY <1>1, JobFacts
    <3>2. h * n = n * h /\ h * n \in Nat
      BY <1>3
    <3>3. QED
      BY <1>1, <1>3, <2>1, <3>1, <3>2
  <2>3. ReadsInOrder(job.s, DataRank(job, layout, r), consumed, n)
    BY <1>1, <1>3, <2>1, <2>2, PretrainingDraws, Zenon
  <2>4. iterators[r] = Iterator(job.s, DataRank(job, layout, r), consumed)
    BY DEF ProgressInv, TrainingOK
  <2>5. D[r] = Draws(job.s, DataRank(job, layout, r), iterators[r], n)
    BY <1>4 DEF Drawing
  <2>6. D[r] = Draws(job.s, DataRank(job, layout, r),
                     Iterator(job.s, DataRank(job, layout, r), consumed), n)
    BY <2>4, <2>5
  <2>7. D[r].drawn = [k \in 1 .. n |->
                        Slice(DataRank(job, layout, r),
                              consumed + (k - 1) * ChunkOf(DataRank(job, layout, r)))]
    BY <2>3, <2>6 DEF ReadsInOrder
  <2>8. QED
    BY <2>1, <2>7
<1>6. DrawnInOrder(job, layout, consumed, n, D)
  <2>1. DOMAIN D = Readers(job, layout)
    BY <1>4 DEF Drawing
  <2>2. QED
    BY <1>2, <1>5, <2>1 DEF DrawnInOrder
<1>7. trained' = Prefix(consumed')
  <2>1. trained = Prefix(consumed)
    BY <1>1 DEF Weights
  <2>2. Prefix(consumed) \cup SamplesOf(D) = Prefix(consumed + Chunk(job, layout) * n)
    BY <1>1, <1>3, <1>6, InOrderSamples
  <2>3. /\ trained' = trained \cup SamplesOf(D)
        /\ consumed' = consumed + Chunk(job, layout) * n
    BY <1>4 DEF Iterates, Drawing
  <2>4. QED
    BY <2>1, <2>2, <2>3
<1>8. consumed' \in Nat
  <2>1. h * n \in Nat
    BY <1>3
  <2>2. QED
    BY <1>1, <1>2, <2>1 DEF Iterates
<1>9. QED
  BY <1>7, <1>8, PrefixCount DEF Weights

LEMMA IterationSamples ==
  ASSUME ProgressInv, SamplesInv, TrainIteration
  PROVE  SamplesInv'
<1>1. phase = "training" /\ ((\E n : Iterates(n)) \/ Aborts)
  BY IterationCases
<1>2. CASE Aborts
  BY <1>2, WeightsAlone DEF Aborts
<1>3. ASSUME NEW n, Iterates(n) PROVE SamplesInv'
  <2>1. /\ Launched(job, layout) /\ job \in Jobs /\ LoopOK
        /\ Weights(job, layout, trained, consumed)
        /\ Weights(job, layout, saved.trained, saved.consumed)
    BY <1>1 DEF ProgressInv, RunningOK, CountersOK, SamplesInv
  <2>2. UNCHANGED <<job, layout>>
    BY <1>3 DEF Iterates
  <2>3. Weights(job, layout, trained', consumed')
    BY <1>1, <1>3, <2>1, CyclicIteration, SingleIteration, JobFacts
  <2>4. Weights(job, layout, saved'.trained, saved'.consumed)
    <3>1. CASE saved' = Checkpoint'
      <4>1. saved'.trained = trained' /\ saved'.consumed = consumed'
        BY <3>1 DEF Checkpoint
      <4>2. QED
        BY <2>3, <4>1
    <3>2. CASE saved' = Checkpoint
      <4>1. saved'.trained = trained /\ saved'.consumed = consumed
        BY <3>2 DEF Checkpoint
      <4>2. QED
        BY <2>1, <4>1
    <3>3. CASE saved' = saved
      BY <2>1, <3>3
    <3>4. QED
      BY <1>3, <3>1, <3>2, <3>3 DEF Iterates
  <2>5. PICK D : D = Drawing(n)
    OBVIOUS
  <2>6. /\ SameReplica(Readers(job, layout), [r \in Readers(job, layout) |-> D[r].drawn])
        /\ SameReplica(Readers(job, layout), [r \in Readers(job, layout) |-> D[r].it])
    BY <1>1, <2>1, <2>5, SameDraws
  <2>7. /\ drawn' = [r \in Readers(job, layout) |-> D[r].drawn]
        /\ iterators' = [r \in Readers(job, layout) |-> D[r].it]
    BY <1>3, <2>5 DEF Iterates, Drawing
  <2>8. DOMAIN drawn' = Readers(job, layout)
    BY <2>7
  <2>9. SameReplica(Readers(job, layout), drawn') /\ SameReplica(Readers(job, layout), iterators')
    BY <2>6, <2>7
  <2>10. SameReplica(DOMAIN drawn, drawn)' /\ SameReplica(Readers(job, layout), iterators)'
    BY <2>2, <2>8, <2>9 DEF SameReplica
  <2>11. LoopOK'
    BY <1>1, <1>3, <2>2, <2>10, CyclicIteration DEF LoopOK
  <2>12. QED
    BY <2>2, <2>3, <2>4, <2>10, <2>11 DEF SamplesInv
<1>4. QED
  BY <1>1, <1>2, <1>3

LEMMA SamplesStep == ProgressInv /\ SamplesInv /\ [Next]_vars => SamplesInv'
<1> SUFFICES ASSUME ProgressInv, SamplesInv, [Next]_vars PROVE SamplesInv'
  OBVIOUS
<1>1. CASE \E l \in Layouts : Start(l)
  BY <1>1, StartSamples
<1>2. CASE \E r \in DOMAIN place : BuildDatasets(r) \/ BuildFails(r)
  <2>1. /\ UNCHANGED <<job, layout, consumed, trained, drawn, saved>>
        /\ phase' # "training"
    BY <1>2 DEF BuildDatasets, BuildFails, Fail
  <2>2. QED
    BY <2>1, WeightsAlone
<1>3. CASE BuildLoaders
  BY <1>3, LoadersSamples
<1>4. CASE TrainIteration
  BY <1>4, IterationSamples
<1>5. CASE Finish
  <2>1. /\ UNCHANGED <<job, layout, consumed, trained, drawn>>
        /\ phase' # "training" /\ (saved' = Checkpoint \/ saved' = saved)
    BY <1>5 DEF Finish
  <2>2. QED
    BY <2>1, WeightsAlone
<1>6. CASE Crash
  <2>1. /\ UNCHANGED <<job, layout, consumed, trained, drawn, saved>>
        /\ phase' # "training"
    BY <1>6 DEF Crash
  <2>2. QED
    BY <2>1, WeightsAlone
<1>7. CASE UNCHANGED vars
  BY <1>7 DEF vars, SamplesInv, LoopOK, ReadsOn, SameReplica
<1>8. QED
  BY <1>1, <1>2, <1>3, <1>4, <1>5, <1>6, <1>7 DEF Next

LEMMA Samples == Spec => []SamplesInv
<1>1. Init => SamplesInv
  BY InitSamples
<1>2. ProgressInv /\ SamplesInv /\ [Next]_vars => SamplesInv'
  BY SamplesStep
<1>3. QED
  BY <1>1, <1>2, Progress, PTL DEF Spec

LEMMA ReadEpoch ==
  ASSUME NEW j \in Jobs, NEW l, Launched(j, l), NEW x, NEW t,
         NEW r, NEW e, NEW u, NEW i, ReadAt(j, l, x, t, r, e, u, i)
  PROVE  e \in Nat /\ x[1] = e
<1>1. /\ r \in Readers(j, l) /\ e \in Nat /\ i \in 1 .. l.mbs
      /\ x = Batch(j.s, DataRank(j, l, r), e, u)[i]
  BY DEF ReadAt
<1>2. i \in 1 .. DataRank(j, l, r).mbs
  BY <1>1, RankShares
<1>3. x = SampleAt(j.s, DataRank(j, l, r), e, u * DataRank(j, l, r).mbs + i - 1)
  BY <1>1, <1>2 DEF Batch
<1>4. QED
  BY <1>1, <1>3 DEF SampleAt

(* The time of the loop is no more than the samples there are. *)
LEMMA TimeWithin ==
  ASSUME ProgressInv, phase = "training", NEW t \in Nat, consumed = Chunk(job, layout) * t
  PROVE  t <= job.samples
<1>1. /\ Launched(job, layout) /\ job \in Jobs /\ iteration \in Nat /\ consumed \in Nat
      /\ OnTrack(job.b, iteration, consumed) /\ iteration <= Iters
  BY DEF ProgressInv, RunningOK, CountersOK
<1>2. consumed <= job.samples
  BY <1>1, LaunchFacts, WithinSamples DEF Iters
<1>3. PICK h \in Nat \ {0} : h = Chunk(job, layout)
  BY <1>1, LaunchFacts
<1>4. h * t = t + (h - 1) * t /\ (h - 1) * t >= 0
  OBVIOUS
<1>5. h * t \in Int /\ (h - 1) * t \in Int /\ job.samples \in Nat
  BY <1>1, JobFacts
<1>6. QED
  BY <1>2, <1>3, <1>4, <1>5

(* An epoch that another follows in the weights is read in full. *)
LEMMA EpochsRead ==
  ASSUME ProgressInv, SamplesInv, job.s.type = "cyclic", phase = "training", EqualShares,
         NEW x \in trained, NEW y \in trained, y[1] > x[1]
  PROVE  EpochRead(x[1])
<1>1. Launched(job, layout) /\ job \in Jobs /\ consumed \in Nat
  BY DEF ProgressInv, RunningOK, CountersOK
<1>2. AllRepeat(job, layout)
  BY DEF SamplesInv, LoopOK
<1>3. PICK t : ReadsOn(t)
  BY DEF SamplesInv, LoopOK
<1>4. t \in Nat /\ consumed = Chunk(job, layout) * t /\ ReadBy(job, layout, trained, t)
  BY <1>3 DEF ReadsOn
<1>5. AllEqual(job, layout)
  BY <1>1, RankShares DEF AllEqual, EqualEpochs, EqualShares
<1>6. PICK e \in Nat : x[1] = e
  <2>1. PICK v \in Nat : ReadIn(job, layout, x, v)
    BY <1>4 DEF ReadBy
  <2>2. PICK r, c, u, i : ReadAt(job, layout, x, v, r, c, u, i)
    BY <2>1 DEF ReadIn
  <2>3. c \in Nat /\ x[1] = c
    BY <1>1, <2>2, ReadEpoch
  <2>4. QED
    BY <2>3
<1>0. PICK v \in Nat : v < t /\ ReadIn(job, layout, y, v)
  BY <1>4 DEF ReadBy
<1>7. PICK r, f, u, i : v < t /\ ReadAt(job, layout, y, v, r, f, u, i)
  BY <1>0 DEF ReadIn
<1>8. f \in Nat /\ y[1] = f /\ r \in Readers(job, layout)
  <2>1. f \in Nat /\ y[1] = f
    BY <1>1, <1>7, ReadEpoch, Zenon
  <2>2. QED
    BY <1>7, <2>1 DEF ReadAt
<1>9. PICK a : a = DataRank(job, layout, r)
  OBVIOUS
<1>10. Repeats(job.s, a)
  BY <1>2, <1>8, <1>9 DEF AllRepeat
<1>11. PICK q \in Nat \ {0} : q = Turns(job.s, a) /\ ActiveTotal(job.s, a) = ChunkOf(a) * q
  BY <1>10, EpochFacts DEF IsEpoch
<1>12. \A z \in Readers(job, layout) : q = Turns(job.s, DataRank(job, layout, z))
  BY <1>1, <1>8, <1>9, <1>11, RankShares DEF Turns, ChunkOf
<1>13. e * q + q <= t
  <2>1. u \in Nat /\ f * q + u = v
    BY <1>7, <1>9, <1>11 DEF ReadAt, IsBefore
  <2>2. e + 1 <= f
    BY <1>6, <1>8
  <2>3. (f - e - 1) * q >= 0 /\ (f - e - 1) * q = f * q - e * q - q
    BY <1>8, <2>2
  <2>4. f * q \in Int /\ e * q \in Int
    BY <1>8
  <2>5. QED
    BY <1>4, <1>7, <2>1, <2>3, <2>4
<1>14. t <= job.samples
  BY <1>1, <1>4, TimeWithin
<1>15. Cardinality({z \in trained : z[1] = e}) = q * Chunk(job, layout)
  BY <1>1, <1>2, <1>4, <1>5, <1>12, <1>13, <1>14, EpochsInFull
<1>16. ActiveTotal(job.s, [dp |-> SizesOf(job, layout).dp, mbs |-> layout.mbs])
         = q * Chunk(job, layout)
  <2>1. PICK o : o = [dp |-> SizesOf(job, layout).dp, mbs |-> layout.mbs]
    OBVIOUS
  <2>2. ChunkOf(a) = Chunk(job, layout) /\ ChunkOf(o) = ChunkOf(a)
    BY <1>1, <1>8, <1>9, <2>1, RankShares, LaunchFacts DEF ChunkOf
  <2>3. ActiveTotal(job.s, o) = ActiveTotal(job.s, a)
    BY <2>2 DEF ActiveTotal
  <2>4. PICK h \in Nat : h = Chunk(job, layout)
    BY <1>1, LaunchFacts
  <2>5. h * q = q * h
    OBVIOUS
  <2>6. QED
    BY <1>11, <2>1, <2>2, <2>3, <2>4, <2>5
<1>17. QED
  BY <1>6, <1>15, <1>16 DEF EpochRead

(* Whatever the jobs, the layouts, the permutations, the crashes and the     *)
(* restarts: the weights hold as many samples as were counted, each once, in *)
(* order and without a gap if the sampler is sequential; the readers of one  *)
(* data-parallel rank read the same; and no epoch is left before its end.    *)
THEOREM EachSampleOnceThm == Spec => []EachSampleOnce
<1>1. ProgressInv /\ SamplesInv => EachSampleOnce
  <2> SUFFICES ASSUME ProgressInv, SamplesInv PROVE EachSampleOnce
    OBVIOUS
  <2>1. Cardinality(trained) = consumed
    BY DEF SamplesInv, Weights
  <2>2. job.s.type = "single" => trained = {<<0, i>> : i \in 0 .. consumed - 1}
    BY DEF SamplesInv, Weights, Prefix
  <2>3. \A r, q \in DOMAIN drawn :
           DataRank(job, layout, r) = DataRank(job, layout, q) => drawn[r] = drawn[q]
    BY DEF SamplesInv, SameReplica
  <2>4. ASSUME job.s.type = "cyclic", phase = "training", EqualShares,
               NEW e \in {x[1] : x \in trained}, NEW y \in trained, y[1] > e
        PROVE  EpochRead(e)
    <3>1. PICK x \in trained : e = x[1]
      OBVIOUS
    <3>2. QED
      BY <2>4, <3>1, EpochsRead
  <2>5. QED
    BY <2>1, <2>2, <2>3, <2>4 DEF EachSampleOnce
<1>2. QED
  BY <1>1, Progress, Samples, PTL
=============================================================================
