------------------------- MODULE RunningStatsProofs -------------------------
(* Proofs about RunningStats for any values and any way of cutting the      *)
(* stream into chunks.                                                      *)
EXTENDS RunningStats, WellFoundedInduction, TLAPS

(* The sum of the squares of a stream.                                      *)
Squares(s) == SumTo([i \in 1..Len(s) |-> s[i] * s[i]], Len(s))

(* The count is that of the values retained: every other part of the        *)
(* invariant relates a data member to the same values.                      *)
CountIsLen == m.count = Len(stream)

(* What the sum is, by what there is in the stream.                         *)
SumKind(S, v) ==
    /\ NA \in S \/ {PosInf, NegInf} \subseteq S => v = NA
    /\ NA \notin S /\ PosInf \in S /\ NegInf \notin S => v = PosInf
    /\ NA \notin S /\ PosInf \notin S /\ NegInf \in S => v = NegInf
    /\ S \cap {NA, PosInf, NegInf} = {} => v \in Int
SumIsNA == stream # <<>> => SumKind(ToSet(stream), m.sum)

(* An NA stays in the mean, and in M2 as soon as there is one to speak of.  *)
NAStays ==
    NA \in ToSet(stream) => m.mean = NA /\ (m.count >= 2 => m.M2 = NA)

(* The stored extremes are those of a stream without NA.                    *)
Extreme(S, lo, hi) ==
    /\ lo \in S /\ hi \in S
    /\ \A x \in S : ~Less(x, lo) /\ ~Less(hi, x)
StoredExtremes ==
    stream # <<>> /\ NA \notin ToSet(stream) => Extreme(ToSet(stream), m.min, m.max)

(* Of a finite stream, n times the mean is the sum, and n times M2 is n     *)
(* times the sum of the squares less the square of the sum (in the units of *)
(* the model): what Welford's update keeps exact.                           *)
Welford(n, T, Q, mean, M2) ==
    /\ mean \in Int /\ mean * n = Scale * T
    /\ M2 \in Int /\ M2 * n = Scale * Scale * (n * Q - T * T)
FiniteSums ==
    stream # <<>> /\ AllFinite(stream) =>
        /\ m.sum = Total(stream)
        /\ Welford(Len(stream), Total(stream), Squares(stream), m.mean, m.M2)

IInv == TypeOK /\ CountIsLen /\ SumIsNA /\ NAStays /\ StoredExtremes /\ FiniteSums

-----------------------------------------------------------------------------
(* Induction on the natural numbers, for a set instead of a predicate.      *)

LEMMA SmallestElement ==
  \A T \in SUBSET Nat : T # {} => \E x \in T : \A k \in T : ~(k < x)
  <1> SUFFICES ASSUME NEW T \in SUBSET Nat, T # {}
               PROVE  \E x \in T : \A k \in T : ~(k < x)
    OBVIOUS
  <1>1. \E x \in T : \A k \in T : ~(<<k, x>> \in OpToRel(<, Nat))
    BY WFMin, NatLessThanWellFounded
  <1> QED BY <1>1 DEF OpToRel

LEMMA Induction ==
  ASSUME NEW T \in SUBSET Nat, 0 \in T, \A n \in T : n + 1 \in T
  PROVE  T = Nat
  <1> SUFFICES ASSUME Nat \ T # {} PROVE FALSE
    OBVIOUS
  <1>1. PICK x \in Nat \ T : \A k \in Nat \ T : ~(k < x)
    BY SmallestElement
  <1>2. x # 0 /\ x - 1 \in Nat
    BY <1>1
  <1>3. x - 1 \in T
    BY <1>1, <1>2
  <1>4. (x - 1) + 1 \in T
    BY <1>3
  <1> QED BY <1>1, <1>2, <1>4

-----------------------------------------------------------------------------
(* Sums.  SumTo(f, n) is the last of the partial sums of f, a recursive     *)
(* function on 0..n.                                                        *)

IsPartialSums(a, f, n) ==
    a = [i \in 0..n |-> IF i = 0 THEN 0 ELSE a[i - 1] + f[i]]
PartialSums(f, n) == CHOOSE a : IsPartialSums(a, f, n)

LEMMA SumToDef == \A f, n : SumTo(f, n) = PartialSums(f, n)[n]
  BY DEF SumTo, PartialSums, IsPartialSums

(* Partial sums on 0..n and on 0..n + 1 agree on 0..n.                      *)
LEMMA PartialSumsAgree ==
  ASSUME NEW f, NEW n \in Nat, NEW k \in Nat, n <= k,
         NEW a, IsPartialSums(a, f, n), NEW b, IsPartialSums(b, f, k)
  PROVE  \A i \in 0..n : a[i] = b[i]
  <1> DEFINE T == {i \in Nat : i \in 0..n => a[i] = b[i]}
  <1>1. 0 \in T
    BY DEF IsPartialSums
  <1>2. ASSUME NEW i \in T PROVE i + 1 \in T
    <2>1. CASE i + 1 \in 0..n
      <3>1. i \in 0..n /\ i + 1 \in 0..k /\ (i + 1) - 1 = i
        BY <2>1
      <3>2. a[i + 1] = a[i] + f[i + 1]
        BY <2>1, <3>1 DEF IsPartialSums
      <3>3. b[i + 1] = b[i] + f[i + 1]
        BY <2>1, <3>1 DEF IsPartialSums
      <3> QED BY <3>1, <3>2, <3>3
    <2>2. CASE i + 1 \notin 0..n
      BY <2>2
    <2> QED BY <2>1, <2>2
  <1> HIDE DEF T
  <1>3. T = Nat
    <2>1. T \in SUBSET Nat
      BY DEF T
    <2> QED BY <1>1, <1>2, <2>1, Induction
  <1> QED BY <1>3 DEF T

LEMMA PartialSumsExist ==
  ASSUME NEW f
  PROVE  \A n \in Nat : IsPartialSums(PartialSums(f, n), f, n)
  <1> DEFINE T == {n \in Nat : \E a : IsPartialSums(a, f, n)}
  <1>1. 0 \in T
    <2>1. IsPartialSums([i \in 0..0 |-> 0], f, 0)
      BY DEF IsPartialSums
    <2> QED BY <2>1
  <1>2. ASSUME NEW n \in T PROVE n + 1 \in T
    <2>1. PICK a : IsPartialSums(a, f, n)
      BY <1>2
    <2> DEFINE b == [i \in 0..(n + 1) |-> IF i = n + 1 THEN a[n] + f[n + 1] ELSE a[i]]
    <2>2. ASSUME NEW i \in 0..(n + 1)
          PROVE  b[i] = IF i = 0 THEN 0 ELSE b[i - 1] + f[i]
      <3>1. CASE i = 0
        BY <2>1, <3>1 DEF IsPartialSums
      <3>2. CASE i = n + 1
        BY <3>2
      <3>3. CASE i # 0 /\ i # n + 1
        <4>1. i \in 0..n /\ i - 1 \in 0..n /\ i - 1 # n + 1
          BY <3>3
        <4>2. a[i] = a[i - 1] + f[i]
          BY <2>1, <3>3, <4>1 DEF IsPartialSums
        <4> QED BY <3>3, <4>1, <4>2
      <3> QED BY <3>1, <3>2, <3>3
    <2>3. IsPartialSums(b, f, n + 1)
      BY <2>2 DEF IsPartialSums
    <2> QED BY <2>3
  <1> HIDE DEF T
  <1>3. T = Nat
    <2>1. T \in SUBSET Nat
      BY DEF T
    <2> QED BY <1>1, <1>2, <2>1, Induction
  <1> QED BY <1>3 DEF T, PartialSums

(* What SumTo computes, as its callers need it.                             *)
LEMMA SumToZero == \A f : SumTo(f, 0) = 0
  BY SumToDef, PartialSumsExist DEF IsPartialSums

LEMMA SumToNext ==
  ASSUME NEW f, NEW n \in Nat
  PROVE  SumTo(f, n + 1) = SumTo(f, n) + f[n + 1]
  <1>1. /\ IsPartialSums(PartialSums(f, n), f, n)
        /\ IsPartialSums(PartialSums(f, n + 1), f, n + 1)
    BY PartialSumsExist
  <1>2. PartialSums(f, n + 1)[n + 1] = PartialSums(f, n + 1)[n] + f[n + 1]
    BY <1>1 DEF IsPartialSums
  <1>3. PartialSums(f, n)[n] = PartialSums(f, n + 1)[n]
    BY <1>1, PartialSumsAgree
  <1> QED BY <1>2, <1>3, SumToDef

(* A sum of integers is one, and is that of any function with the same      *)
(* values.                                                                  *)
LEMMA SumToType ==
  ASSUME NEW f, NEW n \in Nat, \A i \in 1..n : f[i] \in Int
  PROVE  \A k \in 0..n : SumTo(f, k) \in Int
  <1> DEFINE T == {k \in Nat : k <= n => SumTo(f, k) \in Int}
  <1>1. 0 \in T
    BY SumToZero
  <1>2. ASSUME NEW k \in T PROVE k + 1 \in T
    BY SumToNext
  <1> HIDE DEF T
  <1>3. T = Nat
    <2>1. T \in SUBSET Nat
      BY DEF T
    <2> QED BY <1>1, <1>2, <2>1, Induction
  <1> QED BY <1>3 DEF T

LEMMA SumToSame ==
  ASSUME NEW f, NEW g, NEW n \in Nat, \A i \in 1..n : f[i] = g[i]
  PROVE  SumTo(f, n) = SumTo(g, n)
  <1> DEFINE T == {k \in Nat : k <= n => SumTo(f, k) = SumTo(g, k)}
  <1>1. 0 \in T
    BY SumToZero
  <1>2. ASSUME NEW k \in T PROVE k + 1 \in T
    BY SumToNext
  <1> HIDE DEF T
  <1>3. T = Nat
    <2>1. T \in SUBSET Nat
      BY DEF T
    <2> QED BY <1>1, <1>2, <2>1, Induction
  <1> QED BY <1>3 DEF T

-----------------------------------------------------------------------------
(* The arithmetic of the modelled doubles.                                  *)

LEMMA Distinct ==
  /\ NA \notin Int /\ PosInf \notin Int /\ NegInf \notin Int
  /\ NA # PosInf /\ NA # NegInf /\ PosInf # NegInf
  BY StatsAssumption

LEMMA Kinds ==
  ASSUME NEW x \in Value
  PROVE  /\ IsFinite(x) <=> x \in Int
         /\ x \notin Int => x \in {NA, PosInf, NegInf}
  BY Distinct DEF Value, IsFinite

LEMMA NumbersAreValues == Numbers \subseteq Value /\ NA \in Numbers /\ 0 \in Value
  <1>1. Finite \subseteq Int /\ Infinities \subseteq {PosInf, NegInf}
    BY StatsAssumption
  <1>2. Numbers \subseteq Value
    BY <1>1 DEF Numbers, Value
  <1>3. NA \in Numbers /\ 0 \in Value
    BY DEF Numbers, Value
  <1> QED BY <1>2, <1>3

LEMMA PlusFacts ==
  ASSUME NEW x \in Value, NEW z \in Value
  PROVE  /\ Plus(x, z) \in Value
         /\ x \in Int /\ z \in Int => Plus(x, z) = x + z
         /\ NA \in {x, z} \/ {x, z} = {PosInf, NegInf} => Plus(x, z) = NA
         /\ x \in Int /\ z \notin Int => Plus(x, z) = z
         /\ x \notin Int /\ z \in Int => Plus(x, z) = x
         /\ x \notin Int /\ x = z => Plus(x, z) = x
  <1>0. (IsFinite(x) <=> x \in Int) /\ (IsFinite(z) <=> z \in Int)
    BY Kinds
  <1>1. CASE x \in Int /\ z \in Int
    <2>1. Plus(x, z) = x + z /\ x + z \in Int
      BY <1>0, <1>1 DEF Plus
    <2> QED BY <1>1, <2>1, Distinct DEF Value
  <1>2. CASE x \in Int /\ z \notin Int
    <2>1. z \in {NA, PosInf, NegInf}
      BY <1>2, Kinds
    <2>2. Plus(x, z) = z
      BY <1>0, <1>2, <2>1, Distinct DEF Plus
    <2> QED BY <1>2, <2>1, <2>2, Distinct
  <1>3. CASE x \notin Int /\ z \in Int
    <2>1. x \in {NA, PosInf, NegInf}
      BY <1>3, Kinds
    <2>2. Plus(x, z) = x
      BY <1>0, <1>3, <2>1, Distinct DEF Plus
    <2> QED BY <1>3, <2>1, <2>2, Distinct
  <1>4. CASE x \notin Int /\ z \notin Int
    <2>1. x \in {NA, PosInf, NegInf} /\ z \in {NA, PosInf, NegInf}
      BY <1>4, Kinds
    <2>2. Plus(x, z) = IF NA \in {x, z} \/ {x, z} = {PosInf, NegInf} THEN NA ELSE x
      BY <1>0, <1>4, <2>1 DEF Plus
    <2>3. {x, z} = {PosInf, NegInf} => x # z
      BY Distinct
    <2> QED BY <1>4, <2>1, <2>2, <2>3 DEF Value
  <1> QED BY <1>1, <1>2, <1>3, <1>4

LEMMA NegFacts ==
  ASSUME NEW x \in Value
  PROVE  /\ Neg(x) \in Value
         /\ x \in Int => Neg(x) = -x
         /\ x = NA => Neg(x) = NA
  <1>1. CASE x \in Int
    BY <1>1, Distinct DEF Neg, Value
  <1>2. CASE x \in {NA, PosInf, NegInf}
    BY <1>2, Distinct DEF Neg, Value
  <1> QED BY <1>1, <1>2, Kinds

LEMMA MinusFacts ==
  ASSUME NEW x \in Value, NEW z \in Value
  PROVE  /\ Minus(x, z) \in Value
         /\ x \in Int /\ z \in Int => Minus(x, z) = x - z
         /\ NA \in {x, z} => Minus(x, z) = NA
  <1>1. /\ Neg(z) \in Value /\ (z \in Int => Neg(z) = -z) /\ (z = NA => Neg(z) = NA)
    BY NegFacts
  <1>2. /\ Plus(x, Neg(z)) \in Value
        /\ x \in Int /\ Neg(z) \in Int => Plus(x, Neg(z)) = x + Neg(z)
        /\ NA \in {x, Neg(z)} => Plus(x, Neg(z)) = NA
    BY <1>1, PlusFacts
  <1>3. ASSUME x \in Int, z \in Int PROVE Minus(x, z) = x - z
    <2>1. Neg(z) = -z /\ -z \in Int /\ x + (-z) = x - z
      BY <1>1, <1>3
    <2> QED BY <1>2, <1>3, <2>1 DEF Minus
  <1>4. NA \in {x, z} => NA \in {x, Neg(z)}
    BY <1>1
  <1> QED BY <1>2, <1>3, <1>4 DEF Minus

LEMMA OtherFacts ==
  ASSUME NEW x \in Value, NEW z \in Value, NEW k \in Nat \ {0}
  PROVE  /\ Times(x, z) \in Value /\ Over(x, k) \in Value /\ Scaled(x) \in Value
         /\ x \in Int /\ z \in Int => Times(x, z) = x * z
         /\ x \in Int => Over(x, k) = x \div k /\ Scaled(x) = Scale * x
         /\ NA \in {x, z} => Times(x, z) = NA
         /\ x = NA => Over(x, k) = NA /\ Scaled(x) = NA
  <1>1. (IsFinite(x) <=> x \in Int) /\ (IsFinite(z) <=> z \in Int) /\ Scale \in Int
    BY Kinds, StatsAssumption
  <1>2. /\ Times(x, z) \in Value /\ (NA \in {x, z} => Times(x, z) = NA)
        /\ x \in Int /\ z \in Int => Times(x, z) = x * z
    <2>1. x \in Int /\ z \in Int => x * z \in Int
      OBVIOUS
    <2> QED BY <1>1, <2>1, Distinct DEF Times, Value
  <1>3. /\ Over(x, k) \in Value /\ (x = NA => Over(x, k) = NA)
        /\ x \in Int => Over(x, k) = x \div k
    <2>1. x \in Int => x \div k \in Int
      OBVIOUS
    <2> QED BY <1>1, <2>1, Distinct DEF Over, Value
  <1>4. /\ Scaled(x) \in Value /\ (x = NA => Scaled(x) = NA)
        /\ x \in Int => Scaled(x) = Scale * x
    <2>1. x \in Int => Scale * x \in Int
      BY <1>1
    <2> QED BY <1>1, <2>1, Distinct DEF Scaled, Value
  <1> QED BY <1>2, <1>3, <1>4

(* The comparison of doubles other than NaN is that of a total order.       *)
LEMMA LessFacts ==
  ASSUME NEW x \in Value \ {NA}, NEW z \in Value \ {NA}, NEW w \in Value \ {NA}
  PROVE  /\ ~Less(x, x)
         /\ Less(x, z) => ~Less(z, x)
         /\ ~Less(x, z) /\ ~Less(z, w) => ~Less(x, w)
  BY Kinds, Distinct DEF Less, Value

-----------------------------------------------------------------------------
(* What one more value does to the sum and to the extremes.                 *)

LEMMA SumOneMore ==
  ASSUME NEW S, NEW v \in Value, SumKind(S, v), NEW n \in Numbers
  PROVE  SumKind(S \cup {n}, Plus(v, n))
  <1>1. n \in Value
    BY NumbersAreValues
  <1>2. /\ v \in Int /\ n \in Int => Plus(v, n) = v + n
        /\ NA \in {v, n} \/ {v, n} = {PosInf, NegInf} => Plus(v, n) = NA
        /\ v \in Int /\ n \notin Int => Plus(v, n) = n
        /\ v \notin Int /\ n \in Int => Plus(v, n) = v
        /\ v \notin Int /\ v = n => Plus(v, n) = v
    BY <1>1, PlusFacts
  <1>3. n \in Int \/ n = NA \/ n = PosInf \/ n = NegInf
    BY <1>1, Kinds
  <1>4. CASE NA \in S \/ {PosInf, NegInf} \subseteq S
    <2>1. v = NA
      BY <1>4 DEF SumKind
    <2>2. Plus(v, n) = NA
      BY <1>2, <2>1
    <2> QED BY <1>4, <2>2 DEF SumKind
  <1>5. CASE NA \notin S /\ PosInf \in S /\ NegInf \notin S
    <2>1. v = PosInf
      BY <1>5 DEF SumKind
    <2> QED BY <1>2, <1>3, <1>5, <2>1, Distinct DEF SumKind
  <1>6. CASE NA \notin S /\ PosInf \notin S /\ NegInf \in S
    <2>1. v = NegInf
      BY <1>6 DEF SumKind
    <2>2. n = PosInf => {v, n} = {PosInf, NegInf}
      BY <2>1
    <2> QED BY <1>2, <1>3, <1>6, <2>1, <2>2, Distinct DEF SumKind
  <1>7. CASE S \cap {NA, PosInf, NegInf} = {}
    <2>1. v \in Int
      BY <1>7 DEF SumKind
    <2>2. n \in Int => v + n \in Int
      BY <2>1
    <2> QED BY <1>2, <1>3, <1>7, <2>1, <2>2, Distinct DEF SumKind
  <1> QED BY <1>4, <1>5, <1>6, <1>7

LEMMA ExtremesOneMore ==
  ASSUME NEW S \in SUBSET (Value \ {NA}), NEW lo, NEW hi, Extreme(S, lo, hi),
         NEW n \in Value \ {NA}
  PROVE  Extreme(S \cup {n},
                 IF Less(n, lo) THEN n ELSE lo,
                 IF ~Less(n, lo) /\ Less(hi, n) THEN n ELSE hi)
  <1>1. lo \in S /\ hi \in S /\ lo \in Value \ {NA} /\ hi \in Value \ {NA}
    BY DEF Extreme
  <1>2. \A x \in S : x \in Value \ {NA} /\ ~Less(x, lo) /\ ~Less(hi, x)
    BY DEF Extreme
  <1>3. CASE Less(n, lo)
    <2>1. \A x \in S : ~Less(x, n)
      BY <1>1, <1>2, <1>3, LessFacts
    <2>2. ~Less(hi, n)
      BY <1>1, <1>2, <1>3, LessFacts
    <2> QED BY <1>1, <1>2, <1>3, <2>1, <2>2, LessFacts DEF Extreme
  <1>4. CASE ~Less(n, lo) /\ Less(hi, n)
    <2>1. \A x \in S : ~Less(n, x)
      BY <1>1, <1>2, <1>4, LessFacts
    <2> QED BY <1>1, <1>2, <1>4, <2>1, LessFacts DEF Extreme
  <1>5. CASE ~Less(n, lo) /\ ~Less(hi, n)
    BY <1>1, <1>2, <1>5 DEF Extreme
  <1> QED BY <1>3, <1>4, <1>5

-----------------------------------------------------------------------------
(* Welford's update in exact arithmetic.                                    *)

LEMMA Cancel == \A n, a, b \in Int : n # 0 /\ n * a = n * b => a = b
  OBVIOUS

LEMMA Divides ==
  \A s \in Nat, k \in Nat \ {0} : s % k = 0 => s = k * (s \div k) /\ s \div k \in Int
  OBVIOUS

LEMMA Quotient == \A k \in Nat \ {0}, e \in Int : (k * e) \div k = e
  OBVIOUS

(* n and n + 1 have no common divisor: what both divide, their product does. *)
LEMMA BothDivide ==
  \A n, a, b \in Int : n * a = (n + 1) * b => n * a = (n + 1) * (n * (a - b))
  OBVIOUS

LEMMA SquaresIdentity ==
  \A n, Q, T, x \in Int :
      (n + 1) * (n * Q - T * T) + (n * x - T) * (n * x - T)
          = n * ((n + 1) * (Q + x * x) - (T + x) * (T + x))
  OBVIOUS

(* Scale is a multiple of the counts before and after a value.              *)
LEMMA ScaleDivides ==
  ASSUME NEW n \in Nat \ {0}, n + 1 <= MaxCount
  PROVE  \E c \in Int : Scale = (n + 1) * (n * c)
  <1>1. Scale \in Nat /\ MaxCount \in Nat /\ \A k \in 1..MaxCount : Scale % k = 0
    BY StatsAssumption
  <1>2. Scale % n = 0 /\ Scale % (n + 1) = 0
    BY <1>1
  <1>3. PICK a \in Int : Scale = n * a
    BY <1>1, <1>2, Divides
  <1>4. PICK b \in Int : Scale = (n + 1) * b
    <2>1. n + 1 \in Nat \ {0}
      OBVIOUS
    <2>2. /\ Scale = (n + 1) * (Scale \div (n + 1))
          /\ Scale \div (n + 1) \in Int
      BY <1>1, <1>2, <2>1, Divides
    <2> QED BY <2>2
  <1>5. n \in Int /\ n * a = (n + 1) * b
    BY <1>3, <1>4
  <1>6. n * a = (n + 1) * (n * (a - b))
    BY <1>5, BothDivide
  <1>7. a - b \in Int /\ Scale = (n + 1) * (n * (a - b))
    BY <1>3, <1>6
  <1> QED BY <1>7

(* The new mean and M2 are exact, for what the code computes them from: the *)
(* deviation d from the old mean and the one from the new mean.             *)
LEMMA WelfordStep ==
  ASSUME NEW n \in Nat \ {0}, n + 1 <= MaxCount,
         NEW T \in Int, NEW Q \in Int, NEW x \in Int, NEW mean, NEW M2,
         Welford(n, T, Q, mean, M2),
         NEW d, d = Scale * x - mean,
         NEW newMean, newMean = mean + (d \div (n + 1))
  PROVE  Welford(n + 1, T + x, Q + x * x, newMean, M2 + d * (Scale * x - newMean))
  <1>1. PICK c \in Int : Scale = (n + 1) * (n * c)
    BY ScaleDivides
  <1>2. n \in Int /\ n # 0 /\ n + 1 \in Nat \ {0} /\ Scale \in Int
    BY StatsAssumption
  <1>3. /\ mean \in Int /\ mean * n = Scale * T
        /\ M2 \in Int /\ M2 * n = Scale * Scale * (n * Q - T * T)
    BY DEF Welford
  <1> DEFINE e == c * (n * x - T)
  <1>4. mean = (n + 1) * (c * T)
    <2>1. n * mean = n * ((n + 1) * (c * T))
      BY <1>1, <1>2, <1>3
    <2>2. (n + 1) * (c * T) \in Int
      BY <1>2
    <2> QED BY <1>2, <1>3, <2>1, <2>2, Cancel
  <1>5. e \in Int
    BY <1>2
  <1>6. d = (n + 1) * e
    BY <1>1, <1>2, <1>4
  <1>7. d \div (n + 1) = e
    BY <1>2, <1>5, <1>6, Quotient
  <1>8. newMean = n * (c * (T + x))
    BY <1>2, <1>4, <1>7
  <1>9. newMean \in Int /\ newMean * (n + 1) = Scale * (T + x)
    BY <1>1, <1>2, <1>8
  <1>10. Scale * x - newMean = n * e
    BY <1>1, <1>2, <1>8
  <1> DEFINE M == M2 + d * (Scale * x - newMean)
  <1>11. M = M2 + ((n + 1) * e) * (n * e)
    BY <1>6, <1>10
  <1>12. M \in Int
    BY <1>2, <1>3, <1>5, <1>11
  <1>13. ((n + 1) * e) * (n * e) * (n * (n + 1))
            = Scale * Scale * ((n * x - T) * (n * x - T))
    BY <1>1, <1>2
  <1>14. M * (n * (n + 1))
            = (n + 1) * (M2 * n) + ((n + 1) * e) * (n * e) * (n * (n + 1))
    BY <1>2, <1>3, <1>5, <1>11
  <1>15. M * (n * (n + 1))
            = Scale * Scale * ((n + 1) * (n * Q - T * T) + (n * x - T) * (n * x - T))
    <2> DEFINE A == n * Q - T * T
               B == (n * x - T) * (n * x - T)
    <2>1. A \in Int /\ B \in Int
      BY <1>2
    <2>2. M * (n * (n + 1)) = (n + 1) * (Scale * Scale * A) + Scale * Scale * B
      BY <1>3, <1>13, <1>14
    <2> HIDE DEF A, B, M
    <2>3. M * (n * (n + 1)) = Scale * Scale * ((n + 1) * A + B)
      <3>1. \A S, k, a, b \in Int : k * (S * S * a) + S * S * b = S * S * (k * a + b)
        OBVIOUS
      <3>2. n + 1 \in Int
        BY <1>2
      <3> QED BY <1>2, <2>1, <2>2, <3>1, <3>2
    <2> QED BY <2>3 DEF A, B
  <1>16. n * (M * (n + 1))
            = n * (Scale * Scale * ((n + 1) * (Q + x * x) - (T + x) * (T + x)))
    BY <1>2, <1>12, <1>15, SquaresIdentity
  <1>17. M * (n + 1) = Scale * Scale * ((n + 1) * (Q + x * x) - (T + x) * (T + x))
    <2>1. M * (n + 1) \in Int
          /\ Scale * Scale * ((n + 1) * (Q + x * x) - (T + x) * (T + x)) \in Int
      BY <1>2, <1>12
    <2> QED BY <1>2, <1>16, <2>1, Cancel
  <1> QED BY <1>9, <1>12, <1>17 DEF Welford

-----------------------------------------------------------------------------
(* The fields after one value.                                              *)

Members == [count : 0..MaxCount, mean : Value, min : Numbers \cup {0},
            max : Numbers \cup {0}, sum : Value, M2 : Value]

LEMMA FirstType ==
  ASSUME NEW n \in Numbers, 1 <= MaxCount
  PROVE  /\ First(n) \in Members
         /\ n \in Int => Scaled(n) = Scale * n
         /\ n = NA => Scaled(n) = NA
  <1>1. n \in Value /\ 0 \in Value
    BY NumbersAreValues
  <1>2. /\ Scaled(n) \in Value
        /\ n \in Int => Scaled(n) = Scale * n
        /\ n = NA => Scaled(n) = NA
    BY <1>1, OtherFacts, 1 \in Nat \ {0}
  <1>3. 1 \in 0..MaxCount
    BY StatsAssumption
  <1> QED BY <1>1, <1>2, <1>3 DEF First, Members

LEMMA FollowingType ==
  ASSUME NEW s \in Members, NEW n \in Numbers, s.count + 1 <= MaxCount
  PROVE  Following(s, n) \in Members
  <1>1. /\ n \in Value /\ s.mean \in Value /\ s.M2 \in Value /\ s.sum \in Value
        /\ s.min \in Numbers \cup {0} /\ s.max \in Numbers \cup {0}
        /\ s.count + 1 \in 0..MaxCount /\ s.count + 1 \in Nat \ {0}
    BY NumbersAreValues, StatsAssumption DEF Members
  <1>2. Scaled(n) \in Value
    BY <1>1, OtherFacts
  <1>3. Delta(s, n) \in Value
    BY <1>1, <1>2, MinusFacts DEF Delta
  <1>4. Over(Delta(s, n), s.count + 1) \in Value
    BY <1>1, <1>3, OtherFacts
  <1>5. NewMean(s, n) \in Value
    BY <1>1, <1>4, PlusFacts DEF NewMean
  <1>6. SquaresAdded(s, n) \in Value
    <2>1. Minus(Scaled(n), NewMean(s, n)) \in Value
      BY <1>2, <1>5, MinusFacts
    <2> QED BY <1>1, <1>3, <2>1, OtherFacts DEF SquaresAdded
  <1>7. Plus(s.M2, SquaresAdded(s, n)) \in Value /\ Plus(s.sum, n) \in Value
    BY <1>1, <1>6, PlusFacts
  <1> QED BY <1>1, <1>5, <1>7 DEF Following, Members

(* Once the mean or the value is NA, the mean and M2 are.                   *)
LEMMA FollowingNA ==
  ASSUME NEW s \in Members, NEW n \in Numbers, s.count + 1 <= MaxCount,
         s.mean = NA \/ n = NA
  PROVE  NewMean(s, n) = NA /\ Plus(s.M2, SquaresAdded(s, n)) = NA
  <1>1. /\ n \in Value /\ s.mean \in Value /\ s.M2 \in Value /\ NA \in Value
        /\ s.count + 1 \in Nat \ {0}
    BY NumbersAreValues DEF Members
  <1>2. Scaled(n) \in Value /\ (n = NA => Scaled(n) = NA)
    BY <1>1, OtherFacts
  <1>3. Delta(s, n) = NA
    <2>1. NA \in {Scaled(n), s.mean}
      BY <1>2
    <2> QED BY <1>1, <1>2, <2>1, MinusFacts DEF Delta
  <1>4. Over(Delta(s, n), s.count + 1) = NA
    BY <1>1, <1>3, OtherFacts
  <1>5. NewMean(s, n) = NA
    <2>1. NA \in {s.mean, NA}
      OBVIOUS
    <2> QED BY <1>1, <1>4, <2>1, PlusFacts DEF NewMean
  <1>6. SquaresAdded(s, n) = NA
    <2>1. Minus(Scaled(n), NewMean(s, n)) \in Value
      BY <1>1, <1>2, <1>5, MinusFacts
    <2>2. \A z : NA \in {NA, z}
      OBVIOUS
    <2> QED BY <1>1, <1>3, <2>1, <2>2, OtherFacts DEF SquaresAdded
  <1>7. Plus(s.M2, NA) = NA
    <2>1. NA \in {s.M2, NA}
      OBVIOUS
    <2> QED BY <1>1, <2>1, PlusFacts
  <1> QED BY <1>5, <1>6, <1>7

(* Of integers, the new mean and M2 are those of WelfordStep.               *)
LEMMA FollowingFinite ==
  ASSUME NEW s \in Members, NEW n \in Numbers, s.count + 1 <= MaxCount,
         s.mean \in Int, s.M2 \in Int, n \in Int,
         NEW d, d = Scale * n - s.mean,
         NEW newMean, newMean = s.mean + (d \div (s.count + 1))
  PROVE  /\ NewMean(s, n) = newMean
         /\ Plus(s.M2, SquaresAdded(s, n)) = s.M2 + d * (Scale * n - newMean)
  <1>1. /\ n \in Value /\ s.mean \in Value /\ s.M2 \in Value
        /\ s.count + 1 \in Nat \ {0} /\ Scale \in Int
    BY NumbersAreValues, StatsAssumption DEF Members
  <1>2. Scaled(n) \in Value /\ Scaled(n) = Scale * n /\ Scale * n \in Int
    BY <1>1, OtherFacts
  <1>3. d \in Int /\ d \in Value /\ Delta(s, n) = d
    <2>1. d \in Int
      BY <1>1
    <2> QED BY <1>1, <1>2, <2>1, MinusFacts DEF Delta, Value
  <1>4. Over(d, s.count + 1) = d \div (s.count + 1)
    BY <1>1, <1>3, OtherFacts
  <1>5. d \div (s.count + 1) \in Int /\ d \div (s.count + 1) \in Value
    <2>1. d \div (s.count + 1) \in Int
      BY <1>1, <1>3
    <2> QED BY <2>1 DEF Value
  <1>6. NewMean(s, n) = newMean /\ newMean \in Int /\ newMean \in Value
    <2>1. newMean \in Int
      BY <1>5
    <2>2. Plus(s.mean, d \div (s.count + 1)) = newMean
      BY <1>1, <1>5, PlusFacts
    <2> QED BY <1>3, <1>4, <2>1, <2>2 DEF NewMean, Value
  <1>7. Minus(Scaled(n), newMean) = Scale * n - newMean
    BY <1>2, <1>6, MinusFacts
  <1>8. Scale * n - newMean \in Int /\ Scale * n - newMean \in Value
    <2>1. Scale * n - newMean \in Int
      BY <1>2, <1>6
    <2> QED BY <2>1 DEF Value
  <1>9. SquaresAdded(s, n) = d * (Scale * n - newMean)
    BY <1>1, <1>3, <1>6, <1>7, <1>8, OtherFacts DEF SquaresAdded
  <1>10. d * (Scale * n - newMean) \in Int /\ d * (Scale * n - newMean) \in Value
    <2>1. d * (Scale * n - newMean) \in Int
      BY <1>3, <1>8
    <2> QED BY <2>1 DEF Value
  <1>11. Plus(s.M2, SquaresAdded(s, n)) = s.M2 + d * (Scale * n - newMean)
    <2>1. \A z \in Value : s.M2 \in Int /\ z \in Int => Plus(s.M2, z) = s.M2 + z
      BY <1>1, PlusFacts
    <2> QED BY <1>9, <1>10, <2>1
  <1> QED BY <1>6, <1>11

-----------------------------------------------------------------------------
(* A stream and the stream with one more value.                             *)

LEMMA StreamFacts ==
  ASSUME NEW s \in Seq(Numbers)
  PROVE  /\ ToSet(s) \subseteq Numbers
         /\ AllFinite(s) <=> \A x \in ToSet(s) : x \in Int
         /\ HasNA(s) <=> NA \in ToSet(s)
         /\ AllFinite(s) => Total(s) \in Int /\ Squares(s) \in Int
  <1>1. \A i \in DOMAIN s : s[i] \in Numbers /\ s[i] \in Value
    BY NumbersAreValues
  <1>2. \A i \in DOMAIN s : IsFinite(s[i]) <=> s[i] \in Int
    BY <1>1, Kinds
  <1>3. Len(s) \in Nat /\ DOMAIN s = 1..Len(s)
    OBVIOUS
  <1>4. ASSUME AllFinite(s) PROVE Total(s) \in Int /\ Squares(s) \in Int
    <2> DEFINE q == [i \in 1..Len(s) |-> s[i] * s[i]]
    <2>1. \A i \in 1..Len(s) : s[i] \in Int
      BY <1>2, <1>3, <1>4 DEF AllFinite
    <2>2. \A i \in 1..Len(s) : q[i] \in Int
      BY <2>1
    <2>3. Len(s) \in 0..Len(s)
      BY <1>3
    <2>4. SumTo(s, Len(s)) \in Int
      BY <1>3, <2>1, <2>3, SumToType
    <2>5. SumTo(q, Len(s)) \in Int
      <3> HIDE DEF q
      <3> QED BY <1>3, <2>2, <2>3, SumToType
    <2> QED BY <2>4, <2>5 DEF Total, Squares
  <1>5. ToSet(s) \subseteq Numbers
    BY <1>1 DEF ToSet
  <1>6. AllFinite(s) <=> \A x \in ToSet(s) : x \in Int
    BY <1>2 DEF AllFinite, ToSet
  <1>7. HasNA(s) <=> NA \in ToSet(s)
    BY DEF HasNA, IsNA, ToSet
  <1> QED BY <1>4, <1>5, <1>6, <1>7

LEMMA AppendFacts ==
  ASSUME NEW s \in Seq(Numbers), NEW n \in Numbers
  PROVE  /\ Append(s, n) \in Seq(Numbers) /\ Append(s, n) # <<>>
         /\ Len(Append(s, n)) = Len(s) + 1
         /\ ToSet(Append(s, n)) = ToSet(s) \cup {n}
         /\ Total(Append(s, n)) = Total(s) + n
         /\ Squares(Append(s, n)) = Squares(s) + n * n
  <1> DEFINE t == Append(s, n)
             k == Len(s)
             q == [i \in 1..Len(s) |-> s[i] * s[i]]
             r == [i \in 1..Len(t) |-> t[i] * t[i]]
  <1>1. /\ t \in Seq(Numbers) /\ k \in Nat /\ Len(t) = k + 1
        /\ t[k + 1] = n /\ \A i \in 1..k : t[i] = s[i]
    OBVIOUS
  <1>2. DOMAIN s = 1..k /\ DOMAIN t = 1..(k + 1)
    BY <1>1
  <1>3. r[k + 1] = n * n /\ \A i \in 1..k : r[i] = q[i]
    BY <1>1
  <1>4. ToSet(t) = ToSet(s) \cup {n}
    <2> HIDE DEF t, k
    <2>1. 1..(k + 1) = (1..k) \cup {k + 1}
      BY <1>1
    <2> QED BY <1>1, <1>2, <2>1 DEF ToSet
  <1> HIDE DEF t, k, q, r
  <1>5. SumTo(t, k + 1) = SumTo(s, k) + n
    BY <1>1, SumToNext, SumToSame
  <1>6. SumTo(r, k + 1) = SumTo(q, k) + n * n
    BY <1>1, <1>3, SumToNext, SumToSame
  <1>7. t # <<>>
    BY <1>1
  <1>8. Total(t) = Total(s) + n
    BY <1>1, <1>5 DEF Total, k
  <1>9. Squares(t) = Squares(s) + n * n
    BY <1>1, <1>6 DEF Squares, k, q, r
  <1> QED BY <1>1, <1>4, <1>7, <1>8, <1>9 DEF t, k

-----------------------------------------------------------------------------
(* The initial state, and one value.                                        *)

LEMMA InitIInv == Init => IInv
  <1> SUFFICES ASSUME Init PROVE IInv
    OBVIOUS
  <1>1. PICK x \in Uninitialized :
          m = [count |-> 0, mean |-> x, min |-> x, max |-> x, sum |-> x, M2 |-> x]
    BY DEF Init
  <1>2. todo = <<>> /\ stream = <<>> /\ m_na_rm \in BOOLEAN
    BY DEF Init
  <1>3. x \in Value /\ x \in Numbers \cup {0}
    BY NumbersAreValues DEF Uninitialized, Value
  <1>4. 0 \in 0..MaxCount /\ MaxCount \in Nat
    BY StatsAssumption
  <1>5. m \in Members /\ m.count = 0
    BY <1>1, <1>3, <1>4 DEF Members
  <1>6. TypeOK
    BY <1>2, <1>4, <1>5 DEF TypeOK, Members
  <1>7. ToSet(stream) = {}
    BY <1>2 DEF ToSet
  <1> QED BY <1>2, <1>5, <1>6, <1>7
          DEF IInv, CountIsLen, SumIsNA, NAStays, StoredExtremes, FiniteSums

(* What the invariant says of members v of a stream s.                      *)
Describes(v, s) ==
    /\ v.count = Len(s)
    /\ s # <<>> => SumKind(ToSet(s), v.sum)
    /\ NA \in ToSet(s) => v.mean = NA /\ (v.count >= 2 => v.M2 = NA)
    /\ s # <<>> /\ NA \notin ToSet(s) => Extreme(ToSet(s), v.min, v.max)
    /\ s # <<>> /\ AllFinite(s) =>
          /\ v.sum = Total(s)
          /\ Welford(Len(s), Total(s), Squares(s), v.mean, v.M2)

LEMMA IInvDescribes == IInv <=> TypeOK /\ Describes(m, stream)
  BY DEF IInv, Describes, CountIsLen, SumIsNA, NAStays, StoredExtremes, FiniteSums

(* The first value sets every member.                                       *)
LEMMA FirstDescribes ==
  ASSUME NEW n \in Numbers, 1 <= MaxCount
  PROVE  Describes(First(n), Append(<<>>, n))
  <1> DEFINE s == <<>>
             t == Append(s, n)
             v == First(n)
  <1>1. s \in Seq(Numbers) /\ Len(s) = 0 /\ ToSet(s) = {}
    BY DEF ToSet
  <1>2. /\ t \in Seq(Numbers) /\ Len(t) = Len(s) + 1
        /\ ToSet(t) = ToSet(s) \cup {n}
        /\ Total(t) = Total(s) + n /\ Squares(t) = Squares(s) + n * n
    BY <1>1, AppendFacts
  <1>3. Total(s) = 0 /\ Squares(s) = 0
    BY <1>1, SumToZero DEF Total, Squares
  <1>4. /\ v.count = 1 /\ v.mean = Scaled(n) /\ v.min = n /\ v.max = n
        /\ v.sum = n /\ v.M2 = 0
    BY DEF First
  <1>5. /\ n \in Value /\ Scale \in Int
        /\ n \in Int => Scaled(n) = Scale * n
        /\ n = NA => Scaled(n) = NA
    BY NumbersAreValues, FirstType, StatsAssumption
  <1> HIDE DEF s, t, v
  <1>6. ToSet(t) = {n} /\ Len(t) = 1
    BY <1>1, <1>2
  <1>7. SumKind(ToSet(t), v.sum)
    BY <1>4, <1>5, <1>6, Kinds, Distinct DEF SumKind
  <1>8. NA \notin ToSet(t) => Extreme(ToSet(t), v.min, v.max)
    BY <1>4, <1>5, <1>6, LessFacts DEF Extreme
  <1>9. ASSUME AllFinite(t)
        PROVE  v.sum = Total(t) /\ Welford(Len(t), Total(t), Squares(t), v.mean, v.M2)
    <2>1. n \in Int
      BY <1>2, <1>6, <1>9, StreamFacts
    <2>2. Total(t) = n /\ Squares(t) = n * n
      BY <1>2, <1>3, <2>1
    <2>3. Welford(1, n, n * n, Scale * n, 0)
      BY <1>5, <2>1 DEF Welford
    <2> QED BY <1>4, <1>5, <1>6, <2>1, <2>2, <2>3
  <1>10. NA \in ToSet(t) => v.mean = NA /\ ~(v.count >= 2)
    BY <1>4, <1>5, <1>6
  <1>11. Describes(v, t)
    BY <1>4, <1>6, <1>7, <1>8, <1>9, <1>10 DEF Describes
  <1> QED BY <1>11 DEF s, t, v

(* Every later value adds to them.                                          *)
LEMMA FollowingDescribes ==
  ASSUME NEW v \in Members, NEW s \in Seq(Numbers), Describes(v, s), s # <<>>,
         NEW n \in Numbers, v.count + 1 <= MaxCount
  PROVE  Describes(Following(v, n), Append(s, n))
  <1> DEFINE t == Append(s, n)
             w == Following(v, n)
  <1>1. /\ w.count = v.count + 1
        /\ w.mean = NewMean(v, n)
        /\ w.M2 = Plus(v.M2, SquaresAdded(v, n))
        /\ w.min = (IF Less(n, v.min) THEN n ELSE v.min)
        /\ w.max = (IF ~Less(n, v.min) /\ Less(v.max, n) THEN n ELSE v.max)
        /\ w.sum = Plus(v.sum, n)
    BY DEF Following
  <1>2. /\ t \in Seq(Numbers) /\ t # <<>> /\ Len(t) = Len(s) + 1
        /\ ToSet(t) = ToSet(s) \cup {n}
        /\ Total(t) = Total(s) + n /\ Squares(t) = Squares(s) + n * n
    BY AppendFacts
  <1>3. /\ n \in Value /\ v.mean \in Value /\ v.M2 \in Value /\ v.sum \in Value
        /\ Len(s) \in Nat \ {0} /\ v.count = Len(s) /\ ToSet(s) \subseteq Value
    <2>1. Len(s) \in Nat \ {0}
      OBVIOUS
    <2>2. v.count = Len(s)
      BY DEF Describes
    <2>3. v.mean \in Value /\ v.M2 \in Value /\ v.sum \in Value
      BY DEF Members
    <2> QED BY <2>1, <2>2, <2>3, NumbersAreValues, StreamFacts
  <1> HIDE DEF t, w
  <1>4. w.count = Len(t)
    BY <1>1, <1>2, <1>3
  <1>5. SumKind(ToSet(t), w.sum)
    <2>1. SumKind(ToSet(s), v.sum)
      BY DEF Describes
    <2> QED BY <1>1, <1>2, <1>3, <2>1, SumOneMore
  <1>6. ASSUME NA \in ToSet(t) PROVE w.mean = NA /\ w.M2 = NA
    <2>1. v.mean = NA \/ n = NA
      BY <1>2, <1>6 DEF Describes
    <2> QED BY <1>1, <2>1, FollowingNA
  <1>7. ASSUME NA \notin ToSet(t) PROVE Extreme(ToSet(t), w.min, w.max)
    <2>1. NA \notin ToSet(s) /\ n \in Value \ {NA}
      BY <1>2, <1>3, <1>7
    <2>2. Extreme(ToSet(s), v.min, v.max)
      BY <2>1 DEF Describes
    <2>3. ToSet(s) \in SUBSET (Value \ {NA})
      BY <1>3, <2>1
    <2> DEFINE lo == IF Less(n, v.min) THEN n ELSE v.min
               hi == IF ~Less(n, v.min) /\ Less(v.max, n) THEN n ELSE v.max
    <2>4. Extreme(ToSet(s) \cup {n}, lo, hi)
      BY <2>1, <2>2, <2>3, ExtremesOneMore
    <2>5. w.min = lo /\ w.max = hi
      BY <1>1
    <2> HIDE DEF lo, hi
    <2> QED BY <1>2, <2>4, <2>5
  <1>8. ASSUME AllFinite(t)
        PROVE  w.sum = Total(t) /\ Welford(Len(t), Total(t), Squares(t), w.mean, w.M2)
    <2>1. n \in Int /\ AllFinite(s)
      BY <1>2, <1>8, StreamFacts
    <2>2. Total(s) \in Int /\ Squares(s) \in Int
      BY <2>1, StreamFacts
    <2>3. /\ v.sum = Total(s)
          /\ Welford(Len(s), Total(s), Squares(s), v.mean, v.M2)
      BY <2>1 DEF Describes
    <2>4. v.mean \in Int /\ v.M2 \in Int
      BY <2>3 DEF Welford
    <2>5. w.sum = Total(t)
      BY <1>1, <1>2, <1>3, <2>1, <2>2, <2>3, PlusFacts
    <2> DEFINE d == Scale * n - v.mean
               newMean == v.mean + (d \div (v.count + 1))
    <2>6. NewMean(v, n) = newMean
          /\ Plus(v.M2, SquaresAdded(v, n)) = v.M2 + d * (Scale * n - newMean)
      BY <2>1, <2>4, FollowingFinite
    <2>7. Welford(Len(s) + 1, Total(s) + n, Squares(s) + n * n,
                  newMean, v.M2 + d * (Scale * n - newMean))
      BY <1>3, <2>1, <2>2, <2>3, WelfordStep
    <2> HIDE DEF d, newMean
    <2> QED BY <1>1, <1>2, <2>5, <2>6, <2>7
  <1>9. Describes(w, t)
    BY <1>2, <1>4, <1>5, <1>6, <1>7, <1>8 DEF Describes
  <1> QED BY <1>9 DEF t, w

-----------------------------------------------------------------------------
(* The invariant is inductive.                                              *)

LEMMA LoopStep == IInv /\ updateLoop => IInv'
  <1> SUFFICES ASSUME IInv, updateLoop PROVE IInv'
    OBVIOUS
  <1> DEFINE n == Head(todo)
  <1>1. /\ TypeOK /\ Describes(m, stream)
        /\ m \in Members /\ m.count = Len(stream)
        /\ stream \in Seq(Numbers) /\ todo \in Seq(Numbers)
        /\ m.count + Len(todo) <= MaxCount /\ m_na_rm \in BOOLEAN
    BY IInvDescribes DEF TypeOK, Members, Describes
  <1>2. n \in Numbers /\ Tail(todo) \in Seq(Numbers)
        /\ Len(todo) \in Nat \ {0} /\ Len(Tail(todo)) = Len(todo) - 1
    BY <1>1 DEF updateLoop
  <1>3. todo' = Tail(todo) /\ m_na_rm' \in BOOLEAN
    BY <1>1 DEF updateLoop
  <1>4. MaxCount \in Nat /\ m.count \in Nat
    BY <1>1, StatsAssumption DEF Members
  <1>5. CASE m_na_rm /\ IsNA(n)
    <2>1. m' = m /\ stream' = stream
      BY <1>5 DEF updateLoop, UpdateOne
    <2>2. TypeOK'
      <3>1. m.count + (Len(todo) - 1) <= MaxCount
        BY <1>1, <1>2, <1>4
      <3> QED BY <1>1, <1>2, <1>3, <2>1, <3>1 DEF TypeOK
    <2>3. Describes(m', stream')
      BY <1>1, <2>1
    <2> QED BY <2>2, <2>3
            DEF IInv, Describes, CountIsLen, SumIsNA, NAStays, StoredExtremes, FiniteSums
  <1>6. CASE ~(m_na_rm /\ IsNA(n))
    <2>1. /\ stream' = Append(stream, n)
          /\ m' = IF m.count = 0 THEN First(n) ELSE Following(m, n)
      BY <1>6 DEF updateLoop, UpdateOne
    <2>2. m.count + 1 <= MaxCount
      BY <1>1, <1>2, <1>4
    <2>3. m' \in Members /\ m'.count = m.count + 1 /\ Describes(m', stream')
      <3>1. CASE m.count = 0
        <4>1. stream = <<>> /\ m' = First(n) /\ 1 <= MaxCount
          <5>1. stream = <<>>
            <6>1. stream \in Seq(Numbers) /\ Len(stream) = 0
              BY <1>1, <3>1
            <6> QED BY <6>1
          <5>2. 1 <= MaxCount
            BY <1>4, <2>2, <3>1
          <5> QED BY <2>1, <3>1, <5>1, <5>2
        <4>2. First(n).count = 1
          BY DEF First
        <4> HIDE DEF n
        <4> QED BY <1>2, <2>1, <3>1, <4>1, <4>2, FirstType, FirstDescribes
      <3>2. CASE m.count # 0
        <4>1. stream # <<>> /\ m' = Following(m, n)
          BY <1>1, <2>1, <3>2
        <4>2. Following(m, n).count = m.count + 1
          BY DEF Following
        <4> HIDE DEF n
        <4> QED BY <1>1, <1>2, <2>1, <2>2, <4>1, <4>2, FollowingType, FollowingDescribes
      <3> QED BY <3>1, <3>2
    <2>4. stream' \in Seq(Numbers)
      BY <1>1, <1>2, <2>1, AppendFacts
    <2>5. m'.count + Len(todo') <= MaxCount
      BY <1>1, <1>2, <1>3, <1>4, <2>3
    <2>6. TypeOK'
      BY <1>2, <1>3, <2>3, <2>4, <2>5 DEF TypeOK, Members
    <2> QED BY <2>3, <2>6
            DEF IInv, Describes, CountIsLen, SumIsNA, NAStays, StoredExtremes, FiniteSums
  <1> QED BY <1>5, <1>6

LEMMA OtherSteps ==
  IInv /\ ((\E c \in Chunks : update(c)) \/ reset \/ UNCHANGED vars) => IInv'
  <1>1. ASSUME IInv, NEW c \in Chunks, update(c) PROVE IInv'
    <2>1. m' = m /\ stream' = stream /\ m_na_rm' = m_na_rm /\ todo' = c
      BY <1>1 DEF update
    <2>2. PICK n \in 1..MaxChunk : c \in [1..n -> Numbers]
      BY DEF Chunks
    <2>3. c \in Seq(Numbers) /\ Len(c) \in Nat
      BY <2>2, StatsAssumption
    <2>4. m.count + Len(c) <= MaxCount
      BY <1>1 DEF update, IInv, CountIsLen
    <2>5. TypeOK'
      BY <1>1, <2>1, <2>3, <2>4 DEF TypeOK, IInv
    <2> QED BY <1>1, <2>1, <2>5
            DEF IInv, CountIsLen, SumIsNA, NAStays, StoredExtremes, FiniteSums
  <1>2. ASSUME IInv, reset PROVE IInv'
    <2>1. /\ m' = [m EXCEPT !.count = 0] /\ stream' = <<>>
          /\ m_na_rm' = m_na_rm /\ todo' = <<>>
      BY <1>2 DEF reset
    <2>2. m \in Members /\ m_na_rm \in BOOLEAN /\ 0 \in 0..MaxCount /\ MaxCount \in Nat
      BY <1>2, StatsAssumption DEF IInv, TypeOK, Members
    <2>3. m' \in Members /\ m'.count = 0
      BY <2>1, <2>2 DEF Members
    <2>4. TypeOK'
      BY <2>1, <2>2, <2>3 DEF TypeOK, Members
    <2>5. ToSet(stream') = {} /\ Len(stream') = 0
      BY <2>1 DEF ToSet
    <2> QED BY <2>1, <2>3, <2>4, <2>5
            DEF IInv, CountIsLen, SumIsNA, NAStays, StoredExtremes, FiniteSums
  <1>3. ASSUME IInv, UNCHANGED vars PROVE IInv'
    BY <1>3 DEF vars, IInv, TypeOK, CountIsLen, SumIsNA, NAStays, StoredExtremes,
                FiniteSums
  <1> QED BY <1>1, <1>2, <1>3

LEMMA Inductive == Spec => []IInv
  <1>1. IInv /\ [Next]_vars => IInv'
    BY LoopStep, OtherSteps DEF Next
  <1> QED BY InitIInv, <1>1, PTL DEF Spec

-----------------------------------------------------------------------------
(* The statistics reported.                                                 *)

(* The sum of the squared deviations, opened.                               *)
LEMMA DeviationsOpened ==
  ASSUME NEW s \in Seq(Numbers), AllFinite(s)
  PROVE  Deviations(s) = Len(s) * (Len(s) * Squares(s) - Total(s) * Total(s))
  <1> DEFINE N == Len(s)
             T == Total(s)
             q == [i \in 1..Len(s) |-> s[i] * s[i]]
             e == [i \in 1..Len(s) |-> (Len(s) * s[i] - Total(s)) * (Len(s) * s[i] - Total(s))]
             G == {k \in Nat : k <= N => SumTo(e, k) = N * N * SumTo(q, k)
                                           - 2 * N * T * SumTo(s, k) + k * T * T}
  <1>1. N \in Nat /\ T \in Int
    BY StreamFacts
  <1>2. \A i \in 1..N : s[i] \in Int
    BY StreamFacts DEF ToSet
  <1>3. \A i \in 1..N : /\ q[i] = s[i] * s[i] /\ q[i] \in Int
                        /\ e[i] = (N * s[i] - T) * (N * s[i] - T)
    BY <1>2
  <1>4. /\ T = SumTo(s, N) /\ Squares(s) = SumTo(q, N)
        /\ Deviations(s) = SumTo(e, N)
    BY DEF Total, Squares, Deviations
  <1> HIDE DEF N, T, q, e
  <1>5. \A k \in 0..N : SumTo(s, k) \in Int /\ SumTo(q, k) \in Int
    <2>1. \A k \in 0..N : SumTo(s, k) \in Int
      BY <1>1, <1>2, SumToType
    <2>2. \A k \in 0..N : SumTo(q, k) \in Int
      BY <1>1, <1>3, SumToType
    <2> QED BY <2>1, <2>2
  <1>6. 0 \in G
    <2>1. SumTo(e, 0) = 0 /\ SumTo(q, 0) = 0 /\ SumTo(s, 0) = 0
      BY SumToZero
    <2> QED BY <1>1, <2>1
  <1>7. ASSUME NEW k \in G PROVE k + 1 \in G
    <2> SUFFICES ASSUME k + 1 <= N
                 PROVE  SumTo(e, k + 1) = N * N * SumTo(q, k + 1)
                          - 2 * N * T * SumTo(s, k + 1) + (k + 1) * T * T
      OBVIOUS
    <2>1. k \in 0..N /\ k + 1 \in 1..N /\ k \in Nat
      BY <1>1
    <2>2. SumTo(e, k) = N * N * SumTo(q, k) - 2 * N * T * SumTo(s, k) + k * T * T
      BY <1>1, <2>1
    <2>3. /\ SumTo(e, k + 1) = SumTo(e, k) + e[k + 1]
          /\ SumTo(q, k + 1) = SumTo(q, k) + q[k + 1]
          /\ SumTo(s, k + 1) = SumTo(s, k) + s[k + 1]
      BY <2>1, SumToNext
    <2>4. \A n, t, a, b, x, j \in Int :
             (n * n * a - 2 * n * t * b + j * t * t) + (n * x - t) * (n * x - t)
                = n * n * (a + x * x) - 2 * n * t * (b + x) + (j + 1) * t * t
      OBVIOUS
    <2>5. /\ N \in Int /\ T \in Int /\ SumTo(q, k) \in Int /\ SumTo(s, k) \in Int
          /\ s[k + 1] \in Int /\ k \in Int
      BY <1>1, <1>2, <1>5, <2>1
    <2>6. q[k + 1] = s[k + 1] * s[k + 1]
          /\ e[k + 1] = (N * s[k + 1] - T) * (N * s[k + 1] - T)
      BY <1>3, <2>1
    <2> DEFINE a == SumTo(q, k)
               b == SumTo(s, k)
               x == s[k + 1]
    <2>7. (N * N * a - 2 * N * T * b + k * T * T) + (N * x - T) * (N * x - T)
             = N * N * (a + x * x) - 2 * N * T * (b + x) + (k + 1) * T * T
      <3>1. a \in Int /\ b \in Int /\ x \in Int
        BY <2>5
      <3> HIDE DEF a, b, x, G
      <3> QED BY <2>4, <2>5, <3>1
    <2> QED BY <2>2, <2>3, <2>6, <2>7
  <1>8. G = Nat
    <2>1. G \in SUBSET Nat
      OBVIOUS
    <2> HIDE DEF G
    <2> QED BY <1>6, <1>7, <2>1, Induction
  <1>9. SumTo(e, N) = N * N * SumTo(q, N) - 2 * N * T * SumTo(s, N) + N * T * T
    BY <1>1, <1>8
  <1>10. SumTo(q, N) \in Int
    BY <1>1, <1>5
  <1>11. SumTo(e, N) = N * (N * SumTo(q, N) - T * T)
    <2>1. \A n, t, a \in Int :
             n * n * a - 2 * n * t * t + n * t * t = n * (n * a - t * t)
      OBVIOUS
    <2> QED BY <1>1, <1>4, <1>9, <1>10, <2>1
  <1> QED BY <1>4, <1>11 DEF N, T

(* The data members keep the shape the class declares.                      *)
THEOREM TypeCorrect == Spec => []TypeOK
  <1>1. IInv => TypeOK
    BY DEF IInv
  <1> QED BY Inductive, <1>1, PTL

(* Count, sum and mean are those of all the values retained, however update() *)
(* was given them.                                                          *)
THEOREM CountSumMeanRight == Spec => []CountSumMean
  <1>1. IInv => CountSumMean
    <2> SUFFICES ASSUME IInv PROVE CountSumMean
      OBVIOUS
    <2>1. stream \in Seq(Numbers) /\ m.count = Len(stream) /\ Len(stream) \in Nat
      BY DEF IInv, TypeOK, CountIsLen
    <2>2. CASE stream = <<>>
      <3>1. Len(stream) = 0 /\ Total(stream) = 0
        BY <2>2, SumToZero DEF Total
      <3> QED BY <2>1, <2>2, <3>1 DEF CountSumMean, get_count, get_sum
    <2>3. CASE stream # <<>>
      <3>1. m.count > 0
        BY <2>1, <2>3
      <3>2. AllFinite(stream) =>
              m.sum = Total(stream) /\ m.mean * Len(stream) = Scale * Total(stream)
        BY <2>3 DEF IInv, FiniteSums, Welford
      <3> QED BY <2>1, <3>1, <3>2 DEF CountSumMean, get_count, get_sum, get_mean
    <2> QED BY <2>2, <2>3
  <1> QED BY Inductive, <1>1, PTL

(* get_var() of the one-pass M2 is the two-pass sample variance.            *)
THEOREM VarianceRight == Spec => []VarianceIsTwoPass
  <1>1. IInv => VarianceIsTwoPass
    <2> SUFFICES ASSUME IInv, AllFinite(stream), Len(stream) >= 2
                 PROVE  get_var * Len(stream) * Len(stream)
                           = Scale * Scale * Deviations(stream)
      BY DEF VarianceIsTwoPass
    <2> DEFINE N == Len(stream)
               Q == Squares(stream)
               T == Total(stream)
    <2>1. stream \in Seq(Numbers) /\ m.count = N /\ N \in Nat /\ Scale \in Int
      BY StatsAssumption DEF IInv, TypeOK, CountIsLen
    <2>2. Q \in Int /\ T \in Int
      BY <2>1, StreamFacts
    <2>3. stream # <<>>
      BY <2>1
    <2>4. m.M2 \in Int /\ m.M2 * N = Scale * Scale * (N * Q - T * T)
      BY <2>3 DEF IInv, FiniteSums, Welford
    <2>5. get_var = m.M2
      BY <2>1 DEF get_var
    <2>6. Deviations(stream) = N * (N * Q - T * T)
      BY <2>1, DeviationsOpened
    <2> HIDE DEF N, Q, T
    <2>7. (m.M2 * N) * N = Scale * Scale * (N * (N * Q - T * T))
      <3>1. \A n, c, a \in Int : (c * c * a) * n = c * c * (n * a)
        OBVIOUS
      <3>2. N * Q - T * T \in Int
        BY <2>1, <2>2
      <3> QED BY <2>1, <2>4, <3>1, <3>2
    <2> QED BY <2>5, <2>6, <2>7 DEF N
  <1> QED BY Inductive, <1>1, PTL

(* The extremes reported are attained and bound the stream, and an NA in it *)
(* makes every statistic NA.                                                *)
THEOREM ExtremesRight == Spec => []ExtremesOrNA
  <1>1. ASSUME IInv PROVE ExtremesReceived
    <2> SUFFICES ASSUME stream # <<>>, ~HasNA(stream),
                        ~({PosInf, NegInf} \subseteq ToSet(stream))
                 PROVE  /\ {get_min, get_max} \subseteq ToSet(stream)
                        /\ \A x \in ToSet(stream) : ~Less(x, get_min) /\ ~Less(get_max, x)
      BY DEF ExtremesReceived
    <2>1. stream \in Seq(Numbers) /\ m.count = Len(stream)
      BY <1>1 DEF IInv, TypeOK, CountIsLen
    <2>2. m.count > 0 /\ NA \notin ToSet(stream)
      BY <2>1, StreamFacts
    <2>3. SumKind(ToSet(stream), m.sum)
      BY <1>1 DEF IInv, SumIsNA
    <2>4. m.sum # NA
      BY <2>2, <2>3, Distinct DEF SumKind
    <2>5. get_min = m.min /\ get_max = m.max
      BY <2>2, <2>4 DEF get_min, get_max, IsNA
    <2>6. Extreme(ToSet(stream), m.min, m.max)
      BY <1>1, <2>2 DEF IInv, StoredExtremes
    <2> QED BY <2>5, <2>6 DEF Extreme
  <1>2. ASSUME IInv PROVE NAIsSticky
    <2> SUFFICES ASSUME HasNA(stream)
                 PROVE  /\ get_mean = NA /\ get_min = NA /\ get_max = NA
                        /\ get_sum = NA /\ get_var = NA
      BY DEF NAIsSticky, IsNA
    <2>1. stream \in Seq(Numbers) /\ m.count = Len(stream) /\ stream # <<>>
      BY <1>2 DEF IInv, TypeOK, CountIsLen, HasNA
    <2>2. m.count > 0 /\ m.count \in Nat /\ NA \in ToSet(stream)
      BY <2>1, StreamFacts
    <2>3. m.sum = NA
      BY <1>2, <2>1, <2>2 DEF IInv, SumIsNA, SumKind
    <2>4. m.mean = NA /\ (m.count >= 2 => m.M2 = NA)
      BY <1>2, <2>2 DEF IInv, NAStays
    <2> QED BY <2>2, <2>3, <2>4
            DEF get_mean, get_min, get_max, get_sum, get_var, IsNA
  <1> QED BY Inductive, <1>1, <1>2, PTL DEF ExtremesOrNA
=============================================================================
