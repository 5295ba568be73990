-------------------------- MODULE ChunkIndexProofs --------------------------
(* Proofs about ChunkIndex for every raster, block and max_pixels, and for  *)
(* ints and doubles of any width: the chunks tile the raster.               *)
EXTENDS ChunkIndex, WellFoundedInduction, TLAPS

-----------------------------------------------------------------------------
(* Powers of two.                                                           *)

\* Induction on the natural numbers, for a set instead of a predicate.
LEMMA Induction ==
  ASSUME NEW T \in SUBSET Nat, 0 \in T, \A n \in T : n + 1 \in T
  PROVE  T = Nat
  <1> SUFFICES ASSUME Nat \ T # {} PROVE FALSE
    OBVIOUS
  <1>1. \E t \in Nat \ T : \A k \in Nat \ T : ~(<<k, t>> \in OpToRel(<, Nat))
    <2>1. Nat \ T \in SUBSET Nat
      OBVIOUS
    <2> QED BY <2>1, WFMin, NatLessThanWellFounded
  <1>2. PICK t \in Nat \ T : \A k \in Nat \ T : ~(k < t)
    BY <1>1 DEF OpToRel
  <1>3. t # 0 /\ t - 1 \in Nat /\ t - 1 < t
    BY <1>2
  <1>4. t - 1 \in T
    BY <1>2, <1>3
  <1>5. (t - 1) + 1 \in T
    BY <1>4
  <1> QED BY <1>2, <1>3, <1>5

\* The first powers of two: the part of Pow2 on 0..n.
Powers(p, n) ==
    /\ p = [i \in 0..n |-> p[i]]
    /\ \A i \in 0..n : p[i] = IF i = 0 THEN 1 ELSE 2 * p[i - 1]

LEMMA PowersExist == \A n \in Nat : \E p : Powers(p, n)
  <1> DEFINE T == {n \in Nat : \E p : Powers(p, n)}
  <1>1. 0 \in T
    <2>1. Powers([i \in 0..0 |-> 1], 0)
      BY DEF Powers
    <2> QED BY <2>1
  <1>2. ASSUME NEW n \in T PROVE n + 1 \in T
    <2>1. PICK p : Powers(p, n)
      BY <1>2
    <2> DEFINE q == [i \in 0..(n + 1) |-> IF i = n + 1 THEN 2 * p[n] ELSE p[i]]
    <2>2. ASSUME NEW i \in 0..(n + 1)
          PROVE  q[i] = IF i = 0 THEN 1 ELSE 2 * q[i - 1]
      <3>1. CASE i = n + 1
        BY <3>1
      <3>2. CASE i # n + 1
        <4>1. i \in 0..n /\ (i # 0 => i - 1 \in 0..n)
          BY <3>2
        <4>2. q[i] = p[i] /\ (i # 0 => q[i - 1] = p[i - 1])
          BY <3>2, <4>1
        <4>3. p[i] = IF i = 0 THEN 1 ELSE 2 * p[i - 1]
          BY <2>1, <4>1 DEF Powers
        <4> QED BY <4>2, <4>3
      <3> QED BY <3>1, <3>2
    <2>3. q = [i \in 0..(n + 1) |-> q[i]]
      OBVIOUS
    <2> HIDE DEF q
    <2>4. Powers(q, n + 1)
      BY <2>2, <2>3 DEF Powers
    <2> QED BY <2>4
  <1> HIDE DEF T
  <1>3. T = Nat
    <2>1. T \in SUBSET Nat
      BY DEF T
    <2> QED BY <1>1, <1>2, <2>1, Induction
  <1> QED BY <1>3 DEF T

LEMMA PowersAgree ==
  ASSUME NEW n \in Nat, NEW k \in Nat, n <= k,
         NEW p, Powers(p, n), NEW q, Powers(q, k)
  PROVE  \A i \in 0..n : p[i] = q[i]
  <1> DEFINE T == {i \in Nat : i \in 0..n => p[i] = q[i]}
  <1>1. 0 \in T
    BY DEF Powers
  <1>2. ASSUME NEW i \in T PROVE i + 1 \in T
    <2>1. CASE i + 1 \in 0..n
      <3>1. i \in 0..n /\ i + 1 \in 0..k /\ (i + 1) - 1 = i /\ i + 1 # 0
        BY <2>1
      <3>2. p[i + 1] = 2 * p[i] /\ q[i + 1] = 2 * q[i]
        BY <2>1, <3>1 DEF Powers
      <3> QED BY <3>1, <3>2
    <2>2. CASE i + 1 \notin 0..n
      BY <2>2
    <2> QED BY <2>1, <2>2
  <1> HIDE DEF T
  <1>3. T = Nat
    <2>1. T \in SUBSET Nat
      BY DEF T
    <2> QED BY <1>1, <1>2, <2>1, Induction
  <1> QED BY <1>3 DEF T

LEMMA Pow2Def == \A n \in Nat : Pow2[n] = IF n = 0 THEN 1 ELSE 2 * Pow2[n - 1]
  <1> DEFINE part(n) == CHOOSE p : Powers(p, n)
             all == [n \in Nat |-> part(n)[n]]
  <1>1. \A n \in Nat : Powers(part(n), n)
    BY PowersExist
  <1> HIDE DEF part
  <1>2. ASSUME NEW n \in Nat PROVE all[n] = IF n = 0 THEN 1 ELSE 2 * all[n - 1]
    <2>1. CASE n = 0
      <3>1. Powers(part(0), 0) /\ 0 \in 0..0
        BY <1>1
      <3>2. part(0)[0] = 1
        BY <3>1 DEF Powers
      <3> QED BY <2>1, <3>2
    <2>2. CASE n # 0
      <3>1. n - 1 \in Nat /\ n - 1 <= n /\ n - 1 \in 0..(n - 1) /\ n \in 0..n
        BY <2>2
      <3>2. part(n - 1)[n - 1] = part(n)[n - 1]
        BY <1>1, <3>1, PowersAgree
      <3>3. part(n)[n] = 2 * part(n)[n - 1]
        BY <1>1, <2>2, <3>1 DEF Powers
      <3> QED BY <2>2, <3>1, <3>2, <3>3
    <2> QED BY <2>1, <2>2
  <1>3. all = [n \in Nat |-> IF n = 0 THEN 1 ELSE 2 * all[n - 1]]
    <2>1. \A n \in Nat : all[n] = IF n = 0 THEN 1 ELSE 2 * all[n - 1]
      BY <1>2
    <2>2. all = [n \in Nat |-> all[n]]
      OBVIOUS
    <2> HIDE DEF all
    <2> QED BY <2>1, <2>2
  <1> HIDE DEF all
  <1>4. Pow2 = [n \in Nat |-> IF n = 0 THEN 1 ELSE 2 * Pow2[n - 1]]
    BY <1>3 DEF Pow2
  <1>5. \A n \in Nat : Pow2[n] = [i \in Nat |-> IF i = 0 THEN 1 ELSE 2 * Pow2[i - 1]][n]
    BY <1>4
  <1> QED BY <1>5

LEMMA Pow2Type ==
  /\ \A n \in Nat : Pow2[n] \in Nat \ {0}
  /\ Pow2[0] = 1
  /\ \A n \in Nat \ {0} : Pow2[n] = 2 * Pow2[n - 1] /\ Pow2[n] >= 2
  <1> DEFINE T == {n \in Nat : Pow2[n] \in Nat \ {0}}
  <1>1. Pow2[0] = 1
    BY Pow2Def
  <1>2. 0 \in T
    BY <1>1
  <1>3. ASSUME NEW n \in T PROVE n + 1 \in T
    <2>1. Pow2[n + 1] = 2 * Pow2[(n + 1) - 1] /\ (n + 1) - 1 = n
      BY Pow2Def
    <2> QED BY <2>1
  <1> HIDE DEF T
  <1>4. T = Nat
    <2>1. T \in SUBSET Nat
      BY DEF T
    <2> QED BY <1>2, <1>3, <2>1, Induction
  <1>5. \A n \in Nat : Pow2[n] \in Nat \ {0}
    BY <1>4 DEF T
  <1>6. ASSUME NEW n \in Nat \ {0} PROVE Pow2[n] = 2 * Pow2[n - 1] /\ Pow2[n] >= 2
    <2>1. n - 1 \in Nat /\ n # 0
      OBVIOUS
    <2>2. Pow2[n] = 2 * Pow2[n - 1]
      BY Pow2Def
    <2>3. Pow2[n - 1] \in Nat \ {0}
      BY <1>5, <2>1
    <2> QED BY <2>2, <2>3
  <1> QED BY <1>1, <1>5, <1>6
-----------------------------------------------------------------------------
(* Rounding.  A double is off by at most a part 1/2^Precision, a number of  *)
(* at most Precision bits is exact, and rounding is monotonic at 1.         *)

\* Rounding N/D to a whole number that has the bits of H.
LEMMA RoundedWhole ==
  ASSUME NEW N \in Nat, NEW D \in Nat \ {0}, NEW H \in Nat, H * D <= N,
         NEW m, m = Nearest(N, D)
  PROVE  /\ m \in Nat /\ m >= H
         /\ 2 * (m * D) <= 2 * N + D /\ 2 * N <= 2 * (m * D) + D
         /\ \A k \in Nat : (k * D <= N => m >= k) /\ (k * D = N => m = k)
  <1> DEFINE low == N \div D
             rem == N % D
  <1>1. low \in Nat /\ rem \in 0..(D - 1) /\ N = low * D + rem
    <2>1. low \in Nat /\ rem \in 0..(D - 1)
      OBVIOUS
    <2>2. N = D * low + rem
      OBVIOUS
    <2>3. D * low = low * D
      BY <2>1
    <2> QED BY <2>1, <2>2, <2>3
  <1>2. (m = low + 1 /\ 2 * rem >= D) \/ (m = low /\ 2 * rem <= D)
    <2>1. 2 * rem \in Int
      BY <1>1
    <2> HIDE DEF low, rem
    <2> QED BY <1>1, <2>1 DEF low, rem, Nearest
  <1> HIDE DEF low, rem
  <1>3. (low + 1) * D = low * D + D /\ low * D \in Nat
    BY <1>1
  <1>4. ASSUME NEW k \in Nat, k * D <= N PROVE k <= low
    <2> SUFFICES ASSUME k >= low + 1 PROVE FALSE
      BY <1>1
    <2>1. (low + 1) * D <= k * D
      <3>1. k * D - (low + 1) * D = (k - (low + 1)) * D /\ k - (low + 1) \in Nat
        BY <1>1
      <3>2. (k - (low + 1)) * D \in Nat
        BY <3>1
      <3>3. k * D \in Int /\ (low + 1) * D \in Int
        BY <1>1
      <3> QED BY <3>1, <3>2, <3>3
    <2>2. k * D \in Int
      OBVIOUS
    <2> QED BY <1>1, <1>3, <1>4, <2>1, <2>2
  <1>5. H <= low
    BY <1>4
  <1>6. m \in Nat /\ m >= H
    BY <1>1, <1>2, <1>5
  <1>7. 2 * (m * D) <= 2 * N + D /\ 2 * N <= 2 * (m * D) + D
    <2>1. CASE m = low + 1 /\ 2 * rem >= D
      <3>1. m * D = low * D + D
        BY <1>3, <2>1
      <3> QED BY <1>1, <1>3, <2>1, <3>1
    <2>2. CASE m = low /\ 2 * rem <= D
      <3>1. m * D = low * D
        BY <2>2
      <3> QED BY <1>1, <1>3, <2>2, <3>1
    <2> QED BY <1>2, <2>1, <2>2
  <1>8. ASSUME NEW k \in Nat PROVE (k * D <= N => m >= k) /\ (k * D = N => m = k)
    <2>1. k * D <= N => m >= k
      BY <1>1, <1>2, <1>4
    <2>2. ASSUME k * D = N PROVE m = k
      <3>1. k <= low
        BY <1>1, <1>4, <2>2
      <3>2. low <= k
        <4> SUFFICES ASSUME low >= k + 1 PROVE FALSE
          BY <1>1
        <4>1. low * D - (k + 1) * D = (low - (k + 1)) * D /\ low - (k + 1) \in Nat
          BY <1>1
        <4>2. (low - (k + 1)) * D \in Nat
          BY <4>1
        <4>3. (k + 1) * D = k * D + D /\ k * D \in Nat
          OBVIOUS
        <4> QED BY <1>1, <1>3, <2>2, <4>1, <4>2, <4>3
      <3>3. low = k
        BY <1>1, <3>1, <3>2
      <3>4. rem = 0
        BY <1>1, <1>3, <2>2, <3>3
      <3> QED BY <1>1, <1>2, <3>3, <3>4
    <2> QED BY <2>1, <2>2
  <1> QED BY <1>6, <1>7, <1>8

R == Pow2[Precision]

LEMMA Halves ==
  /\ R \in Nat \ {0} /\ Pow2[Precision - 1] \in Nat \ {0} /\ R = 2 * Pow2[Precision - 1]
  <1>1. Precision \in Nat \ {0} /\ Precision - 1 \in Nat
    BY ChunkAssumption
  <1> QED BY <1>1, Pow2Type DEF R

\* p is n/d, but for a part 1/R of it.
Near(p, n, d) ==
    /\ p.num \in Nat \ {0} /\ p.den \in Nat \ {0}
    /\ R * (p.num * d) <= (R + 1) * (n * p.den)
    /\ (R - 1) * (n * p.den) <= R * (p.num * d)

LEMMA Rounding ==
  ASSUME NEW n \in Nat \ {0}, NEW d \in Nat \ {0}, Representable(n, d)
  PROVE  /\ Near(Double(n, d), n, d)
         /\ n >= d => Double(n, d).num >= Double(n, d).den
         /\ \A k \in Nat : k < R /\ n = k * d => Double(n, d).num = k * Double(n, d).den
  <1> DEFINE e == CHOOSE e \in Exponents : Normal(n, d, e)
             a == Pow2[Positive(-e)]
             b == Pow2[Positive(e)]
             H == Pow2[Precision - 1]
             N == n * a
             D == d * b
             m == Nearest(N, D)
             V == Double(n, d)
  <1>1. e \in Exponents /\ Normal(n, d, e)
    BY DEF Representable
  <1>2. V.num = m * b /\ V.den = a
    <2> HIDE DEF e
    <2>1. V = [num |-> m * b, den |-> a]
      BY DEF Double, Num, Den, e
    <2> HIDE DEF m, V, a, b
    <2> QED BY <2>1
  <1> HIDE DEF e, V
  <1>3. /\ a \in Nat \ {0} /\ b \in Nat \ {0}
        /\ (a = 1 /\ b >= 2) \/ b = 1
    <2>1. e \in Int
      BY <1>1, ChunkAssumption
    <2>2. CASE e > 0
      <3>1. Positive(e) = e /\ Positive(-e) = 0 /\ e \in Nat \ {0}
        BY <2>1, <2>2 DEF Positive
      <3>2. Pow2[e] \in Nat \ {0} /\ Pow2[0] = 1 /\ Pow2[e] >= 2
        BY <3>1, Pow2Type
      <3> QED BY <3>1, <3>2
    <2>3. CASE ~(e > 0)
      <3>1. Positive(e) = 0 /\ Positive(-e) \in Nat
        BY <2>1, <2>3 DEF Positive
      <3>2. Pow2[Positive(-e)] \in Nat \ {0} /\ Pow2[0] = 1
        BY <3>1, Pow2Type
      <3> QED BY <3>1, <3>2
    <2> QED BY <2>2, <2>3
  <1>4. H * D <= N
    BY <1>1 DEF Normal, Num, Den
  <1> HIDE DEF a, b
  <1>5. N \in Nat \ {0} /\ D \in Nat \ {0}
    BY <1>3
  <1>6. H \in Nat \ {0} /\ R = 2 * H
    BY Halves
  <1> HIDE DEF H, N, D
  <1>7. /\ m \in Nat /\ m >= H
        /\ 2 * (m * D) <= 2 * N + D /\ 2 * N <= 2 * (m * D) + D
        /\ \A k \in Nat : (k * D <= N => m >= k) /\ (k * D = N => m = k)
    BY <1>4, <1>5, <1>6, RoundedWhole
  <1> HIDE DEF m
  <1>8. V.num \in Nat \ {0} /\ V.den \in Nat \ {0}
    <2>1. m # 0
      BY <1>6, <1>7
    <2> QED BY <1>2, <1>3, <1>7, <2>1
  <1>9. V.num * d = m * D /\ n * V.den = N
    <2>1. (m * b) * d = m * (d * b)
      BY <1>3, <1>7
    <2> QED BY <1>2, <2>1 DEF N, D
  <1>10. Near(V, n, d)
    <2> DEFINE mD == m * D
               HD == H * D
    <2>1. mD \in Nat /\ HD \in Nat
      BY <1>5, <1>6, <1>7
    <2>2. 2 * mD <= 2 * N + D /\ 2 * N <= 2 * mD + D /\ HD <= N
      BY <1>4, <1>7
    <2>3. H * (2 * mD) <= H * (2 * N + D) /\ H * (2 * N) <= H * (2 * mD + D)
      <3> HIDE DEF mD, HD
      <3>1. \A u, v \in Nat : u <= v => H * u <= H * v
        <4> SUFFICES ASSUME NEW u \in Nat, NEW v \in Nat, u <= v PROVE H * u <= H * v
          OBVIOUS
        <4>1. H * v - H * u = H * (v - u) /\ v - u \in Nat
          BY <1>6
        <4>2. H * (v - u) \in Nat /\ H * u \in Int /\ H * v \in Int
          BY <1>6, <4>1
        <4> QED BY <4>1, <4>2
      <3>2. 2 * mD \in Nat /\ 2 * N + D \in Nat /\ 2 * N \in Nat /\ 2 * mD + D \in Nat
        BY <1>5, <2>1
      <3> QED BY <2>2, <3>1, <3>2
    <2> HIDE DEF mD
    <2>4. /\ H * (2 * mD) = R * mD /\ H * (2 * N + D) = R * N + HD
          /\ H * (2 * N) = R * N /\ H * (2 * mD + D) = R * mD + HD
      BY <1>5, <1>6, <2>1
    <2>5. R * mD \in Int /\ R * N \in Int
      BY <1>5, <1>6, <2>1
    <2>6. (R + 1) * N = R * N + N /\ (R - 1) * N = R * N - N
      BY <1>5, <1>6
    <2> HIDE DEF HD
    <2>7. R * mD <= (R + 1) * N /\ (R - 1) * N <= R * mD
      BY <1>5, <2>1, <2>2, <2>3, <2>4, <2>5, <2>6
    <2> QED BY <1>8, <1>9, <2>7 DEF Near, mD
  <1>11. n >= d => V.num >= V.den
    <2> SUFFICES ASSUME n >= d PROVE m * b >= a
      BY <1>2
    <2>1. CASE b = 1
      <3>1. a * D <= N
        <4>1. a * D = a * d /\ N = n * a /\ n * a - a * d = (n - d) * a /\ n - d \in Nat
          BY <1>3, <2>1 DEF N, D
        <4>2. (n - d) * a \in Nat /\ n * a \in Int /\ a * d \in Int
          BY <1>3, <4>1
        <4> QED BY <4>1, <4>2
      <3> QED BY <1>3, <1>7, <2>1, <3>1
    <2>2. CASE a = 1
      <3>1. m * b # 0 /\ m * b \in Nat
        BY <1>2, <1>8
      <3> QED BY <2>2, <3>1
    <2> QED BY <1>3, <2>1, <2>2
  <1>12. ASSUME NEW k \in Nat, k < R, n = k * d PROVE V.num = k * V.den
    <2>1. b = 1
      <3> SUFFICES ASSUME a = 1, b >= 2 PROVE FALSE
        BY <1>3
      <3>1. N = k * d /\ H * D = (H * b) * d
        BY <1>3, <1>6, <1>12 DEF N, D
      <3>2. H * b >= R
        <4>1. H * b - H * 2 = H * (b - 2) /\ b - 2 \in Nat
          BY <1>3, <1>6
        <4>2. H * (b - 2) \in Nat /\ H * b \in Int
          BY <1>3, <1>6, <4>1
        <4> QED BY <1>6, <4>1, <4>2
      <3>3. (H * b) * d > k * d
        <4> DEFINE h == H * b
        <4>1. h \in Int /\ h - k \in Nat \ {0}
          BY <1>3, <1>6, <1>12, <3>2
        <4> HIDE DEF h
        <4>2. h * d - k * d = (h - k) * d /\ (h - k) * d \in Nat \ {0}
          BY <4>1
        <4>3. h * d \in Int /\ k * d \in Int
          BY <4>1
        <4>4. h * d > k * d
          BY <4>2, <4>3
        <4> QED BY <4>4 DEF h
      <3>4. (H * b) * d \in Int /\ k * d \in Int
        BY <1>3, <1>6
      <3> QED BY <1>4, <3>1, <3>3, <3>4
    <2>2. (k * a) * D = N
      BY <1>3, <1>12, <2>1 DEF N, D
    <2>3. k * a \in Nat
      BY <1>3
    <2>4. m = k * a
      BY <1>7, <2>2, <2>3
    <2> QED BY <1>2, <1>3, <2>1, <2>3, <2>4
  <1> QED BY <1>10, <1>11, <1>12 DEF V

-----------------------------------------------------------------------------
(* Products, and multiples of a chunk size.                                *)

LEMMA Products ==
  ASSUME NEW a \in Nat, NEW b \in Nat, NEW c \in Nat, NEW d \in Nat, a <= c, b <= d
  PROVE  a * b <= c * d
  <1>1. a * b <= c * b
    <2>1. c * b - a * b = (c - a) * b /\ c - a \in Nat
      OBVIOUS
    <2>2. (c - a) * b \in Nat
      BY <2>1
    <2>3. a * b \in Int /\ c * b \in Int
      OBVIOUS
    <2> QED BY <2>1, <2>2, <2>3
  <1>2. c * b <= c * d
    <2>1. c * d - c * b = c * (d - b) /\ d - b \in Nat
      OBVIOUS
    <2>2. c * (d - b) \in Nat
      BY <2>1
    <2>3. c * b \in Int /\ c * d \in Int
      OBVIOUS
    <2> QED BY <2>1, <2>2, <2>3
  <1>3. a * b \in Int /\ c * b \in Int /\ c * d \in Int
    OBVIOUS
  <1> QED BY <1>1, <1>2, <1>3

\* Chunk columns (or rows) do not overlap: the pixels of column i end where
\* those of a later one begin at the latest.
LEMMA InOneColumn ==
  ASSUME NEW i \in Nat, NEW j \in Nat, NEW c \in Nat \ {0}, NEW p \in Nat,
         i * c <= p, p < i * c + c, j * c <= p, p < j * c + c
  PROVE  i = j
  <1>1. ASSUME NEW a \in Nat, NEW b \in Nat, a < b PROVE a * c + c <= b * c
    <2>1. a + 1 <= b
      BY <1>1
    <2>2. (a + 1) * c <= b * c
      BY <2>1
    <2>3. (a + 1) * c = a * c + c
      OBVIOUS
    <2> QED BY <2>2, <2>3
  <1>2. ~(i < j)
    BY <1>1
  <1>3. ~(j < i)
    BY <1>1
  <1> QED BY <1>2, <1>3

-----------------------------------------------------------------------------
(* The arithmetic of the quotients.                                         *)

LEMMA Scaled ==
  \A v, w \in Int, z \in Nat : v <= w => v * z <= w * z
  <1> SUFFICES ASSUME NEW v \in Int, NEW w \in Int, NEW z \in Nat, v <= w
               PROVE  v * z <= w * z
    OBVIOUS
  <1>1. w * z - v * z = (w - v) * z /\ w - v \in Nat
    OBVIOUS
  <1>2. (w - v) * z \in Nat /\ v * z \in Int /\ w * z \in Int
    BY <1>1
  <1> QED BY <1>1, <1>2

LEMMA Cancelled ==
  \A v, w \in Int, z \in Nat \ {0} : v * z <= w * z => v <= w
  <1> SUFFICES ASSUME NEW v \in Int, NEW w \in Int, NEW z \in Nat \ {0}, v * z <= w * z, v > w
               PROVE  FALSE
    OBVIOUS
  <1>1. v * z - w * z = (v - w) * z /\ v - w \in Nat \ {0}
    OBVIOUS
  <1>2. (v - w) * z \in Nat \ {0} /\ v * z \in Int /\ w * z \in Int
    BY <1>1
  <1> QED BY <1>1, <1>2

LEMMA Truncated ==
  ASSUME NEW p, p.num \in Nat, p.den \in Nat \ {0}
  PROVE  /\ Trunc(p) \in Nat /\ Trunc(p) * p.den <= p.num
         /\ p.num >= p.den => Trunc(p) >= 1
  <1>1. \A n \in Nat, d \in Nat \ {0} :
          n \div d \in Nat /\ (n \div d) * d <= n /\ n < (n \div d) * d + d
    <2> SUFFICES ASSUME NEW n \in Nat, NEW d \in Nat \ {0}
                 PROVE  n \div d \in Nat /\ (n \div d) * d <= n /\ n < (n \div d) * d + d
      OBVIOUS
    <2>1. n \div d \in Nat /\ d * (n \div d) <= n /\ n < d * (n \div d) + d
      OBVIOUS
    <2>2. d * (n \div d) = (n \div d) * d
      BY <2>1
    <2> QED BY <2>1, <2>2
  <1> DEFINE t == Trunc(p)
  <1>2. t \in Nat /\ t * p.den <= p.num /\ p.num < t * p.den + p.den
    BY <1>1 DEF Trunc
  <1> HIDE DEF t
  <1>3. p.num >= p.den => t # 0
    BY <1>2
  <1> QED BY <1>2, <1>3 DEF t

\* The quotient of two exact doubles.
LEMMA QuotientOfExact ==
  ASSUME NEW p, NEW q, NEW i \in Nat \ {0}, NEW j \in Nat \ {0},
         p.den \in Nat \ {0}, q.den \in Nat \ {0},
         p.num = i * p.den, q.num = j * q.den, HasQuotient(p, q)
  PROVE  /\ Near(Quotient(p, q), i, j)
         /\ \A k \in Nat : k < R /\ i = k * j => Quotient(p, q).num = k * Quotient(p, q).den
  <1> DEFINE V == Quotient(p, q)
             g == p.den * q.den
             n == p.num * q.den
             d == p.den * q.num
  <1>1. n = i * g /\ d = j * g /\ g \in Nat \ {0}
    <2>1. g \in Nat /\ g # 0
      OBVIOUS
    <2>2. n = (i * p.den) * q.den /\ d = p.den * (j * q.den)
      OBVIOUS
    <2> QED BY <2>1, <2>2
  <1> HIDE DEF g
  <1>2. n \in Nat \ {0} /\ d \in Nat \ {0}
    <2> HIDE DEF n, d
    <2>1. i * g # 0 /\ j * g # 0 /\ i * g \in Nat /\ j * g \in Nat
      BY <1>1
    <2> QED BY <1>1, <2>1
  <1>3. /\ Near(V, n, d)
        /\ \A k \in Nat : k < R /\ n = k * d => V.num = k * V.den
    BY <1>2, Rounding DEF Quotient, HasQuotient
  <1> HIDE DEF V, n, d
  <1>4. /\ V.num \in Nat \ {0} /\ V.den \in Nat \ {0}
        /\ R * (V.num * d) <= (R + 1) * (n * V.den)
        /\ (R - 1) * (n * V.den) <= R * (V.num * d)
    BY <1>3 DEF Near
  <1>5. R \in Nat \ {0}
    BY Halves
  <1>6. /\ (R * (V.num * j)) * g = R * (V.num * d)
        /\ ((R + 1) * (i * V.den)) * g = (R + 1) * (n * V.den)
        /\ ((R - 1) * (i * V.den)) * g = (R - 1) * (n * V.den)
    BY <1>1, <1>4, <1>5
  <1>7. R * (V.num * j) \in Int /\ (R + 1) * (i * V.den) \in Int /\ (R - 1) * (i * V.den) \in Int
    BY <1>4, <1>5
  <1>8. Near(V, i, j)
    BY <1>1, <1>4, <1>6, <1>7, Cancelled DEF Near
  <1>9. ASSUME NEW k \in Nat, k < R, i = k * j PROVE V.num = k * V.den
    <2>1. n = k * d
      BY <1>1, <1>9
    <2> QED BY <1>3, <1>9, <2>1
  <1> QED BY <1>8, <1>9 DEF V

\* An int is a double.
LEMMA ExactInt ==
  ASSUME NEW n \in Nat \ {0}, n < R, Representable(n, 1)
  PROVE  Double(n, 1).den \in Nat \ {0} /\ Double(n, 1).num = n * Double(n, 1).den
  <1>1. n = n * 1
    OBVIOUS
  <1> QED BY <1>1, Rounding DEF Near

LEMMA RoundedUp ==
  ASSUME NEW p, p.num \in Nat, p.den \in Nat \ {0}, NEW k \in Nat \ {0},
         (k - 1) * p.den < p.num, p.num <= k * p.den
  PROVE  Ceil(p) = k
  <1> DEFINE up == p.num + p.den - 1
             d == p.den
             f == up \div d
  <1>1. up \in Nat /\ d \in Nat \ {0}
    OBVIOUS
  <1>2. (k - 1) * d = k * d - d /\ k * d \in Int
    OBVIOUS
  <1>3. k * d <= up /\ up < k * d + d
    <2> HIDE DEF d
    <2>1. up = p.num + d - 1 /\ (k - 1) * d < p.num /\ p.num <= k * d
      BY DEF d
    <2> QED BY <1>1, <1>2, <2>1
  <1> HIDE DEF up, d
  <1>4. f \in Nat /\ f * d <= up /\ up < f * d + d
    <2>1. f \in Nat /\ d * f <= up /\ up < d * f + d
      BY <1>1
    <2>2. d * f = f * d
      BY <1>1, <2>1
    <2> QED BY <2>1, <2>2
  <1> HIDE DEF f
  <1>5. f = k
    BY <1>1, <1>3, <1>4, InOneColumn
  <1> QED BY <1>5 DEF Ceil, f, up, d

\* std::ceil() of the rounded quotient is the quotient rounded up: a quotient
\* of ints that is no int is too far from the next one.
THEOREM NumChunksExact ==
  ASSUME NEW s \in RasterSizes, NEW c \in 1..s
  PROVE  NumChunks(s, c) = (s + c - 1) \div c
  <1> DEFINE k == (s + c - 1) \div c
             p == Double(s, 1)
             q == Double(c, 1)
             V == Quotient(p, q)
  <1>1. s \in Nat \ {0} /\ c \in Nat \ {0} /\ s < R /\ c < R
    BY ChunkAssumption, PrecisionAssumption, Halves DEF R
  <1>2. /\ p.den \in Nat \ {0} /\ p.num = s * p.den
        /\ q.den \in Nat \ {0} /\ q.num = c * q.den
    <2>1. s \in 1..s
      BY <1>1
    <2>2. Representable(s, 1) /\ Representable(c, 1)
      BY <2>1, ExponentAssumption
    <2> QED BY <1>1, <2>2, ExactInt
  <1>3. HasQuotient(p, q)
    BY ExponentAssumption
  <1> HIDE DEF p, q
  <1>4. Near(V, s, c) /\ \A n \in Nat : n < R /\ s = n * c => V.num = n * V.den
    BY <1>1, <1>2, <1>3, QuotientOfExact
  <1> HIDE DEF V
  <1>5. k \in Nat /\ k * c <= s + c - 1 /\ s + c - 1 < k * c + c
    <2>1. k \in Nat /\ c * k <= s + c - 1 /\ s + c - 1 < c * k + c
      BY <1>1
    <2>2. c * k = k * c
      BY <1>1, <2>1
    <2> QED BY <2>1, <2>2
  <1> HIDE DEF k
  <1>6. k # 0 /\ k * c \in Int
    BY <1>1, <1>5
  <1>7. k <= s
    <2>1. k * 1 <= k * c
      BY <1>1, <1>5, Products
    <2>2. CASE k = 1
      BY <1>1, <2>2
    <2>3. CASE k # 1
      <3>1. (k - 1) * 1 <= (k - 1) * c
        BY <1>1, <1>5, <1>6, Products
      <3>2. (k - 1) * c = k * c - c
        BY <1>1, <1>5
      <3> QED BY <1>1, <1>5, <1>6, <3>1, <3>2
    <2> QED BY <2>2, <2>3
  <1>8. /\ V.num \in Nat \ {0} /\ V.den \in Nat \ {0} /\ R \in Nat \ {0}
        /\ R * (V.num * c) <= (R + 1) * (s * V.den)
        /\ (R - 1) * (s * V.den) <= R * (V.num * c)
    BY <1>4, Halves DEF Near
  <1>9. V.num <= k * V.den
    <2>1. CASE s = k * c
      <3>1. V.num = k * V.den
        <4>1. k < R
          BY <1>1, <1>5, <1>7, <1>8
        <4> QED BY <1>4, <1>5, <2>1, <4>1
      <3> QED BY <1>5, <1>8, <3>1
    <2>2. CASE s # k * c
      <3> DEFINE kc == k * c
      <3>1. kc \in Nat /\ s + 1 <= kc
        BY <1>1, <1>5, <1>6, <2>2
      <3> HIDE DEF kc
      <3>2. (R + 1) * s <= R * kc
        <4>1. (s + 1) * R <= kc * R
          BY <1>1, <1>8, <3>1, Scaled
        <4>2. (s + 1) * R = R * s + R /\ kc * R = R * kc /\ (R + 1) * s = R * s + s
          BY <1>1, <1>8, <3>1
        <4>3. R * s \in Int /\ R * kc \in Int
          BY <1>1, <1>8, <3>1
        <4> QED BY <1>1, <1>8, <4>1, <4>2, <4>3
      <3>3. ((R + 1) * s) * V.den <= (R * kc) * V.den
        BY <1>1, <1>8, <3>1, <3>2, Scaled
      <3>4. /\ ((R + 1) * s) * V.den = (R + 1) * (s * V.den)
            /\ (R * kc) * V.den = (k * V.den) * (R * c)
            /\ R * (V.num * c) = V.num * (R * c)
        BY <1>1, <1>5, <1>8 DEF kc
      <3>5. /\ V.num \in Int /\ k * V.den \in Int /\ R * c \in Nat \ {0}
            /\ V.num * (R * c) \in Int /\ (k * V.den) * (R * c) \in Int
            /\ (R + 1) * (s * V.den) \in Int
        BY <1>1, <1>5, <1>8
      <3>6. V.num * (R * c) <= (k * V.den) * (R * c)
        BY <1>8, <3>3, <3>4, <3>5
      <3> QED BY <3>5, <3>6, Cancelled
    <2> QED BY <2>1, <2>2
  <1>10. (k - 1) * V.den < V.num
    <2> SUFFICES ASSUME V.num <= (k - 1) * V.den PROVE FALSE
      BY <1>5, <1>8
    <2> DEFINE z == (k - 1) * c
    <2>1. z \in Nat /\ z + 1 <= s /\ k - 1 \in Nat
      <3>1. z = k * c - c /\ k - 1 \in Nat
        BY <1>1, <1>5, <1>6
      <3>2. z \in Nat
        BY <1>1, <3>1
      <3> QED BY <1>1, <1>5, <1>6, <3>1, <3>2
    <2>2. R * (V.num * c) <= (R * z) * V.den
      <3>1. V.num * (R * c) <= ((k - 1) * V.den) * (R * c)
        BY <1>1, <1>8, <2>1, Scaled
      <3>2. R * (V.num * c) = V.num * (R * c) /\ ((k - 1) * V.den) * (R * c) = (R * z) * V.den
        BY <1>1, <1>8, <2>1
      <3> QED BY <3>1, <3>2
    <2> HIDE DEF z
    <2>3. (R - 1) * (s * V.den) = ((R - 1) * s) * V.den
      BY <1>1, <1>8
    <2>4. ((R - 1) * s) * V.den <= (R * z) * V.den
      <3>1. ((R - 1) * s) * V.den \in Int /\ R * (V.num * c) \in Int /\ (R * z) * V.den \in Int
        BY <1>1, <1>8, <2>1
      <3> QED BY <1>8, <2>2, <2>3, <3>1
    <2>5. (R - 1) * s <= R * z
      <3>1. (R - 1) * s \in Int /\ R * z \in Int
        BY <1>1, <1>8, <2>1
      <3> QED BY <1>8, <2>4, <3>1, Cancelled
    <2>6. (z + 1) * R <= s * R
      BY <1>1, <1>8, <2>1, Scaled
    <2>7. (z + 1) * R = R * z + R /\ s * R = R * s /\ (R - 1) * s = R * s - s
      BY <1>1, <1>8, <2>1
    <2>8. R * z \in Int /\ R * s \in Int
      BY <1>1, <1>8, <2>1
    <2> QED BY <1>1, <1>8, <2>5, <2>6, <2>7, <2>8
  <1>11. Ceil(V) = k
    BY <1>5, <1>6, <1>8, <1>9, <1>10, RoundedUp
  <1> QED BY <1>11 DEF NumChunks, V, p, q, k

\* Quotients off by parts 1/R cannot carry t beyond m, which has three bits
\* less than a double.
LEMMA NotBeyond ==
  ASSUME NEW t \in Nat, NEW m \in Nat \ {0}, 8 * m <= R,
         (R - 1) * (R - 1) * t <= (R + 1) * (R + 1) * m
  PROVE  t <= m
  <1>1. R \in Nat \ {0} /\ R >= 8
    BY Halves
  <1> SUFFICES ASSUME t >= m + 1 PROVE FALSE
    OBVIOUS
  <1> DEFINE f == (R - 1) * (R - 1)
  <1>2. f \in Nat
    BY <1>1
  <1>3. (m + 1) * f <= t * f
    BY <1>2, Scaled
  <1>4. (m + 1) * f = m * f + f /\ t * f = (R - 1) * (R - 1) * t
    BY <1>1
  <1>5. (R + 1) * (R + 1) * m = m * f + 4 * (m * R)
    BY <1>1
  <1>6. m * f \in Int /\ m * R \in Int /\ t * f \in Int /\ R * R \in Int
    BY <1>1, <1>2
  <1>7. f = R * R - 2 * R + 1
    BY <1>1
  <1>8. (8 * m) * R <= R * R
    BY <1>1, Scaled
  <1>9. (8 * m) * R = 8 * (m * R)
    BY <1>1
  <1>10. 8 * R <= R * R
    BY <1>1, Scaled
  <1> HIDE DEF f
  <1>11. f <= 4 * (m * R)
    BY <1>2, <1>3, <1>4, <1>5, <1>6
  <1> QED BY <1>1, <1>2, <1>6, <1>7, <1>8, <1>9, <1>10, <1>11

\* The double of max_pixels / (block_xsize * block_ysize).
LEMMA BlocksPerChunkNear ==
  ASSUME NEW m \in MaxPixels \ {0}, NEW bx \in BlockSizes, NEW by \in BlockSizes
  PROVE  LET V == BlocksPerChunk(m, bx, by)
         IN  /\ V.num \in Nat \ {0} /\ V.den \in Nat \ {0}
             /\ (R - 1) * ((bx * by) * V.num) <= (R + 1) * (m * V.den)
  <1> DEFINE A == bx * by
             M == Double(m, 1)
             B == Double(A, 1)
             V == Quotient(M, B)
             n == M.num * B.den
             d == M.den * B.num
  <1>1. m \in Nat \ {0} /\ bx \in Nat \ {0} /\ by \in Nat \ {0} /\ R \in Nat \ {0} /\ m < R
    BY ChunkAssumption, PrecisionAssumption, Halves DEF R
  <1>2. A \in Nat \ {0}
    BY <1>1
  <1>3. Representable(m, 1) /\ Representable(A, 1) /\ HasQuotient(M, B)
    BY ExponentAssumption
  <1> HIDE DEF A
  <1>4. M.den \in Nat \ {0} /\ M.num = m * M.den
    BY <1>1, <1>3, ExactInt
  <1>5. /\ B.num \in Nat \ {0} /\ B.den \in Nat \ {0}
        /\ (R - 1) * (A * B.den) <= R * B.num
    <2>1. Near(B, A, 1)
      BY <1>2, <1>3, Rounding
    <2> HIDE DEF B
    <2>2. /\ B.num \in Nat \ {0} /\ B.den \in Nat \ {0}
          /\ (R - 1) * (A * B.den) <= R * (B.num * 1)
      BY <2>1 DEF Near
    <2>3. B.num * 1 = B.num
      BY <2>2
    <2> QED BY <2>2, <2>3
  <1> HIDE DEF M, B
  <1>6. n \in Nat \ {0} /\ d \in Nat \ {0}
    BY <1>1, <1>4, <1>5
  <1>7. Near(V, n, d)
    BY <1>3, <1>6, Rounding DEF Quotient, HasQuotient
  <1> HIDE DEF V
  <1>8. /\ V.num \in Nat \ {0} /\ V.den \in Nat \ {0}
        /\ R * (V.num * d) <= (R + 1) * (n * V.den)
    BY <1>7 DEF Near
  <1> DEFINE g == M.den * B.den
             l == (R - 1) * (A * V.num)
             r == (R + 1) * (m * V.den)
             mid == R * (V.num * d)
             s == V.num * M.den
  <1>9. /\ l \in Int /\ r \in Int /\ mid \in Int /\ g \in Nat \ {0} /\ s \in Nat
        /\ (R - 1) * (A * B.den) \in Int /\ R * B.num \in Int
    BY <1>1, <1>2, <1>4, <1>5, <1>6, <1>8
  <1>10. ((R - 1) * (A * B.den)) * s <= (R * B.num) * s
    BY <1>5, <1>9, Scaled
  <1>11. /\ l * g = ((R - 1) * (A * B.den)) * s
         /\ mid = (R * B.num) * s
         /\ r * g = (R + 1) * (n * V.den)
    BY <1>1, <1>2, <1>4, <1>5, <1>8
  <1>12. l * g <= r * g
    <2>1. l * g \in Int /\ r * g \in Int
      BY <1>9
    <2> HIDE DEF l, r, g, mid, s
    <2>2. l * g <= mid
      BY <1>10, <1>11
    <2>3. mid <= r * g
      BY <1>8, <1>11 DEF mid
    <2> QED BY <1>9, <2>1, <2>2, <2>3
  <1>13. l <= r
    <2> HIDE DEF l, r, g
    <2> QED BY <1>9, <1>12, Cancelled
  <1> QED BY <1>8, <1>13 DEF BlocksPerChunk, A, M, B, V, l, r

\* What rounding does to the two chunk sizes: neither the blocks in a chunk
\* nor the rows of blocks have more pixels than allowed, and there is a row
\* when the blocks are enough for one.
THEOREM RoundingHarmless ==
  ASSUME NEW m \in MaxPixels \ {0}, NEW xsize \in RasterSizes,
         NEW bx \in BlockSizes, NEW by \in BlockSizes
  PROVE  LET blocks == BlocksPerChunk(m, bx, by)
             row    == BlocksPerRow(xsize, bx)
             rows   == Trunc(Quotient(blocks, row))
         IN  /\ Trunc(blocks) \in Nat /\ Trunc(blocks) * (bx * by) <= m
             /\ rows \in Nat /\ rows * (xsize * by) <= m
             /\ ~Less(blocks, row) => rows >= 1
  <1> DEFINE A == bx * by
             V == BlocksPerChunk(m, bx, by)
             Q == BlocksPerRow(xsize, bx)
             W == Quotient(V, Q)
             n == V.num * Q.den
             d == V.den * Q.num
  <1>1. /\ m \in Nat \ {0} /\ bx \in Nat \ {0} /\ by \in Nat \ {0} /\ xsize \in Nat \ {0}
        /\ R \in Nat \ {0} /\ 8 * m <= R /\ xsize < R /\ bx < R
    BY ChunkAssumption, PrecisionAssumption, Halves DEF R
  <1>2. A \in Nat \ {0}
    BY <1>1
  <1>3. /\ V.num \in Nat \ {0} /\ V.den \in Nat \ {0}
        /\ (R - 1) * (A * V.num) <= (R + 1) * (m * V.den)
    BY BlocksPerChunkNear
  <1>4. /\ Q.num \in Nat \ {0} /\ Q.den \in Nat \ {0}
        /\ (R - 1) * (xsize * Q.den) <= R * (Q.num * bx)
    <2> DEFINE p == Double(xsize, 1)
               q == Double(bx, 1)
    <2>1. Representable(xsize, 1) /\ Representable(bx, 1) /\ HasQuotient(p, q)
      <3>1. xsize \in 1..xsize
        BY <1>1
      <3> QED BY <3>1, ExponentAssumption
    <2>2. /\ p.den \in Nat \ {0} /\ p.num = xsize * p.den
          /\ q.den \in Nat \ {0} /\ q.num = bx * q.den
      BY <1>1, <2>1, ExactInt
    <2> HIDE DEF p, q
    <2>3. Near(Quotient(p, q), xsize, bx)
      BY <1>1, <2>1, <2>2, QuotientOfExact
    <2>4. Near(Q, xsize, bx)
      BY <2>3 DEF BlocksPerRow, p, q
    <2> QED BY <2>4 DEF Near
  <1>5. HasQuotient(V, Q)
    BY ExponentAssumption
  <1> HIDE DEF V, Q
  <1>6. n \in Nat \ {0} /\ d \in Nat \ {0}
    BY <1>3, <1>4
  <1>7. /\ Near(W, n, d)
        /\ n >= d => W.num >= W.den
    BY <1>5, <1>6, Rounding DEF Quotient, HasQuotient
  <1> HIDE DEF W
  <1>8. /\ W.num \in Nat \ {0} /\ W.den \in Nat \ {0}
        /\ R * (W.num * d) <= (R + 1) * (n * W.den)
    BY <1>7 DEF Near
  <1>9. /\ Trunc(V) \in Nat /\ Trunc(V) * V.den <= V.num
        /\ Trunc(W) \in Nat /\ Trunc(W) * W.den <= W.num
        /\ W.num >= W.den => Trunc(W) >= 1
    BY <1>3, <1>8, Truncated
  <1>10. ~Less(V, Q) => Trunc(W) >= 1
    <2>1. n \in Int /\ d \in Int /\ Q.num * V.den = d
      BY <1>3, <1>4, <1>6
    <2> HIDE DEF n, d
    <2>2. ~Less(V, Q) => n >= d
      BY <2>1 DEF Less, n
    <2> QED BY <1>7, <1>9, <2>2
  <1>11. Trunc(V) * A <= m
    <2> DEFINE t == Trunc(V)
    <2>1. t \in Nat /\ t * V.den <= V.num
      BY <1>9
    <2> HIDE DEF A, t
    <2>2. (R - 1) * (t * A) <= (R + 1) * m
      <3> DEFINE f == (R - 1) * A
      <3>1. f \in Nat /\ t * V.den \in Int
        BY <1>1, <1>2, <1>3, <2>1
      <3>2. (t * V.den) * f <= V.num * f
        BY <1>3, <2>1, <3>1, Scaled
      <3>3. /\ (t * V.den) * f = ((R - 1) * (t * A)) * V.den
            /\ V.num * f = (R - 1) * (A * V.num)
            /\ (R + 1) * (m * V.den) = ((R + 1) * m) * V.den
        BY <1>1, <1>2, <1>3, <2>1
      <3>4. /\ (R - 1) * (t * A) \in Int /\ (R + 1) * m \in Int
            /\ ((R - 1) * (t * A)) * V.den \in Int /\ V.num * f \in Int
            /\ ((R + 1) * m) * V.den \in Int
        BY <1>1, <1>2, <1>3, <2>1, <3>1
      <3> HIDE DEF f
      <3>5. ((R - 1) * (t * A)) * V.den <= ((R + 1) * m) * V.den
        BY <1>3, <3>2, <3>3, <3>4
      <3> QED BY <1>3, <3>4, <3>5, Cancelled
    <2> DEFINE u == t * A
    <2>3. u \in Nat
      BY <1>2, <2>1
    <2> HIDE DEF u
    <2>4. (R - 1) * (R - 1) * u <= (R + 1) * (R + 1) * m
      <3>1. ((R - 1) * u) * (R - 1) <= ((R + 1) * m) * (R - 1)
        BY <1>1, <2>2, <2>3, Scaled DEF u
      <3>2. /\ ((R - 1) * u) * (R - 1) = (R - 1) * (R - 1) * u
            /\ (R + 1) * (R + 1) * m = ((R + 1) * m) * (R - 1) + 2 * ((R + 1) * m)
            /\ (R + 1) * m \in Nat /\ ((R + 1) * m) * (R - 1) \in Int
            /\ (R - 1) * (R - 1) * u \in Int
        BY <1>1, <2>3
      <3> QED BY <3>1, <3>2
    <2> QED BY <1>1, <2>3, <2>4, NotBeyond DEF u, t
  <1>12. Trunc(W) * (xsize * by) <= m
    <2> DEFINE t == Trunc(W)
               x1 == (R - 1) * (A * V.num)
               y1 == (R + 1) * (m * V.den)
               x2 == (R - 1) * (xsize * Q.den)
               y2 == R * (Q.num * bx)
               x3 == R * (W.num * d)
               y3 == (R + 1) * (n * W.den)
               f == (R - 1) * (R - 1) * (A * xsize)
               h == V.den * R * Q.num * bx
               u == t * (xsize * by)
               l == (R - 1) * (R - 1) * u
               r == (R + 1) * (R + 1) * m
    <2>1. t \in Nat /\ t * W.den <= W.num
      BY <1>9
    <2> HIDE DEF t
    <2>2. x1 \in Nat /\ y1 \in Nat /\ x2 \in Nat /\ y2 \in Nat
      BY <1>1, <1>2, <1>3, <1>4
    <2>3. x3 \in Int /\ y3 \in Int /\ f \in Nat /\ h \in Nat \ {0} /\ u \in Nat
      BY <1>1, <1>2, <1>3, <1>4, <1>6, <1>8, <2>1
    <2>4. l \in Int /\ r \in Int
      BY <1>1, <2>3
    <2>5. x1 <= y1 /\ x2 <= y2 /\ x3 <= y3
      BY <1>3, <1>4, <1>8
    <2>6. /\ y3 * f = ((R + 1) * W.den) * (x1 * x2)
          /\ ((R + 1) * W.den) * (y1 * y2) = (r * W.den) * h
      BY <1>1, <1>2, <1>3, <1>4, <1>8
    <2>7. (t * W.den) * (f * R * d) = (l * W.den) * h
      BY <1>1, <1>3, <1>4, <1>8, <2>1
    <2>8. x3 * f = W.num * (f * R * d)
      BY <1>1, <1>2, <1>3, <1>4, <1>8
    <2>9. f * R * d \in Nat
      BY <1>1, <1>6, <2>3
    <2>10. (R + 1) * W.den \in Nat /\ t * W.den \in Int
      BY <1>1, <1>8, <2>1
    <2>11. /\ x1 * x2 \in Int /\ y1 * y2 \in Int
           /\ l * W.den \in Int /\ r * W.den \in Int
      BY <1>8, <2>2, <2>4
    <2> HIDE DEF x1, y1, x2, y2, x3, y3, f, h, l, r, n, d
    <2>12. x3 * f <= y3 * f
      BY <2>3, <2>5, Scaled
    <2>13. x1 * x2 <= y1 * y2
      BY <2>2, <2>5, Products
    <2>14. (x1 * x2) * ((R + 1) * W.den) <= (y1 * y2) * ((R + 1) * W.den)
      BY <2>10, <2>11, <2>13, Scaled
    <2>15. (t * W.den) * (f * R * d) <= W.num * (f * R * d)
      BY <1>8, <2>1, <2>9, <2>10, Scaled
    <2>16. /\ (x1 * x2) * ((R + 1) * W.den) = ((R + 1) * W.den) * (x1 * x2)
           /\ (y1 * y2) * ((R + 1) * W.den) = ((R + 1) * W.den) * (y1 * y2)
      BY <2>10, <2>11
    <2>17. (l * W.den) * h <= (r * W.den) * h
      <3> DEFINE a1 == (l * W.den) * h
                 a2 == W.num * (f * R * d)
                 a3 == y3 * f
                 a4 == (r * W.den) * h
      <3>1. a1 \in Int /\ a2 \in Int /\ a3 \in Int /\ a4 \in Int
        BY <1>8, <2>3, <2>9, <2>11
      <3>2. a1 <= a2
        BY <2>7, <2>15
      <3>3. a2 <= a3
        BY <2>8, <2>12
      <3>4. a3 <= a4
        BY <2>6, <2>14, <2>16
      <3> HIDE DEF a1, a2, a3, a4
      <3>5. a1 <= a4
        BY <3>1, <3>2, <3>3, <3>4
      <3> QED BY <3>5 DEF a1, a4
    <2>18. l * W.den <= r * W.den
      BY <2>3, <2>11, <2>17, Cancelled
    <2>19. l <= r
      BY <1>8, <2>4, <2>18, Cancelled
    <2> HIDE DEF u
    <2>20. u <= m
      BY <1>1, <2>3, <2>19, NotBeyond DEF l, r
    <2> QED BY <2>20 DEF u, t
  <1> QED BY <1>9, <1>10, <1>11, <1>12 DEF A, V, Q, W

-----------------------------------------------------------------------------
(* The chunks.                                                              *)

LEMMA Sizes == \A s \in RasterSizes : s \in Nat \ {0}
  BY ChunkAssumption

LEMMA RoundingUp ==
  ASSUME NEW s \in RasterSizes, NEW c \in 1..s
  PROVE  /\ NumChunks(s, c) \in Nat \ {0}
         /\ s <= NumChunks(s, c) * c /\ NumChunks(s, c) * c < s + c
         /\ NumChunks(s, c) <= s
  <1> DEFINE n == (s + c - 1) \div c
  <1>0. s \in Nat \ {0} /\ c \in Nat \ {0} /\ NumChunks(s, c) = n
    BY ChunkAssumption, NumChunksExact
  <1>1. n \in Nat /\ n * c <= s + c - 1 /\ s + c - 1 < n * c + c
    BY <1>0
  <1>2. n # 0
    BY <1>0, <1>1
  <1>3. n <= s
    BY <1>0, <1>1, <1>2
  <1> HIDE DEF n
  <1>4. n * c \in Int
    BY <1>0, <1>1
  <1> QED BY <1>0, <1>1, <1>2, <1>3, <1>4

\* Every pixel is in a chunk column.
LEMMA InSomeColumn ==
  ASSUME NEW s \in RasterSizes, NEW c \in 1..s, NEW p \in 0..(s - 1)
  PROVE  \E i \in 0..(NumChunks(s, c) - 1) : i * c <= p /\ p < i * c + c
  <1> DEFINE i == p \div c
             n == NumChunks(s, c)
  <1>0. s \in Nat \ {0} /\ c \in Nat \ {0}
    BY ChunkAssumption
  <1>1. i \in Nat /\ i * c <= p /\ p < i * c + c
    BY <1>0
  <1>2. n \in Nat /\ s <= n * c
    BY RoundingUp
  <1> HIDE DEF i, n
  <1>3. i < n
    <2> SUFFICES ASSUME ~(i < n) PROVE FALSE
      BY <1>1, <1>2
    <2>1. n <= i
      BY <1>1, <1>2
    <2>2. n * c <= i * c /\ n * c \in Int /\ i * c \in Int
      BY <1>0, <1>1, <1>2, <2>1, Scaled
    <2> QED BY <1>0, <1>1, <1>2, <2>2
  <1>4. i \in 0..(n - 1)
    BY <1>1, <1>2, <1>3
  <1> QED BY <1>1, <1>4 DEF n

LEMMA ClampedType ==
  ASSUME NEW n \in Int, NEW s \in Nat \ {0}
  PROVE  Clamped(n, s) \in 1..s
  BY DEF Clamped, Smaller, Larger

\* The chunk size is at least one pixel and at most the raster, whatever the
\* rounding and an overflow make of it.
LEMMA ChunkSizeType ==
  ASSUME TypeOK, ChunkSize
  PROVE  chunk_xsize' \in 1..raster_xsize /\ chunk_ysize' \in 1..raster_ysize
  <1>1. /\ raster_xsize \in Nat \ {0} /\ raster_ysize \in Nat \ {0}
        /\ block_xsize \in Int /\ block_ysize \in Int
    BY ChunkAssumption DEF TypeOK
  <1>2. CASE max_pixels = 0
    BY <1>1, <1>2, ClampedType DEF ChunkSize
  <1>3. CASE max_pixels # 0
    <2>1. Trunc(blocks_per_chunk) \in Nat /\ WholeRows \in Nat
      BY <1>3, RoundingHarmless DEF TypeOK, WholeRows, blocks_per_chunk, blocks_per_row
    <2>2. ColumnsOfBlocks \in Int
      BY <1>1, <2>1 DEF ColumnsOfBlocks, Larger
    <2>3. \A n \in RowsOfBlocks(WholeRows) : n \in Int
      BY <1>1, <2>1, ChunkAssumption DEF RowsOfBlocks, Ints
    <2> QED BY <1>1, <1>3, <2>2, <2>3, ClampedType DEF ChunkSize
  <1> QED BY <1>2, <1>3

\* A chunk of the loop lies in the raster and has a pixel.
LEMMA ChunkType ==
  ASSUME NEW i \in Nat, NEW j \in Nat,
         raster_xsize \in RasterSizes, raster_ysize \in RasterSizes,
         chunk_xsize \in 1..raster_xsize, chunk_ysize \in 1..raster_ysize,
         i < num_chunks_x, j < num_chunks_y
  PROVE  /\ Chunk(i, j) = [xoff |-> i * chunk_xsize, yoff |-> j * chunk_ysize,
                           xsize |-> Smaller(chunk_xsize, raster_xsize - i * chunk_xsize),
                           ysize |-> Smaller(chunk_ysize, raster_ysize - j * chunk_ysize)]
         /\ Within(Chunk(i, j))
         /\ Chunk(i, j) \in [xoff : 0..raster_xsize, yoff : 0..raster_ysize,
                             xsize : 1..raster_xsize, ysize : 1..raster_ysize]
  <1>1. ASSUME NEW s \in RasterSizes, NEW c \in 1..s, NEW k \in Nat, k < NumChunks(s, c)
        PROVE  /\ k * c \in 0..s /\ Smaller(c, s - k * c) \in 1..s
               /\ k * c + Smaller(c, s - k * c) <= s
    <2> DEFINE n == NumChunks(s, c)
    <2>0. s \in Nat \ {0} /\ c \in Nat \ {0}
      BY Sizes
    <2>1. n \in Nat /\ n * c < s + c
      BY RoundingUp
    <2> HIDE DEF n
    <2>2. (k + 1) * c <= n * c
      <3>1. k + 1 <= n
        BY <1>1, <2>1 DEF n
      <3> QED BY <2>0, <2>1, <3>1, Scaled
    <2>3. (k + 1) * c = k * c + c /\ k * c \in Nat /\ n * c \in Int
      BY <2>0, <2>1
    <2>4. k * c < s
      BY <2>0, <2>1, <2>2, <2>3
    <2> QED BY <2>0, <2>3, <2>4 DEF Smaller
  <1> DEFINE xo == i * chunk_xsize
             yo == j * chunk_ysize
             xs == Smaller(chunk_xsize, raster_xsize - xo)
             ys == Smaller(chunk_ysize, raster_ysize - yo)
  <1>0. raster_xsize \in Nat \ {0} /\ raster_ysize \in Nat \ {0}
    BY Sizes
  <1>2. xo \in 0..raster_xsize /\ xs \in 1..raster_xsize /\ xo + xs <= raster_xsize
    BY <1>1 DEF num_chunks_x
  <1>3. yo \in 0..raster_ysize /\ ys \in 1..raster_ysize /\ yo + ys <= raster_ysize
    BY <1>1 DEF num_chunks_y
  <1>4. Chunk(i, j) = [xoff |-> xo, yoff |-> yo, xsize |-> xs, ysize |-> ys]
    BY DEF Chunk
  <1> HIDE DEF xo, yo, xs, ys
  <1>5. Within(Chunk(i, j))
    BY <1>0, <1>2, <1>3, <1>4 DEF Within
  <1>6. Chunk(i, j) \in [xoff : 0..raster_xsize, yoff : 0..raster_ysize,
                         xsize : 1..raster_xsize, ysize : 1..raster_ysize]
    BY <1>2, <1>3, <1>4
  <1> QED BY <1>4, <1>5, <1>6 DEF xo, yo, xs, ys
-----------------------------------------------------------------------------
(* The chunks written so far are those of the loop before (x, y).          *)
LoopStarted == chunk_xsize \in 1..raster_xsize /\ chunk_ysize \in 1..raster_ysize

Before(i, j) ==
    /\ i \in Nat /\ j \in Nat /\ i < num_chunks_x /\ j < num_chunks_y
    /\ j < y \/ (j = y /\ i < x)

ChunksBefore ==
    \A c : c \in chunks <=> \E i, j \in Nat : Before(i, j) /\ c = Chunk(i, j)

LoopInv ==
    \/ chunk_xsize = 0 /\ chunk_ysize = 0 /\ x = 0 /\ y = 0 /\ chunks = {}
    \/ /\ LoopStarted
       /\ x \in Nat /\ y \in Nat /\ x < num_chunks_x /\ y <= num_chunks_y
       /\ y = num_chunks_y => x = 0
       /\ ChunksBefore

LEMMA LoopBounds ==
  ASSUME raster_xsize \in RasterSizes, raster_ysize \in RasterSizes, LoopStarted
  PROVE  /\ num_chunks_x \in Nat \ {0} /\ num_chunks_y \in Nat \ {0}
         /\ num_chunks_x <= raster_xsize /\ num_chunks_y <= raster_ysize
  BY RoundingUp DEF LoopStarted, num_chunks_x, num_chunks_y

LEMMA LoopStep ==
  ASSUME TypeOK, LoopInv, [Next]_vars
  PROVE  LoopInv'
  <1>0. raster_xsize \in Nat \ {0} /\ raster_ysize \in Nat \ {0}
    BY ChunkAssumption DEF TypeOK
  <1>1. CASE ChunkSize
    <2>1. LoopStarted'
      BY <1>1, ChunkSizeType DEF ChunkSize, args, LoopStarted
    <2>2. x' = 0 /\ y' = 0 /\ chunks' = {}
      BY <1>1 DEF ChunkSize, LoopInv, LoopStarted
    <2>3. num_chunks_x' \in Nat \ {0} /\ num_chunks_y' \in Nat \ {0}
      <3>1. /\ chunk_xsize' \in 1..raster_xsize' /\ raster_xsize' \in RasterSizes
            /\ chunk_ysize' \in 1..raster_ysize' /\ raster_ysize' \in RasterSizes
        BY <1>1, <2>1 DEF LoopStarted, ChunkSize, args, TypeOK
      <3> QED BY <3>1, RoundingUp DEF num_chunks_x, num_chunks_y
    <2>4. ChunksBefore'
      BY <2>2 DEF ChunksBefore, Before
    <2> QED BY <2>1, <2>2, <2>3, <2>4 DEF LoopInv
  <1>2. CASE NextChunk
    <2>1. /\ LoopStarted /\ x \in Nat /\ y \in Nat /\ x < num_chunks_x /\ y < num_chunks_y
          /\ ChunksBefore
      BY <1>2 DEF NextChunk, LoopInv
    <2>2. UNCHANGED <<args, sizes>>
      BY <1>2 DEF NextChunk
    <2>3. UNCHANGED <<raster_xsize, raster_ysize, chunk_xsize, chunk_ysize>>
      BY <2>2 DEF args, sizes
    <2>4. /\ num_chunks_x' = num_chunks_x /\ num_chunks_y' = num_chunks_y
          /\ LoopStarted'
          /\ \A i, j : Chunk(i, j)' = Chunk(i, j)
      BY <2>1, <2>3 DEF num_chunks_x, num_chunks_y, LoopStarted, Chunk
    <2>5. num_chunks_x \in Nat \ {0} /\ num_chunks_y \in Nat \ {0}
      BY <1>0, <2>1, LoopBounds DEF TypeOK
    <2>6. /\ x' \in Nat /\ y' \in Nat /\ x' < num_chunks_x /\ y' <= num_chunks_y
          /\ y' = num_chunks_y => x' = 0
      BY <1>2, <2>1, <2>5 DEF NextChunk
    <2>7. ASSUME NEW i \in Nat, NEW j \in Nat
          PROVE  Before(i, j)' <=> Before(i, j) \/ (i = x /\ j = y)
      BY <1>2, <2>1, <2>4, <2>5 DEF Before, NextChunk
    <2>8. chunks' = chunks \cup {Chunk(x, y)}
      BY <1>2 DEF NextChunk
    <2>9. ChunksBefore'
      BY <2>1, <2>4, <2>7, <2>8 DEF ChunksBefore
    <2> QED BY <2>4, <2>6, <2>9 DEF LoopInv
  <1>3. CASE UNCHANGED vars
    <2>1. UNCHANGED <<raster_xsize, raster_ysize, chunk_xsize, chunk_ysize, x, y, chunks>>
      BY <1>3 DEF vars, args, sizes
    <2> QED BY <2>1 DEF LoopInv, LoopStarted, ChunksBefore, Before, num_chunks_x, num_chunks_y, Chunk
  <1> QED BY <1>1, <1>2, <1>3 DEF Next

\* Sizes, offsets and loop variables stay in range.
THEOREM TypeCorrect == Spec => [](TypeOK /\ LoopInv)
  <1>1. Init => TypeOK /\ LoopInv
    <2> SUFFICES ASSUME Init PROVE TypeOK /\ LoopInv
      OBVIOUS
    <2>1. raster_xsize \in Nat /\ raster_ysize \in Nat
      BY ChunkAssumption DEF Init
    <2> QED BY <2>1 DEF Init, TypeOK, LoopInv
  <1>2. TypeOK /\ LoopInv /\ [Next]_vars => TypeOK'
    <2> SUFFICES ASSUME TypeOK, LoopInv, [Next]_vars PROVE TypeOK'
      OBVIOUS
    <2>0. raster_xsize \in Nat \ {0} /\ raster_ysize \in Nat \ {0}
      BY ChunkAssumption DEF TypeOK
    <2>1. CASE ChunkSize
      BY <2>0, <2>1, ChunkSizeType DEF ChunkSize, TypeOK, args
    <2>2. CASE NextChunk
      <3>1. LoopStarted /\ x \in Nat /\ y \in Nat /\ x < num_chunks_x /\ y < num_chunks_y
        BY <2>2 DEF NextChunk, LoopInv
      <3>2. /\ num_chunks_x \in Nat /\ num_chunks_y \in Nat
            /\ num_chunks_x <= raster_xsize /\ num_chunks_y <= raster_ysize
        BY <2>0, <3>1, LoopBounds DEF TypeOK
      <3>3. x' \in 0..raster_xsize /\ y' \in 0..raster_ysize
        BY <2>0, <2>2, <3>1, <3>2 DEF NextChunk
      <3>4. Chunk(x, y) \in [xoff : 0..raster_xsize, yoff : 0..raster_ysize,
                             xsize : 1..raster_xsize, ysize : 1..raster_ysize]
        BY <2>0, <3>1, ChunkType DEF TypeOK, LoopStarted
      <3> QED BY <2>2, <3>3, <3>4 DEF NextChunk, TypeOK, args, sizes
    <2>3. CASE UNCHANGED vars
      BY <2>3 DEF vars, args, sizes, TypeOK
    <2> QED BY <2>1, <2>2, <2>3 DEF Next
  <1> QED BY <1>1, <1>2, LoopStep, PTL DEF Spec

\* A pixel in Chunk(i, j) determines i and j.
LEMMA ChunkOfPixel ==
  ASSUME raster_xsize \in Nat \ {0}, raster_ysize \in Nat \ {0}, LoopStarted,
         NEW i \in Nat, NEW j \in Nat, NEW px \in Nat, NEW py \in Nat,
         i < num_chunks_x, j < num_chunks_y
  PROVE  /\ Holds(Chunk(i, j), px, py) =>
              /\ i * chunk_xsize <= px /\ px < i * chunk_xsize + chunk_xsize
              /\ j * chunk_ysize <= py /\ py < j * chunk_ysize + chunk_ysize
         /\ /\ px < raster_xsize /\ py < raster_ysize
            /\ i * chunk_xsize <= px /\ px < i * chunk_xsize + chunk_xsize
            /\ j * chunk_ysize <= py /\ py < j * chunk_ysize + chunk_ysize
            => Holds(Chunk(i, j), px, py)
  <1> DEFINE xo == i * chunk_xsize
             yo == j * chunk_ysize
  <1>1. Chunk(i, j) = [xoff |-> xo, yoff |-> yo,
                       xsize |-> Smaller(chunk_xsize, raster_xsize - xo),
                       ysize |-> Smaller(chunk_ysize, raster_ysize - yo)]
    BY DEF Chunk
  <1>2. xo \in Nat /\ yo \in Nat /\ chunk_xsize \in Nat /\ chunk_ysize \in Nat
    BY DEF LoopStarted
  <1> HIDE DEF xo, yo
  <1>3. /\ Holds(Chunk(i, j), px, py) =>
             xo <= px /\ px < xo + chunk_xsize /\ yo <= py /\ py < yo + chunk_ysize
        /\ /\ px < raster_xsize /\ py < raster_ysize
           /\ xo <= px /\ px < xo + chunk_xsize /\ yo <= py /\ py < yo + chunk_ysize
           => Holds(Chunk(i, j), px, py)
    BY <1>1, <1>2 DEF Holds, Smaller
  <1> QED BY <1>3 DEF xo, yo

\* No pixel is in two chunks, at any point of the loop.
THEOREM Disjoint == Spec => []ChunksDisjoint
  <1>1. TypeOK /\ LoopInv => ChunksDisjoint
    <2> SUFFICES ASSUME TypeOK, LoopInv PROVE ChunksDisjoint
      OBVIOUS
    <2>1. raster_xsize \in Nat \ {0} /\ raster_ysize \in Nat \ {0}
      BY ChunkAssumption DEF TypeOK
    <2>2. CASE chunks = {}
      BY <2>2 DEF ChunksDisjoint
    <2>3. CASE LoopStarted /\ ChunksBefore
      <3>1. ASSUME NEW c \in chunks
            PROVE  \E i, j \in Nat : i < num_chunks_x /\ j < num_chunks_y /\ c = Chunk(i, j)
        BY <2>3 DEF ChunksBefore, Before
      <3>2. ASSUME NEW c \in chunks PROVE Within(c)
        BY <2>1, <2>3, <3>1, ChunkType DEF TypeOK, LoopStarted
      <3>3. ASSUME NEW c \in chunks, NEW d \in chunks,
                   NEW px \in 0..(raster_xsize - 1), NEW py \in 0..(raster_ysize - 1),
                   Holds(c, px, py), Holds(d, px, py)
            PROVE  c = d
        <4>1. PICK i \in Nat, j \in Nat : i < num_chunks_x /\ j < num_chunks_y /\ c = Chunk(i, j)
          BY <3>1
        <4>2. PICK k \in Nat, l \in Nat : k < num_chunks_x /\ l < num_chunks_y /\ d = Chunk(k, l)
          BY <3>1
        <4>3. /\ px \in Nat /\ py \in Nat
              /\ chunk_xsize \in Nat \ {0} /\ chunk_ysize \in Nat \ {0}
          BY <2>1, <2>3 DEF LoopStarted
        <4>4. /\ i * chunk_xsize <= px /\ px < i * chunk_xsize + chunk_xsize
              /\ j * chunk_ysize <= py /\ py < j * chunk_ysize + chunk_ysize
          BY <2>1, <2>3, <3>3, <4>1, <4>3, ChunkOfPixel
        <4>5. /\ k * chunk_xsize <= px /\ px < k * chunk_xsize + chunk_xsize
              /\ l * chunk_ysize <= py /\ py < l * chunk_ysize + chunk_ysize
          BY <2>1, <2>3, <3>3, <4>2, <4>3, ChunkOfPixel
        <4>6. i = k /\ j = l
          BY <4>3, <4>4, <4>5, InOneColumn
        <4> QED BY <4>1, <4>2, <4>6
      <3> QED BY <3>2, <3>3 DEF ChunksDisjoint
    <2> QED BY <2>2, <2>3 DEF LoopInv
  <1> QED BY <1>1, TypeCorrect, PTL

\* When the loop has ended every pixel is in a chunk.
THEOREM Cover == Spec => []ChunksCover
  <1>1. TypeOK /\ LoopInv => ChunksCover
    <2> SUFFICES ASSUME TypeOK, LoopInv, Done,
                        NEW px \in 0..(raster_xsize - 1), NEW py \in 0..(raster_ysize - 1)
                 PROVE  \E c \in chunks : Holds(c, px, py)
      BY DEF ChunksCover
    <2>1. raster_xsize \in Nat \ {0} /\ raster_ysize \in Nat \ {0}
      BY ChunkAssumption DEF TypeOK
    <2>2. LoopStarted /\ ChunksBefore /\ y = num_chunks_y
      BY DEF LoopInv, Done
    <2>3. chunk_xsize \in Nat \ {0} /\ chunk_ysize \in Nat \ {0} /\ px \in Nat /\ py \in Nat
      BY <2>1, <2>2 DEF LoopStarted
    <2>0. /\ raster_xsize \in RasterSizes /\ chunk_xsize \in 1..raster_xsize
          /\ raster_ysize \in RasterSizes /\ chunk_ysize \in 1..raster_ysize
      BY <2>2 DEF TypeOK, LoopStarted
    <2>4. num_chunks_x \in Nat /\ num_chunks_y \in Nat
      BY <2>0, RoundingUp DEF num_chunks_x, num_chunks_y
    <2>5. PICK i \in 0..(num_chunks_x - 1) :
              i * chunk_xsize <= px /\ px < i * chunk_xsize + chunk_xsize
      BY <2>0, InSomeColumn DEF num_chunks_x
    <2>6. PICK j \in 0..(num_chunks_y - 1) :
              j * chunk_ysize <= py /\ py < j * chunk_ysize + chunk_ysize
      BY <2>0, InSomeColumn DEF num_chunks_y
    <2>7. i \in Nat /\ j \in Nat /\ i < num_chunks_x /\ j < num_chunks_y
      BY <2>4
    <2>8. px < raster_xsize /\ py < raster_ysize
      BY <2>1
    <2>9. Holds(Chunk(i, j), px, py)
      BY <2>1, <2>2, <2>3, <2>5, <2>6, <2>7, <2>8, ChunkOfPixel
    <2>10. Chunk(i, j) \in chunks
      BY <2>2, <2>7 DEF ChunksBefore, Before
    <2> QED BY <2>9, <2>10
  <1> QED BY <1>1, TypeCorrect, PTL

-----------------------------------------------------------------------------
(* Chunks hold at most max_pixels, or a block, and begin on blocks.         *)

Multiple(n, b) == \E k \in Nat : n = b * k

\* What the chunk size has to do with blocks and max_pixels.
SizeInv ==
    chunk_xsize # 0 =>
        /\ chunk_xsize * chunk_ysize <= Larger(max_pixels, block_xsize * block_ysize)
        /\ chunk_xsize = raster_xsize \/ Multiple(chunk_xsize, block_xsize)
        /\ RowsFit => chunk_ysize = raster_ysize \/ Multiple(chunk_ysize, block_ysize)

LEMMA ClampedTo ==
  ASSUME NEW n \in Int, NEW s \in Nat \ {0}
  PROVE  /\ n >= 1 => Clamped(n, s) <= n
         /\ Clamped(n, s) <= s
         /\ n >= 1 => Clamped(n, s) = s \/ Clamped(n, s) = n
         /\ Clamped(s, s) = s
  BY DEF Clamped, Smaller, Larger

\* The size chosen: one block, blocks of one row, or whole rows.
LEMMA SizeStep ==
  ASSUME TypeOK, ChunkSize
  PROVE  SizeInv'
  <1>1. /\ raster_xsize \in Nat \ {0} /\ raster_ysize \in Nat \ {0}
        /\ block_xsize \in Nat \ {0} /\ block_ysize \in Nat \ {0}
        /\ max_pixels \in Nat /\ raster_ysize <= MaxInt /\ MaxInt \in Nat
    BY ChunkAssumption DEF TypeOK
  <1>2. /\ chunk_xsize' \in Nat /\ chunk_ysize' \in Nat
        /\ chunk_xsize' <= raster_xsize /\ chunk_ysize' <= raster_ysize
    BY <1>1, ChunkSizeType
  <1> DEFINE limit == Larger(max_pixels, block_xsize * block_ysize)
             Good == /\ chunk_xsize' * chunk_ysize' <= limit
                     /\ chunk_xsize' = raster_xsize \/ Multiple(chunk_xsize', block_xsize)
                     /\ RowsFit => chunk_ysize' = raster_ysize \/ Multiple(chunk_ysize', block_ysize)
  <1>3. block_xsize * block_ysize \in Nat
    BY <1>1
  <1>4. limit \in Nat /\ max_pixels <= limit /\ block_xsize * block_ysize <= limit
    BY <1>1, <1>3 DEF Larger
  <1>5. Multiple(block_xsize, block_xsize) /\ Multiple(block_ysize, block_ysize)
    <2>1. block_xsize = block_xsize * 1 /\ block_ysize = block_ysize * 1
      BY <1>1
    <2> QED BY <2>1 DEF Multiple
  <1>6. ASSUME max_pixels = 0 PROVE Good
    <2>1. /\ chunk_xsize' = Clamped(block_xsize, raster_xsize)
          /\ chunk_ysize' = Clamped(block_ysize, raster_ysize)
      BY <1>6 DEF ChunkSize
    <2>2. /\ chunk_xsize' <= block_xsize /\ chunk_ysize' <= block_ysize
          /\ chunk_xsize' = raster_xsize \/ chunk_xsize' = block_xsize
          /\ chunk_ysize' = raster_ysize \/ chunk_ysize' = block_ysize
      BY <1>1, <2>1, ClampedTo
    <2>3. chunk_xsize' * chunk_ysize' <= block_xsize * block_ysize
      BY <1>1, <1>2, <2>2, Products
    <2>4. chunk_xsize' * chunk_ysize' \in Int
      BY <1>2
    <2>5. chunk_xsize' * chunk_ysize' <= limit
      <3> HIDE DEF limit
      <3> QED BY <1>3, <1>4, <2>3, <2>4
    <2> HIDE DEF limit
    <2> QED BY <1>5, <2>2, <2>5
  <1>7. ASSUME max_pixels # 0, Less(blocks_per_chunk, blocks_per_row) PROVE Good
    <2> DEFINE t == Trunc(blocks_per_chunk)
               k == Larger(t, 1)
    <2>1. /\ chunk_xsize' = Clamped(ColumnsOfBlocks, raster_xsize)
          /\ chunk_ysize' = Clamped(block_ysize, raster_ysize)
      BY <1>7 DEF ChunkSize
    <2>2. t \in Nat /\ t * (block_xsize * block_ysize) <= max_pixels
      BY <1>7, RoundingHarmless DEF TypeOK, blocks_per_chunk
    <2>3. ColumnsOfBlocks = block_xsize * k
      BY DEF ColumnsOfBlocks
    <2> HIDE DEF t
    <2>4. k \in Nat \ {0} /\ (k = t \/ k = 1)
      BY <2>2 DEF Larger
    <2> HIDE DEF k
    <2>5. block_xsize * k \in Nat /\ block_xsize * k >= 1
      <3>1. block_xsize * k \in Nat
        BY <1>1, <2>4
      <3>2. block_xsize * k # 0
        BY <1>1, <2>4
      <3> QED BY <3>1, <3>2
    <2>6. /\ chunk_xsize' <= block_xsize * k /\ chunk_ysize' <= block_ysize
          /\ chunk_xsize' = raster_xsize \/ chunk_xsize' = block_xsize * k
          /\ chunk_ysize' = raster_ysize \/ chunk_ysize' = block_ysize
      BY <1>1, <2>1, <2>3, <2>5, ClampedTo
    <2>7. chunk_xsize' * chunk_ysize' <= (block_xsize * k) * block_ysize
      BY <1>1, <1>2, <2>5, <2>6, Products
    <2>8. (block_xsize * k) * block_ysize = k * (block_xsize * block_ysize)
      BY <1>1, <2>4
    <2>9. k * (block_xsize * block_ysize) <= limit
      <3>1. CASE k = t
        <4> HIDE DEF limit
        <4>1. t * (block_xsize * block_ysize) \in Int
          BY <1>3, <2>2
        <4> QED BY <1>1, <1>4, <2>2, <3>1, <4>1
      <3>2. CASE k = 1
        <4> HIDE DEF limit
        <4> QED BY <1>3, <1>4, <3>2
      <3> QED BY <2>4, <3>1, <3>2
    <2>10. /\ chunk_xsize' * chunk_ysize' \in Int
           /\ k * (block_xsize * block_ysize) \in Int
      BY <1>2, <1>3, <2>4
    <2> HIDE DEF limit
    <2>11. chunk_xsize' * chunk_ysize' <= limit
      BY <1>4, <2>7, <2>8, <2>9, <2>10
    <2>12. chunk_xsize' = raster_xsize \/ Multiple(chunk_xsize', block_xsize)
      BY <2>4, <2>6 DEF Multiple
    <2> QED BY <1>5, <2>6, <2>11, <2>12
  <1>8. ASSUME max_pixels # 0, ~Less(blocks_per_chunk, blocks_per_row) PROVE Good
    <2> DEFINE w == WholeRows
    <2>1. PICK n \in RowsOfBlocks(w) :
            /\ chunk_xsize' = Clamped(raster_xsize, raster_xsize)
            /\ chunk_ysize' = Clamped(n, raster_ysize)
      BY <1>8 DEF ChunkSize
    <2>2. w \in Nat /\ w >= 1 /\ w * (raster_xsize * block_ysize) <= max_pixels
      BY <1>8, RoundingHarmless
         DEF TypeOK, WholeRows, blocks_per_chunk, blocks_per_row
    <2>3. chunk_xsize' = raster_xsize
      BY <1>1, <2>1, ClampedTo
    <2>4. RowsFit <=> Fits(w)
      BY <1>8 DEF RowsFit
    <2> HIDE DEF w, limit
    <2>5. block_ysize * w \in Nat /\ block_ysize * w >= 1 /\ w <= block_ysize * w
      <3>1. block_ysize * w \in Nat
        BY <1>1, <2>2
      <3>2. 1 * w <= block_ysize * w
        BY <1>1, <2>2, Products
      <3> QED BY <2>2, <3>1, <3>2
    <2>6. chunk_ysize' <= block_ysize * w
          /\ (RowsFit => chunk_ysize' = raster_ysize \/ chunk_ysize' = block_ysize * w)
      <3>1. CASE Fits(w)
        <4>1. n = block_ysize * w
          BY <2>1, <3>1 DEF RowsOfBlocks
        <4> QED BY <1>1, <2>1, <2>5, <4>1, ClampedTo
      <3>2. CASE ~Fits(w)
        <4>1. block_ysize * w > MaxInt
          BY <1>1, <2>2, <2>5, <3>2 DEF Fits
        <4> QED BY <1>1, <1>2, <2>4, <2>5, <3>2, <4>1
      <3> QED BY <3>1, <3>2
    <2>7. chunk_xsize' * chunk_ysize' <= raster_xsize * (block_ysize * w)
      BY <1>1, <1>2, <2>3, <2>5, <2>6, Products
    <2>8. raster_xsize * (block_ysize * w) = w * (raster_xsize * block_ysize)
          /\ w * (raster_xsize * block_ysize) \in Int /\ chunk_xsize' * chunk_ysize' \in Int
      BY <1>1, <1>2, <2>2
    <2>9. chunk_xsize' * chunk_ysize' <= limit
      BY <1>1, <1>4, <2>2, <2>7, <2>8
    <2>10. RowsFit => chunk_ysize' = raster_ysize \/ Multiple(chunk_ysize', block_ysize)
      BY <2>2, <2>6 DEF Multiple
    <2> QED BY <2>3, <2>9, <2>10
  <1>9. Good
    BY <1>6, <1>7, <1>8
  <1>10. UNCHANGED <<raster_xsize, raster_ysize, block_xsize, block_ysize, max_pixels>>
    BY DEF ChunkSize, args
  <1>11. RowsFit' <=> RowsFit
    BY <1>10 DEF RowsFit, Fits, WholeRows, blocks_per_chunk, blocks_per_row
  <1> QED BY <1>9, <1>10, <1>11 DEF SizeInv

LEMMA SizeStays ==
  ASSUME SizeInv, UNCHANGED <<args, sizes>>
  PROVE  SizeInv'
  <1>1. /\ UNCHANGED <<raster_xsize, raster_ysize, block_xsize, block_ysize, max_pixels>>
        /\ UNCHANGED <<chunk_xsize, chunk_ysize>>
    BY DEF args, sizes
  <1>2. RowsFit' <=> RowsFit
    BY <1>1 DEF RowsFit, Fits, WholeRows, blocks_per_chunk, blocks_per_row
  <1> QED BY <1>1, <1>2 DEF SizeInv

\* The offset of chunk i is that of a block: either the size is blocks, or
\* there is one chunk.
LEMMA Aligned ==
  ASSUME NEW s \in RasterSizes, NEW c \in 1..s, NEW b \in Nat \ {0},
         c = s \/ Multiple(c, b), NEW i \in Nat, i < NumChunks(s, c)
  PROVE  (i * c) % b = 0
  <1>1. CASE c = s
    <2>0. s \in Nat \ {0}
      BY Sizes
    <2>1. NumChunks(s, c) \in Nat /\ NumChunks(s, c) * c < s + c
      BY RoundingUp
    <2>2. NumChunks(s, c) * s < 2 * s
      BY <1>1, <2>0, <2>1
    <2>3. NumChunks(s, c) < 2
      <3> DEFINE n == NumChunks(s, c)
      <3>1. ASSUME n >= 2 PROVE 2 * s <= n * s
        BY <2>0, <2>1, <3>1, Products
      <3>2. n \in Nat /\ n * s \in Int
        BY <2>0, <2>1
      <3> HIDE DEF n
      <3> QED BY <2>0, <2>2, <3>1, <3>2 DEF n
    <2>4. i = 0
      BY <2>1, <2>3
    <2> QED BY <2>4
  <1>2. CASE Multiple(c, b)
    <2>1. PICK k \in Nat : c = b * k
      BY <1>2 DEF Multiple
    <2>2. i * c = b * (i * k) /\ i * k \in Nat
      BY <2>1
    <2>3. \A n \in Nat : (b * n) % b = 0
      OBVIOUS
    <2> QED BY <2>2, <2>3
  <1> QED BY <1>1, <1>2

\* Chunks hold at most max_pixels, or one block where a block has more, and
\* begin on block boundaries in the rows too when their number fits an int.
THEOREM OnBlocks == Spec => []ChunksOnBlocks
  <1>1. Init => SizeInv
    BY DEF Init, SizeInv
  <1>2. TypeOK /\ SizeInv /\ [Next]_vars => SizeInv'
    <2>1. ASSUME TypeOK, SizeInv, NextChunk PROVE SizeInv'
      BY <2>1, SizeStays DEF NextChunk
    <2>2. ASSUME SizeInv, UNCHANGED vars PROVE SizeInv'
      BY <2>2, SizeStays DEF vars
    <2> QED BY <2>1, <2>2, SizeStep DEF Next
  <1>3. TypeOK /\ LoopInv /\ SizeInv => ChunksOnBlocks
    <2> SUFFICES ASSUME TypeOK, LoopInv, SizeInv, NEW c \in chunks
                 PROVE  /\ c.xsize * c.ysize <= Larger(max_pixels, block_xsize * block_ysize)
                        /\ c.xoff % block_xsize = 0
                        /\ RowsFit => c.yoff % block_ysize = 0
      BY DEF ChunksOnBlocks, ChunksFit, BlockAligned
    <2>1. /\ raster_xsize \in Nat \ {0} /\ raster_ysize \in Nat \ {0}
          /\ block_xsize \in Nat \ {0} /\ block_ysize \in Nat \ {0} /\ max_pixels \in Nat
          /\ raster_xsize \in RasterSizes /\ raster_ysize \in RasterSizes
      BY ChunkAssumption DEF TypeOK
    <2>2. LoopStarted /\ ChunksBefore
      BY DEF LoopInv
    <2>3. PICK i \in Nat, j \in Nat : i < num_chunks_x /\ j < num_chunks_y /\ c = Chunk(i, j)
      BY <2>2 DEF ChunksBefore, Before
    <2>4. chunk_xsize \in 1..raster_xsize /\ chunk_ysize \in 1..raster_ysize
      BY <2>2 DEF LoopStarted
    <2>5. /\ c.xoff = i * chunk_xsize /\ c.yoff = j * chunk_ysize
          /\ c.xsize = Smaller(chunk_xsize, raster_xsize - i * chunk_xsize)
          /\ c.ysize = Smaller(chunk_ysize, raster_ysize - j * chunk_ysize)
      BY <2>3 DEF Chunk
    <2>6. /\ c.xsize \in 1..raster_xsize /\ c.ysize \in 1..raster_ysize
      BY DEF TypeOK
    <2>7. c.xsize <= chunk_xsize /\ c.ysize <= chunk_ysize
      <3>1. i * chunk_xsize \in Int /\ j * chunk_ysize \in Int
        BY <2>4
      <3> QED BY <2>1, <2>4, <2>5, <3>1 DEF Smaller
    <2>8. c.xsize * c.ysize <= chunk_xsize * chunk_ysize
      BY <2>1, <2>4, <2>6, <2>7, Products
    <2>9. /\ chunk_xsize * chunk_ysize <= Larger(max_pixels, block_xsize * block_ysize)
          /\ chunk_xsize = raster_xsize \/ Multiple(chunk_xsize, block_xsize)
          /\ RowsFit => chunk_ysize = raster_ysize \/ Multiple(chunk_ysize, block_ysize)
      BY <2>4 DEF SizeInv
    <2>10. /\ c.xsize * c.ysize \in Int /\ chunk_xsize * chunk_ysize \in Int
           /\ Larger(max_pixels, block_xsize * block_ysize) \in Int
      <3>1. block_xsize * block_ysize \in Int
        BY <2>1
      <3> QED BY <2>1, <2>4, <2>6, <3>1 DEF Larger
    <2>11. c.xsize * c.ysize <= Larger(max_pixels, block_xsize * block_ysize)
      BY <2>8, <2>9, <2>10
    <2>12. c.xoff % block_xsize = 0
      <3>1. i < NumChunks(raster_xsize, chunk_xsize)
        BY <2>3 DEF num_chunks_x
      <3>2. (i * chunk_xsize) % block_xsize = 0
        BY <2>1, <2>4, <2>9, <3>1, Aligned
      <3> QED BY <2>5, <3>2
    <2>13. RowsFit => c.yoff % block_ysize = 0
      <3>1. j < NumChunks(raster_ysize, chunk_ysize)
        BY <2>3 DEF num_chunks_y
      <3>2. RowsFit => (j * chunk_ysize) % block_ysize = 0
        BY <2>1, <2>4, <2>9, <3>1, Aligned
      <3> QED BY <2>5, <3>2
    <2> QED BY <2>11, <2>12, <2>13
  <1> QED BY <1>1, <1>2, <1>3, TypeCorrect, PTL DEF Spec
=============================================================================
