---------------------------- MODULE RunningStats ----------------------------
(***************************************************************************)
(* Class RunningStats: count, mean, minimum, maximum, sum and variance of  *)
(* a data stream in one pass (Welford's algorithm).                        *)
(*                                                                         *)
(* Doubles are modelled by the finite values that matter, the two          *)
(* infinities and NA (every NaN).  Finite arithmetic is exact: a mean is   *)
(* held in units of 1/Scale, and Scale is a multiple of every count that   *)
(* the bound MaxCount allows, so no quotient is truncated.  Rounding       *)
(* errors of the floating-point unit are outside the model.                *)
(*                                                                         *)
(* The loop of update() is one action per value: todo holds the values of  *)
(* its argument it has still to visit.                                     *)
(***************************************************************************)
EXTENDS Integers, Sequences, SequencesExt

CONSTANTS
    Finite,     \* the finite values a stream may hold
    Infinities, \* the infinite values a stream may hold
    NA, PosInf, NegInf,
    MaxChunk,   \* bound: length of the vector given to one update()
    MaxCount,   \* bound: number of values between two resets
    Scale       \* the mean is held in units of 1/Scale

ASSUME StatsAssumption ==
    /\ Finite \subseteq Int
    /\ Infinities \subseteq {PosInf, NegInf}
    /\ {NA, PosInf, NegInf} \cap Int = {}
    /\ NA # PosInf /\ NA # NegInf /\ PosInf # NegInf
    /\ {MaxChunk, MaxCount} \subseteq Nat
    /\ Scale \in Nat \ {0}
    /\ \A k \in 1..MaxCount : Scale % k = 0

Numbers == Finite \cup Infinities \cup {NA}

VARIABLES
    m_na_rm,    \* TRUE: values that are NA are dropped
    m,          \* the other data members: count, mean, min, max, sum, M2
    todo,       \* values the current update() has still to visit
    stream      \* history: the values retained since the last reset

vars == <<m_na_rm, m, todo, stream>>

IsFinite(x) == x \notin {NA, PosInf, NegInf}
IsNA(x)     == x = NA
-----------------------------------------------------------------------------
(* IEEE arithmetic on the modelled values. *)

Neg(x) == CASE x = PosInf -> NegInf
            [] x = NegInf -> PosInf
            [] x = NA     -> NA
            [] OTHER      -> -x

Plus(x, y) ==
    IF IsFinite(x) /\ IsFinite(y) THEN x + y
    ELSE IF NA \in {x, y} \/ {x, y} = {PosInf, NegInf} THEN NA
    ELSE IF IsFinite(x) THEN y ELSE x

Minus(x, y) == Plus(x, Neg(y))

\* The two factors update() multiplies are never both infinite numbers: the
\* second is NaN as soon as the first is not finite.
Times(x, y) == IF IsFinite(x) /\ IsFinite(y) THEN x * y ELSE NA

Over(x, k)   == IF IsFinite(x) THEN x \div k ELSE x
Scaled(x)    == IF IsFinite(x) THEN Scale * x ELSE x

Less(x, y) ==
    /\ NA \notin {x, y}
    /\ x # y
    /\ x = NegInf \/ y = PosInf \/ (IsFinite(x) /\ IsFinite(y) /\ x < y)
-----------------------------------------------------------------------------
(* The constructor sets m_na_rm and m_count only: the doubles hold what the *)
(* memory held, a NaN or a number.                                          *)

Uninitialized == {NA, 0}

Init ==
    /\ m_na_rm \in BOOLEAN
    /\ \E x \in Uninitialized :
          m = [count |-> 0, mean |-> x, min |-> x, max |-> x, sum |-> x, M2 |-> x]
    /\ todo = <<>>
    /\ stream = <<>>

First(n) ==
    [count |-> 1, mean |-> Scaled(n), min |-> n, max |-> n, sum |-> n, M2 |-> 0]

Delta(s, n)   == Minus(Scaled(n), s.mean)
NewMean(s, n) == Plus(s.mean, Over(Delta(s, n), s.count + 1))

\* Fault: the deviation from the mean before this value is squared.
SquareOfDelta(s, n) == Times(Delta(s, n), Delta(s, n))

SquaresAdded(s, n) == Times(Delta(s, n), Minus(Scaled(n), NewMean(s, n)))

Following(s, n) ==
    [count |-> s.count + 1,
     mean  |-> NewMean(s, n),
     M2    |-> Plus(s.M2, SquaresAdded(s, n)),
     min   |-> IF Less(n, s.min) THEN n ELSE s.min,
     max   |-> IF ~Less(n, s.min) /\ Less(s.max, n) THEN n ELSE s.max,
     sum   |-> Plus(s.sum, n)]

\* Fault: a value is counted before it is found to be NA.
UpdateOneCountsNA(s, n) ==
    IF m_na_rm /\ IsNA(n) THEN [s EXCEPT !.count = @ + 1]
    ELSE IF s.count = 0 THEN First(n)
    ELSE Following(s, n)

\* Fault: a first value that is less than what the memory holds sets only
\* the minimum, as every later value does.
UpdateOneNoFirst(s, n) ==
    IF m_na_rm /\ IsNA(n) THEN s
    ELSE IF s.count = 0 THEN [First(n) EXCEPT !.max = IF Less(n, s.max) THEN s.max ELSE n]
    ELSE Following(s, n)

\* One pass of the loop of update().
UpdateOne(s, n) ==
    IF m_na_rm /\ IsNA(n) THEN s
    ELSE IF s.count = 0 THEN First(n)
    ELSE Following(s, n)

\* update() is called and enters its loop.
update(newvalues) ==
    /\ todo = <<>>
    /\ Len(stream) + Len(newvalues) <= MaxCount
    /\ todo' = newvalues
    /\ UNCHANGED <<m_na_rm, m, stream>>

updateLoop ==
    /\ todo # <<>>
    /\ m' = UpdateOne(m, Head(todo))
    /\ stream' = IF m_na_rm /\ IsNA(Head(todo)) THEN stream
                                               ELSE Append(stream, Head(todo))
    /\ todo' = Tail(todo)
    /\ UNCHANGED m_na_rm

\* Fault: reset() leaves the count.
resetKeepsCount ==
    /\ todo = <<>>
    /\ stream' = <<>>
    /\ UNCHANGED <<m_na_rm, m, todo>>

reset ==
    /\ todo = <<>>
    /\ m' = [m EXCEPT !.count = 0]
    /\ stream' = <<>>
    /\ UNCHANGED <<m_na_rm, todo>>

Chunks == UNION {[1..n -> Numbers] : n \in 1..MaxChunk}

Next ==
    \/ \E newvalues \in Chunks : update(newvalues)
    \/ updateLoop
    \/ reset

Spec == Init /\ [][Next]_vars
-----------------------------------------------------------------------------
(* What the accessors return. *)

get_count == m.count
get_mean  == IF m.count > 0 THEN m.mean ELSE NA
\* Fault: the minimum is returned without a look at the sum.
get_minUnchecked == IF m.count > 0 THEN m.min ELSE PosInf
get_min   == IF IsNA(m.sum) THEN NA ELSE IF m.count > 0 THEN m.min ELSE PosInf
get_max   == IF IsNA(m.sum) THEN NA ELSE IF m.count > 0 THEN m.max ELSE NegInf
get_sum   == IF m.count > 0 THEN m.sum ELSE 0
\* The sum of squared deviations, in units of 1/Scale^2, that get_var()
\* divides by count - 1.
get_var   == IF m.count < 2 THEN NA ELSE m.M2
-----------------------------------------------------------------------------
(* Definitions the results are compared with. *)

AllFinite(s) == \A i \in DOMAIN s : IsFinite(s[i])
HasNA(s)     == \E i \in DOMAIN s : IsNA(s[i])

\* f[1] + ... + f[n]
SumTo(f, n) ==
    LET a[i \in 0..n] == IF i = 0 THEN 0 ELSE a[i - 1] + f[i]
    IN  a[n]

Total(s) == SumTo(s, Len(s))

\* Sum over the stream of (n * x - total)^2: n^2 times the sum of squared
\* deviations from the mean.
Deviations(s) ==
    SumTo([i \in 1..Len(s) |->
              (Len(s) * s[i] - Total(s)) * (Len(s) * s[i] - Total(s))], Len(s))

Value == Int \cup {NA, PosInf, NegInf}

\* The data members have the shape the class declares, and no value beyond
\* those retained is counted.
TypeOK ==
    /\ m_na_rm \in BOOLEAN
    /\ m \in [count : 0..MaxCount, mean : Value, min : Numbers \cup {0},
              max : Numbers \cup {0}, sum : Value, M2 : Value]
    /\ todo \in Seq(Numbers)
    /\ stream \in Seq(Numbers)
    /\ m.count + Len(todo) <= MaxCount

\* However the stream was cut into chunks, count, sum and mean are those of
\* all values retained since the last reset, none lost and none seen twice.
CountSumMean ==
    /\ get_count = Len(stream)
    /\ AllFinite(stream) => get_sum = Total(stream)
    /\ AllFinite(stream) /\ stream # <<>> =>
          get_mean * Len(stream) = Scale * Total(stream)

\* The running M2 is the two-pass sum of squared deviations, so get_var() is
\* the sample variance of the stream.
VarianceIsTwoPass ==
    AllFinite(stream) /\ Len(stream) >= 2 =>
        get_var * Len(stream) * Len(stream) = Scale * Scale * Deviations(stream)

\* Of a stream without NA and without both infinities, get_min() and get_max()
\* are attained and bound every value, in whatever order the values came.
ExtremesReceived ==
    /\ stream # <<>> /\ ~HasNA(stream)
    /\ ~({PosInf, NegInf} \subseteq ToSet(stream))
    =>
        /\ {get_min, get_max} \subseteq ToSet(stream)
        /\ \A x \in ToSet(stream) : ~Less(x, get_min) /\ ~Less(get_max, x)

\* A retained NA anywhere in the stream makes every statistic NA, whatever
\* arrives after it (as base R's functions do without na.rm).
NAIsSticky ==
    HasNA(stream) => \A x \in {get_mean, get_min, get_max, get_sum, get_var} : IsNA(x)

\* The extremes reported are those of the stream, and an NA in it shows: the
\* comparisons of update() pass over a NaN, so the stored extremes alone do
\* not tell.
ExtremesOrNA == ExtremesReceived /\ NAIsSticky

\* "The minimum and maximum of a numeric empty set are +Inf and -Inf": what
\* get_min() and get_max() return before any value and after a reset.
ExtremesOfEmpty == stream = <<>> => get_min = PosInf /\ get_max = NegInf
=============================================================================
