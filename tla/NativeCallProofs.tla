--------------------------- MODULE NativeCallProofs ---------------------------
(* Proofs about NativeCall for any functions: a body that is tidy in the    *)
(* sense of Discipline keeps the properties of NativeCall.                  *)
EXTENDS Discipline, TLAPS

(* Where the steps of a list are in what is left of it, and in a list       *)
(* that is put together.                                                    *)

LEMMA TailFacts ==
  ASSUME NEW S, NEW L \in Seq(S), L # << >>
  PROVE  /\ Tail(L) \in Seq(S) /\ Len(L) \in Nat \ {0}
         /\ Len(Tail(L)) = Len(L) - 1
         /\ Head(L) = L[1] /\ Head(L) \in S
         /\ \A i \in 1..Len(Tail(L)) : Tail(L)[i] = L[i + 1]
  OBVIOUS

LEMMA JoinFacts ==
  ASSUME NEW S, NEW B \in Seq(S), NEW R \in Seq(S)
  PROVE  /\ B \o R \in Seq(S) /\ Len(B) \in Nat /\ Len(R) \in Nat
         /\ Len(B \o R) = Len(B) + Len(R)
         /\ \A i \in 1..Len(B) : (B \o R)[i] = B[i]
         /\ \A i \in 1..Len(R) : (B \o R)[Len(B) + i] = R[i]
  OBVIOUS

LEMMA FineTail ==
  ASSUME NEW S, NEW L \in Seq(S), L # << >>, NEW d, NEW k \in Nat
  PROVE  Fine(d, L, k + 1) <=> Fine(d, Tail(L), k)
  <1> DEFINE T == Tail(L)
  <1>1. /\ T \in Seq(S) /\ Len(L) \in Nat \ {0} /\ Len(T) = Len(L) - 1
        /\ \A i \in 1..Len(T) : T[i] = L[i + 1]
    BY TailFacts
  <1> HIDE DEF T
  <1>2. ASSUME Fine(d, L, k + 1) PROVE Fine(d, T, k)
    <2> SUFFICES ASSUME NEW i \in (k + 1)..Len(T), ~Pass(d, T[i])
                 PROVE  \E j \in (k + 1)..i : Sure(d, T[j])
      BY DEF Fine
    <2>1. i + 1 \in (k + 2)..Len(L) /\ T[i] = L[i + 1] /\ k + 1 + 1 = k + 2
      BY <1>1
    <2>2. PICK j \in (k + 2)..(i + 1) : Sure(d, L[j])
      BY <1>2, <2>1 DEF Fine
    <2>3. j - 1 \in (k + 1)..i /\ T[j - 1] = L[j]
      BY <1>1, <2>2
    <2> QED BY <2>2, <2>3
  <1>3. ASSUME Fine(d, T, k) PROVE Fine(d, L, k + 1)
    <2> SUFFICES ASSUME NEW i \in (k + 1 + 1)..Len(L), ~Pass(d, L[i])
                 PROVE  \E j \in (k + 1 + 1)..i : Sure(d, L[j])
      BY DEF Fine
    <2>1. i - 1 \in (k + 1)..Len(T) /\ T[i - 1] = L[i]
      BY <1>1
    <2>2. PICK j \in (k + 1)..(i - 1) : Sure(d, T[j])
      BY <1>3, <2>1 DEF Fine
    <2>3. j + 1 \in (k + 1 + 1)..i /\ T[j] = L[j + 1]
      BY <1>1, <2>2
    <2> QED BY <2>2, <2>3
  <1> QED BY <1>2, <1>3 DEF T

LEMMA OpenedTail ==
  ASSUME NEW S, NEW L \in Seq(S), L # << >>, NEW d, Opened(d, L)
  PROVE  Opened(d, Tail(L))
  <1> SUFFICES ASSUME NEW k \in 1..Len(Tail(L)), ~Safe(d, Tail(L)[k])
               PROVE  Fine(d, Tail(L), k)
    BY DEF Opened
  <1>1. k \in Nat /\ k + 1 \in 1..Len(L) /\ Tail(L)[k] = L[k + 1]
    BY TailFacts
  <1>2. Fine(d, L, k + 1)
    BY <1>1 DEF Opened
  <1> QED BY <1>1, <1>2, FineTail

(* What is not settled in B goes on in R.                                   *)
LEMMA FineJoin ==
  ASSUME NEW S, NEW B \in Seq(S), NEW R \in Seq(S), NEW d, NEW k \in Nat,
         k <= Len(B), Fine(d, B, k),
         Fine(d, R, 0) \/ Settles(d, B, k)
  PROVE  Fine(d, B \o R, k)
  <1> DEFINE J == B \o R
  <1>1. /\ J \in Seq(S) /\ Len(B) \in Nat /\ Len(R) \in Nat
        /\ Len(J) = Len(B) + Len(R)
        /\ \A i \in 1..Len(B) : J[i] = B[i]
        /\ \A i \in 1..Len(R) : J[Len(B) + i] = R[i]
    BY JoinFacts
  <1> HIDE DEF J
  <1> SUFFICES ASSUME NEW i \in (k + 1)..Len(J), ~Pass(d, J[i])
               PROVE  \E j \in (k + 1)..i : Sure(d, J[j])
    BY DEF Fine, J
  <1>2. CASE i <= Len(B)
    <2>1. i \in (k + 1)..Len(B) /\ J[i] = B[i]
      BY <1>1, <1>2
    <2>2. PICK j \in (k + 1)..i : Sure(d, B[j])
      BY <2>1 DEF Fine
    <2>3. J[j] = B[j]
      BY <1>1, <1>2, <2>2
    <2> QED BY <2>2, <2>3
  <1>3. CASE i > Len(B) /\ Settles(d, B, k)
    <2>1. PICK j \in (k + 1)..Len(B) : Sure(d, B[j])
      BY <1>3 DEF Settles
    <2>2. j \in (k + 1)..i /\ J[j] = B[j]
      BY <1>1, <1>3, <2>1
    <2> QED BY <2>1, <2>2
  <1>4. CASE i > Len(B) /\ Fine(d, R, 0)
    <2>1. i - Len(B) \in (0 + 1)..Len(R) /\ J[i] = R[i - Len(B)]
      BY <1>1, <1>4
    <2>2. PICK j \in (0 + 1)..(i - Len(B)) : Sure(d, R[j])
      BY <1>4, <2>1 DEF Fine
    <2>3. Len(B) + j \in (k + 1)..i /\ J[Len(B) + j] = R[j]
      BY <1>1, <1>4, <2>1, <2>2
    <2> QED BY <2>2, <2>3
  <1> QED BY <1>1, <1>2, <1>3, <1>4

LEMMA FineAfter ==
  ASSUME NEW S, NEW B \in Seq(S), NEW R \in Seq(S), NEW d, NEW k \in Nat,
         Fine(d, R, k)
  PROVE  Fine(d, B \o R, Len(B) + k)
  <1> DEFINE J == B \o R
  <1>1. /\ J \in Seq(S) /\ Len(B) \in Nat /\ Len(R) \in Nat
        /\ Len(J) = Len(B) + Len(R)
        /\ \A i \in 1..Len(R) : J[Len(B) + i] = R[i]
    BY JoinFacts
  <1> HIDE DEF J
  <1> SUFFICES ASSUME NEW i \in (Len(B) + k + 1)..Len(J), ~Pass(d, J[i])
               PROVE  \E j \in (Len(B) + k + 1)..i : Sure(d, J[j])
    BY DEF Fine, J
  <1>2. i - Len(B) \in (k + 1)..Len(R) /\ J[i] = R[i - Len(B)]
    BY <1>1
  <1>3. PICK j \in (k + 1)..(i - Len(B)) : Sure(d, R[j])
    BY <1>2 DEF Fine
  <1>4. Len(B) + j \in (Len(B) + k + 1)..i /\ J[Len(B) + j] = R[j]
    BY <1>1, <1>2, <1>3
  <1> QED BY <1>3, <1>4

(* A branch B before the rest R.                                            *)
LEMMA OpenedJoin ==
  ASSUME NEW S, NEW B \in Seq(S), NEW R \in Seq(S), NEW d,
         Opened(d, R), Closed(d, B) \/ (Opened(d, B) /\ Fine(d, R, 0))
  PROVE  Opened(d, B \o R)
  <1> DEFINE J == B \o R
  <1>1. /\ J \in Seq(S) /\ Len(B) \in Nat /\ Len(R) \in Nat
        /\ Len(J) = Len(B) + Len(R)
        /\ \A i \in 1..Len(B) : J[i] = B[i]
        /\ \A i \in 1..Len(R) : J[Len(B) + i] = R[i]
    BY JoinFacts
  <1> HIDE DEF J
  <1> SUFFICES ASSUME NEW k \in 1..Len(J), ~Safe(d, J[k]) PROVE Fine(d, J, k)
    BY DEF Opened, J
  <1>2. CASE k <= Len(B)
    <2>1. k \in 1..Len(B) /\ k \in Nat /\ J[k] = B[k]
      BY <1>1, <1>2
    <2>2. /\ Fine(d, B, k)
          /\ Fine(d, R, 0) \/ Settles(d, B, k)
      BY <2>1 DEF Closed, Opened, Settles
    <2> QED BY <1>2, <2>1, <2>2, FineJoin DEF J
  <1>3. CASE k > Len(B)
    <2>1. PICK m \in 1..Len(R) : k = Len(B) + m
      <3>1. k - Len(B) \in 1..Len(R) /\ k = Len(B) + (k - Len(B))
        BY <1>1, <1>3
      <3> QED BY <3>1
    <2>2. J[k] = R[m] /\ m \in Nat
      BY <1>1, <2>1
    <2>3. Fine(d, R, m)
      BY <2>2 DEF Opened
    <2>4. Fine(d, J, Len(B) + m)
      BY <2>2, <2>3, FineAfter DEF J
    <2> QED BY <2>1, <2>4
  <1> QED BY <1>1, <1>2, <1>3

-----------------------------------------------------------------------------
(* One step.  L is what is to do, b the branch the first step of L takes,   *)
(* R what is to do after it.                                                *)

Continues(S, d, L, b, R) ==
    /\ L \in Seq(S) /\ L # << >> /\ b \in Branches
    /\ Obeys(d, Head(L)) /\ Head(L)[b] \in Seq(S) /\ Head(L).op # "return"
    /\ R = Tail(L) \/ (R = L /\ Head(L).op = "loop")

LEMMA FineRest ==
  ASSUME NEW S, NEW L \in Seq(S), L # << >>, NEW d, Fine(d, L, 0), ~Sure(d, Head(L))
  PROVE  Fine(d, L, 1)
  <1> SUFFICES ASSUME NEW i \in (1 + 1)..Len(L), ~Pass(d, L[i])
               PROVE  \E j \in (1 + 1)..i : Sure(d, L[j])
    BY DEF Fine
  <1>1. i \in (0 + 1)..Len(L) /\ Head(L) = L[1]
    BY TailFacts
  <1>2. PICK j \in (0 + 1)..i : Sure(d, L[j])
    BY <1>1 DEF Fine
  <1>3. j # 1
    BY <1>1, <1>2
  <1> QED BY <1>2, <1>3

LEMMA FineWhole ==
  ASSUME NEW S, NEW L \in Seq(S), L # << >>, NEW d, Fine(d, L, 1), Pass(d, Head(L))
  PROVE  Fine(d, L, 0)
  <1> SUFFICES ASSUME NEW i \in (0 + 1)..Len(L), ~Pass(d, L[i])
               PROVE  \E j \in (0 + 1)..i : Sure(d, L[j])
    BY DEF Fine
  <1>1. i # 1
    BY TailFacts
  <1>2. i \in (1 + 1)..Len(L)
    BY <1>1, TailFacts
  <1>3. PICK j \in (1 + 1)..i : Sure(d, L[j])
    BY <1>2 DEF Fine
  <1>4. j \in (0 + 1)..i
    BY <1>3
  <1> QED BY <1>3, <1>4

LEMMA RestIsFine ==
  ASSUME NEW S, NEW d, NEW L, NEW b, NEW R, Continues(S, d, L, b, R),
         Opened(d, L), ~Safe(d, Head(L))
  PROVE  Fine(d, R, 0)
  <1>1. L \in Seq(S) /\ L # << >> /\ Obeys(d, Head(L))
    BY DEF Continues
  <1>2. Fine(d, L, 1)
    <2>1. Head(L) = L[1] /\ 1 \in 1..Len(L)
      BY <1>1, TailFacts
    <2> QED BY <2>1 DEF Opened
  <1>3. CASE R = Tail(L)
    <2>1. Fine(d, L, 0 + 1)
      BY <1>2
    <2> QED BY <1>1, <1>3, <2>1, FineTail
  <1>4. CASE R = L /\ Head(L).op = "loop"
    <2>1. Pass(d, Head(L))
      BY <1>1, <1>4 DEF Obeys
    <2> QED BY <1>1, <1>2, <1>4, <2>1, FineWhole
  <1> QED BY <1>3, <1>4 DEF Continues

LEMMA RestType ==
  ASSUME NEW S, NEW d, NEW L, NEW b, NEW R, Continues(S, d, L, b, R)
  PROVE  /\ L \in Seq(S) /\ L # << >> /\ R \in Seq(S) /\ Head(L)[b] \in Seq(S)
         /\ Head(L)[b] \o R \in Seq(S)
  <1>1. L \in Seq(S) /\ L # << >> /\ R \in Seq(S) /\ Head(L)[b] \in Seq(S)
    BY TailFacts DEF Continues
  <1> QED BY <1>1, JoinFacts

LEMMA OpenedKept ==
  ASSUME NEW S, NEW d, NEW L, NEW b, NEW R, Continues(S, d, L, b, R), Opened(d, L)
  PROVE  Opened(d, Head(L)[b] \o R)
  <1> DEFINE s == Head(L)
             B == Head(L)[b]
  <1>1. L \in Seq(S) /\ L # << >> /\ R \in Seq(S) /\ B \in Seq(S)
    BY RestType
  <1>2. b \in Branches /\ Obeys(d, s)
    BY DEF Continues
  <1>3. Opened(d, R)
    BY <1>1, OpenedTail DEF Continues
  <1>4. Opened(d, B) /\ (Safe(d, s) => Closed(d, B))
    BY <1>2 DEF Obeys, SafeHolds
  <1>5. ~Safe(d, s) => Fine(d, R, 0)
    BY RestIsFine
  <1> HIDE DEF B, s
  <1>6. Opened(d, B \o R)
    BY <1>1, <1>3, <1>4, <1>5, OpenedJoin
  <1> QED BY <1>6 DEF B

LEMMA RaisedKept ==
  ASSUME NEW S, NEW d, NEW L, NEW b, NEW R, Continues(S, d, L, b, R), Opened(d, L),
         Raises(d, Head(L), b)
  PROVE  Fine(d, Head(L)[b] \o R, 0)
  <1> DEFINE s == Head(L)
             B == Head(L)[b]
  <1>1. L \in Seq(S) /\ L # << >> /\ R \in Seq(S) /\ B \in Seq(S)
    BY RestType
  <1>2. b \in Branches /\ Obeys(d, s) /\ Raises(d, s, b)
    BY DEF Continues
  <1>3. Fine(d, B, 0) /\ (Settles(d, B, 0) \/ Fine(d, R, 0))
    <2>1. CASE Safe(d, s)
      BY <1>2, <2>1 DEF Obeys, SafeHolds, Settles
    <2>2. CASE ~Safe(d, s)
      BY <1>2, <2>2, RestIsFine DEF Obeys
    <2> QED BY <2>1, <2>2
  <1> HIDE DEF B, s
  <1>4. 0 \in Nat /\ 0 <= Len(B)
    BY <1>1, TailFacts
  <1>5. Fine(d, B \o R, 0)
    BY <1>1, <1>3, <1>4, FineJoin
  <1> QED BY <1>5 DEF B

LEMMA OwedKept ==
  ASSUME NEW S, NEW d, NEW L, NEW b, NEW R, Continues(S, d, L, b, R), Fine(d, L, 0),
         ~Clears(d, Head(L), b)
  PROVE  Fine(d, Head(L)[b] \o R, 0)
  <1> DEFINE s == Head(L)
             B == Head(L)[b]
  <1>1. L \in Seq(S) /\ L # << >> /\ R \in Seq(S) /\ B \in Seq(S)
    BY RestType
  <1>2. /\ b \in Branches /\ Obeys(d, s) /\ ~Clears(d, s, b) /\ s.op # "return"
        /\ R = Tail(L) \/ (R = L /\ s.op = "loop")
    BY DEF Continues
  <1>3. Pass(d, s) \/ Sure(d, s)
    <2>1. s = L[1] /\ 1 \in (0 + 1)..Len(L)
      BY <1>1, TailFacts
    <2>2. Pass(d, L[1]) \/ \E j \in (0 + 1)..1 : Sure(d, L[j])
      BY <2>1 DEF Fine
    <2> QED BY <2>1, <2>2
  <1>4. Fine(d, B, 0) /\ (Settles(d, B, 0) \/ Fine(d, R, 0))
    <2>1. CASE Sure(d, s)
      BY <1>2, <2>1 DEF Obeys, SureHolds, Settles
    <2>2. CASE ~Sure(d, s)
      <3>1. Fine(d, B, 0)
        BY <1>2, <1>3, <2>2 DEF Obeys, PassHolds
      <3>2. Fine(d, L, 0 + 1)
        BY <1>1, <2>2, FineRest
      <3>3. Fine(d, Tail(L), 0)
        BY <1>1, <3>2, FineTail
      <3> QED BY <1>2, <3>1, <3>3
    <2> QED BY <2>1, <2>2
  <1> HIDE DEF B, s
  <1>5. 0 \in Nat /\ 0 <= Len(B)
    BY <1>1, TailFacts
  <1>6. Fine(d, B \o R, 0)
    BY <1>1, <1>4, <1>5, FineJoin
  <1> QED BY <1>6 DEF B

(* While d is owed the next step is not wrong.                              *)
LEMMA NotWrong ==
  ASSUME NEW S, NEW d, NEW L \in Seq(S), L # << >>, Obeys(d, Head(L)), Fine(d, L, 0)
  PROVE  ~Wrong(d, Head(L))
  <1>1. Head(L) = L[1] /\ 1 \in (0 + 1)..Len(L)
    BY TailFacts
  <1>2. Pass(d, L[1]) \/ \E j \in (0 + 1)..1 : Sure(d, L[j])
    BY <1>1 DEF Fine
  <1> QED BY <1>1, <1>2 DEF Obeys, PassHolds, SureHolds

-----------------------------------------------------------------------------
(* What holds of every call, tidy or not.                                   *)
Fresh ==
    /\ holder = [x \in Things |-> "none"]
    /\ misused = {} /\ lost = {} /\ unseen = FALSE /\ changed = FALSE

Shape ==
    /\ fn \in DOMAIN Body
    /\ holder \in [Things -> Holders]
    /\ misused \subseteq Things /\ lost \subseteq Things
    /\ unseen \in BOOLEAN /\ changed \in BOOLEAN
    /\ result \in Results
    /\ result = "running" => todo \in Seq(Parts[fn])
    /\ result # "running" => todo = << >>
    /\ result = "idle" => Fresh
    /\ \A x \in Things : holder[x] \in Things => holder[x] \in Homes(fn, x)
    /\ \A x \in Things : holder[x] # "none" => x \in Named(fn)
    /\ misused \subseteq Named(fn) /\ lost \subseteq Named(fn)

(* A step that is no exit, by branch b: the steps that follow, and what it  *)
(* does to the holders and to what is remembered of the call.               *)
Moves(b) ==
    /\ result = "running" /\ todo # << >> /\ step.op # "return"
    /\ fn' = fn /\ result' = result
    /\ \/ todo' = step[b] \o Tail(todo)
       \/ step.op = "loop" /\ todo' = step[b] \o todo

Obtained ==
    /\ Obtains(step) /\ step.x \in Things /\ step.to \in Holders
    /\ \A z \in Things :
           holder'[z] = IF z = step.x THEN step.to
                        ELSE IF holder[z] = step.x THEN "none" ELSE holder[z]

Released ==
    /\ Releases(step) /\ step.x \in Things
    /\ \A z \in Things :
           holder'[z] = IF z = step.x \/ holder[z] = step.x THEN "none"
                        ELSE holder[z]

Given ==
    /\ step.op = "give" /\ step.x \in Things /\ step.to \in Holders
    /\ \A z \in Things :
           holder'[z] = IF z = step.x
                          THEN IF holder[z] = "none" THEN "none" ELSE step.to
                        ELSE IF holder[z] = step.x /\ step.to \in Things
                          THEN step.to ELSE holder[z]

Holds(b) ==
    /\ holder' \in [Things -> Holders]
    /\ \/ ~Acts(step, b) /\ holder' = holder
       \/ Acts(step, b) /\ (Obtained \/ Released \/ Given)

\* what is an error of step
Errs(x) ==
    \/ step.op \in {"free", "freeif"} /\ step.x = x /\ holder[x] # "call"
         /\ (step.op = "freeif" => holder[x] # "none")
    \/ step.op = "use" /\ step.x = x /\ holder[x] = "none"
    \/ Obtains(step) /\ step.to = x /\ holder[x] = "none"
    \/ /\ step.op = "give" /\ step.x = x
       /\ \/ holder[x] \notin {"call", "scope"}
          \/ step.to \in Things /\ holder[step.to] = "none"

Remembers(b) ==
    /\ misused' \subseteq Things /\ lost' \subseteq Things
    /\ unseen' \in BOOLEAN /\ changed' \in BOOLEAN
    /\ \A x \in misused' : x \in misused \/ Errs(x)
    /\ \A x \in lost' : x \in lost \/ (Obtains(step) /\ step.x = x /\ holder[x] = "call")
    /\ unseen' => \/ unseen /\ step.op # "tell"
                  \/ step.op \in {"get", "try"} /\ b = "no"
    /\ changed' => changed \/ step.op = "change"

LEMMA StepFacts ==
  ASSUME Shape, result = "running", todo # << >>
  PROVE  /\ fn \in DOMAIN Body /\ todo \in Seq(Parts[fn]) /\ step \in Parts[fn]
         /\ Formed(step)
         /\ step.yes \in Seq(Parts[fn]) /\ step.no \in Seq(Parts[fn])
         /\ \A b \in Branches : step[b] \in Seq(Parts[fn])
  <1>1. fn \in DOMAIN Body /\ todo \in Seq(Parts[fn])
    BY DEF Shape
  <1>2. step \in Parts[fn]
    BY <1>1, TailFacts DEF step
  <1>3. Formed(step) /\ step.yes \in Seq(Parts[fn]) /\ step.no \in Seq(Parts[fn])
    BY <1>1, <1>2, BodyAssumption
  <1> QED BY <1>1, <1>2, <1>3 DEF Branches

LEMMA ObtainHolds ==
  ASSUME Shape, NEW x \in Things, NEW by \in Holders, Obtain(x, by), Obtains(step)
  PROVE  holder' \in [Things -> Holders] /\ Obtained
  <1>1. holder \in [Things -> Holders] /\ "none" \in Holders
    BY DEF Shape, Holders
  <1>2. step.x = x /\ step.to = by
        /\ holder' = [Without(With(x)) EXCEPT ![x] = by]
    BY DEF Obtain
  <1>3. Without(With(x)) = [z \in Things |->
                              IF z = x \/ holder[z] = x THEN "none" ELSE holder[z]]
    BY DEF Without, With
  <1>4. holder' = [z \in Things |-> IF z = x THEN by
                                    ELSE IF holder[z] = x THEN "none" ELSE holder[z]]
    BY <1>2, <1>3
  <1> QED BY <1>1, <1>2, <1>4 DEF Obtained

LEMMA ReleaseHolds ==
  ASSUME Shape, NEW x \in Things, step.x = x, holder' = Without(With(x)), Releases(step)
  PROVE  holder' \in [Things -> Holders] /\ Released
  <1>1. holder \in [Things -> Holders] /\ "none" \in Holders
    BY DEF Shape, Holders
  <1>2. holder' = [z \in Things |->
                              IF z = x \/ holder[z] = x THEN "none" ELSE holder[z]]
    BY DEF Without, With
  <1> QED BY <1>1, <1>2 DEF Released

LEMMA GiveHolds ==
  ASSUME Shape, NEW x \in Things, NEW y \in Holders, GiveTo(x, y), step.op = "give"
  PROVE  holder' \in [Things -> Holders] /\ Given
  <1>1. holder \in [Things -> Holders] /\ "none" \in Holders
    BY DEF Shape, Holders
  <1>2. /\ step.x = x /\ step.to = y
        /\ holder' = [z \in Things |->
                     IF z = x THEN IF holder[x] = "none" THEN "none" ELSE y
                     ELSE IF holder[z] = x /\ y \in Things THEN y
                     ELSE holder[z]]
    BY DEF GiveTo
  <1> QED BY <1>1, <1>2 DEF Given

Exit == Begin \/ Leave \/ BackToR

LEMMA StepHolds ==
  ASSUME Shape, Next, ~Exit
  PROVE  \E b \in Branches : Moves(b) /\ Holds(b) /\ Remembers(b)
  <1> USE DEF Moves, Holds, Remembers, Errs, Branches, Acts, Doing, GoOn
  <1>t. /\ holder \in [Things -> Holders] /\ misused \subseteq Things
        /\ lost \subseteq Things /\ unseen \in BOOLEAN /\ changed \in BOOLEAN
    BY DEF Shape
  <1>p. ASSUME result = "running", todo # << >>
        PROVE  /\ Formed(step)
               /\ step.yes = step["yes"] /\ step.no = step["no"]
    BY <1>p, StepFacts
  <1>1. CASE TakeStep
    <2>1. PICK x \in Things, by \in Holders : Obtain(x, by)
      BY <1>1 DEF TakeStep
    <2>2. Obtains(step)
      BY <1>1 DEF TakeStep, Obtains
    <2>3. holder' \in [Things -> Holders] /\ Obtained
      BY <2>1, <2>2, ObtainHolds
    <2>4. Moves("yes") /\ Remembers("yes")
      BY <1>1, <1>t, <1>p, <2>1, <2>2 DEF TakeStep, Obtain
    <2>5. Holds("yes")
      BY <1>1, <2>3 DEF TakeStep
    <2> QED BY <2>4, <2>5
  <1>2. CASE GetSucceeds
    <2>1. PICK x \in Things, by \in Holders : Obtain(x, by)
      BY <1>2 DEF GetSucceeds
    <2>2. Obtains(step)
      BY <1>2 DEF GetSucceeds, Obtains
    <2>3. holder' \in [Things -> Holders] /\ Obtained
      BY <2>1, <2>2, ObtainHolds
    <2>4. Moves("yes") /\ Remembers("yes")
      BY <1>2, <1>t, <1>p, <2>1, <2>2 DEF GetSucceeds, Obtain
    <2>5. Holds("yes")
      BY <1>2, <2>3 DEF GetSucceeds
    <2> QED BY <2>4, <2>5
  <1>3. CASE GetFails
    <2>1. Moves("no")
      BY <1>3, <1>p DEF GetFails
    <2>2. Holds("no")
      BY <1>3, <1>t DEF GetFails
    <2>3. Remembers("no")
      BY <1>3, <1>t DEF GetFails
    <2> QED BY <2>1, <2>2, <2>3
  <1>4. CASE \E x \in Things : Release(x)
    <2>1. PICK x \in Things : Release(x)
      BY <1>4
    <2>2. Releases(step) /\ step.x = x /\ ~Obtains(step) /\ step.op = "free"
      BY <2>1 DEF Release, Releases, Obtains
    <2>3. holder' \in [Things -> Holders] /\ Released
      BY <2>1, <2>2, ReleaseHolds DEF Release
    <2>4. Moves("yes")
      BY <1>p, <2>1, <2>2 DEF Release, Formed
    <2>5. Remembers("yes")
      BY <1>t, <2>1, <2>2 DEF Release
    <2>6. Holds("yes")
      BY <2>2, <2>3
    <2> QED BY <2>4, <2>5, <2>6
  <1>5. CASE \E x \in Things : ReleaseIf(x)
    <2>1. PICK x \in Things : ReleaseIf(x)
      BY <1>5
    <2>2. Releases(step) /\ step.x = x /\ ~Obtains(step) /\ step.op = "freeif"
      BY <2>1 DEF ReleaseIf, Releases, Obtains
    <2>3. holder' \in [Things -> Holders] /\ Released
      BY <2>1, <2>2, ReleaseHolds DEF ReleaseIf
    <2>4. Moves("yes")
      BY <1>p, <2>1, <2>2 DEF ReleaseIf, Formed
    <2>5. Remembers("yes")
      BY <1>t, <2>1, <2>2 DEF ReleaseIf
    <2>6. Holds("yes")
      BY <2>2, <2>3
    <2> QED BY <2>4, <2>5, <2>6
  <1>6. CASE \E x \in Things : UseStep(x)
    <2>1. PICK x \in Things : UseStep(x)
      BY <1>6
    <2>2. Moves("yes")
      BY <1>p, <2>1 DEF UseStep, Formed
    <2>3. Holds("yes")
      BY <1>t, <2>1 DEF UseStep
    <2>4. Remembers("yes")
      BY <1>t, <2>1 DEF UseStep
    <2> QED BY <2>2, <2>3, <2>4
  <1>7. CASE GiveStep
    <2>1. PICK x \in Things, y \in Holders : GiveTo(x, y)
      BY <1>7 DEF GiveStep
    <2>2. result = "running" /\ todo # << >> /\ step.op = "give"
      BY <1>7 DEF GiveStep
    <2>3. holder' \in [Things -> Holders] /\ Given
      BY <2>1, <2>2, GiveHolds
    <2>4. Moves("yes")
      BY <1>p, <2>1, <2>2 DEF GiveTo, Formed
    <2>5. Remembers("yes")
      BY <1>t, <2>1, <2>2 DEF GiveTo
    <2>6. Holds("yes")
      BY <2>2, <2>3
    <2> QED BY <2>4, <2>5, <2>6
  <1>8. CASE TrySucceeds
    <2>1. Moves("yes")
      BY <1>8, <1>p DEF TrySucceeds
    <2>2. Holds("yes") /\ Remembers("yes")
      BY <1>8, <1>t DEF TrySucceeds
    <2> QED BY <2>1, <2>2
  <1>9. CASE TryFails
    <2>1. Moves("no")
      BY <1>9, <1>p DEF TryFails
    <2>2. Holds("no") /\ Remembers("no")
      BY <1>9, <1>t DEF TryFails
    <2> QED BY <2>1, <2>2
  <1>10. CASE ChooseStep
    <2>1. Moves("yes") \/ Moves("no")
      BY <1>10, <1>p DEF ChooseStep
    <2>2. \A b \in Branches : Holds(b) /\ Remembers(b)
      BY <1>10, <1>t DEF ChooseStep
    <2> QED BY <2>1, <2>2
  <1>11. CASE LoopStep
    <2>1. Moves("yes") \/ Moves("no")
      BY <1>11, <1>p DEF LoopStep, Formed
    <2>2. \A b \in Branches : Holds(b) /\ Remembers(b)
      BY <1>11, <1>t DEF LoopStep
    <2> QED BY <2>1, <2>2
  <1>12. CASE TellStep
    <2>1. Moves("yes")
      BY <1>12, <1>p DEF TellStep, Formed
    <2>2. Holds("yes") /\ Remembers("yes")
      BY <1>12, <1>t DEF TellStep
    <2> QED BY <2>1, <2>2
  <1>13. CASE ChangeStep
    <2>1. Moves("yes")
      BY <1>13, <1>p DEF ChangeStep, Formed
    <2>2. Holds("yes") /\ Remembers("yes")
      BY <1>13, <1>t DEF ChangeStep
    <2> QED BY <2>1, <2>2
  <1> QED BY <1>1, <1>2, <1>3, <1>4, <1>5, <1>6, <1>7, <1>8, <1>9, <1>10, <1>11,
             <1>12, <1>13 DEF Next, Exit

LEMMA StepNamed ==
  ASSUME Shape, result = "running", todo # << >>
  PROVE  /\ step.x \in Things => step.x \in Named(fn)
         /\ Puts(step) /\ step.to \in Things =>
                step.to \in Wholes(fn) /\ step.to \in Named(fn)
  <1>1. step \in Parts[fn]
    BY StepFacts
  <1> QED BY <1>1 DEF Named, Wholes

LEMMA HomesKept ==
  ASSUME Shape, NEW b \in Branches, Moves(b), Holds(b), NEW z \in Things,
         holder'[z] \in Things
  PROVE  holder'[z] \in Homes(fn, z)
  <1>1. fn \in DOMAIN Body /\ step \in Parts[fn]
    BY StepFacts DEF Moves
  <1>2. holder[z] \in Things => holder[z] \in Homes(fn, z)
    BY DEF Shape
  <1>3. Puts(step) /\ step.to \in Things =>
           /\ step.to \in Homes(fn, step.x)
           /\ step.op = "give" =>
                  (step.x \in Homes(fn, z) => step.to \in Homes(fn, z))
    BY <1>1, HomesAssumption
  <1>4. "none" \notin Things
    BY NamesAssumption
  <1>5. CASE holder' = holder
    BY <1>2, <1>5
  <1>6. CASE Obtained
    BY <1>2, <1>3, <1>4, <1>6 DEF Obtained, Puts
  <1>7. CASE Released
    BY <1>2, <1>4, <1>7 DEF Released
  <1>8. CASE Given
    BY <1>2, <1>3, <1>4, <1>8 DEF Given, Puts
  <1> QED BY <1>5, <1>6, <1>7, <1>8 DEF Holds

LEMMA NamedKept ==
  ASSUME Shape, NEW b \in Branches, Moves(b), Holds(b), NEW z \in Things,
         holder'[z] # "none"
  PROVE  z \in Named(fn)
  <1>1. holder[z] # "none" \/ z = step.x
    BY NamesAssumption DEF Holds, Obtained, Released, Given
  <1>2. step.x \in Things => step.x \in Named(fn)
    BY StepNamed DEF Moves
  <1> QED BY <1>1, <1>2 DEF Shape

LEMMA ShapeMoves ==
  ASSUME Shape, NEW b \in Branches, Moves(b), Holds(b), Remembers(b)
  PROVE  Shape'
  <1>1. /\ fn' = fn /\ result' = "running" /\ result = "running" /\ todo # << >>
        /\ todo' = step[b] \o Tail(todo) \/ todo' = step[b] \o todo
    BY DEF Moves
  <1>2. /\ fn \in DOMAIN Body /\ todo \in Seq(Parts[fn]) /\ step[b] \in Seq(Parts[fn])
    BY <1>1, StepFacts
  <1>3. Tail(todo) \in Seq(Parts[fn])
    BY <1>1, <1>2, TailFacts
  <1>4. todo' \in Seq(Parts[fn])
    BY <1>1, <1>2, <1>3, JoinFacts
  <1>5. \A z \in Things : holder'[z] \in Things => holder'[z] \in Homes(fn, z)
    BY HomesKept
  <1>6. \A z \in Things : holder'[z] # "none" => z \in Named(fn)
    BY NamedKept
  <1>7. holder' \in [Things -> Holders]
    BY DEF Holds
  <1>8. /\ misused' \subseteq Things /\ lost' \subseteq Things
        /\ unseen' \in BOOLEAN /\ changed' \in BOOLEAN
    BY DEF Remembers
  <1>9. result' \in Results
    BY <1>1 DEF Results
  <1>10. misused' \subseteq Named(fn) /\ lost' \subseteq Named(fn)
    <2>1. misused \subseteq Named(fn) /\ lost \subseteq Named(fn)
      BY DEF Shape
    <2>2. \A x \in lost' : x \in lost \/ x = step.x
      BY DEF Remembers
    <2>3. \A x \in misused' : x \in misused \/ x = step.x \/ (Puts(step) /\ x = step.to)
      BY DEF Remembers, Errs, Puts
    <2>4. /\ step.x \in Things => step.x \in Named(fn)
          /\ Puts(step) /\ step.to \in Things => step.to \in Named(fn)
      BY <1>1, StepNamed
    <2> QED BY <1>8, <2>1, <2>2, <2>3, <2>4
  <1> QED BY <1>1, <1>2, <1>4, <1>5, <1>6, <1>7, <1>8, <1>9, <1>10 DEF Shape

LEMMA ShapeExit == Shape /\ Exit => Shape'
  <1> SUFFICES ASSUME Shape, Exit PROVE Shape'
    OBVIOUS
  <1>n. "none" \notin Things /\ "none" \in Holders
    BY NamesAssumption DEF Holders
  <1>1. CASE Begin
    <2>1. /\ result = "idle" /\ todo' = Body[fn] /\ result' = "running"
          /\ UNCHANGED <<fn, holder, misused, lost, unseen, changed>>
      BY <1>1 DEF Begin
    <2>2. fn \in DOMAIN Body /\ Body[fn] \in Seq(Parts[fn])
      BY BodyAssumption DEF Shape
    <2> QED BY <2>1, <2>2 DEF Shape, Results
  <1>2. CASE Leave
    <2>1. /\ result = "running" /\ todo # << >> /\ step.op = "return"
          /\ result' = step.to /\ todo' = << >>
          /\ fn' = fn /\ misused' = misused /\ lost' = lost /\ changed' = changed
          /\ unseen' = (unseen /\ step.to = "value")
      BY <1>2 DEF Leave, Doing
    <2>2. step.to \in {"value", "void", "stop"}
      BY <2>1, StepFacts DEF Formed
    <2>3. \E G : holder' = Without(G)
      BY <1>2 DEF Leave
    <2>4. PICK G : holder' = Without(G)
      BY <2>3
    <2>5. /\ holder' \in [Things -> Holders]
          /\ \A z \in Things : holder'[z] \in {"none", holder[z]}
      BY <2>4, <1>n DEF Without, Shape
    <2>6. \A z \in Things : holder'[z] \in Things => holder'[z] \in Homes(fn, z)
      BY <2>5, <1>n DEF Shape
    <2>7. \A z \in Things : holder'[z] # "none" => z \in Named(fn)
      BY <2>5 DEF Shape
    <2>8. /\ fn' \in DOMAIN Body /\ misused' \subseteq Things /\ lost' \subseteq Things
          /\ unseen' \in BOOLEAN /\ changed' \in BOOLEAN
          /\ misused' \subseteq Named(fn') /\ lost' \subseteq Named(fn')
      BY <2>1 DEF Shape
    <2>9. result' \in Results /\ result' # "running" /\ result' # "idle"
      BY <2>1, <2>2 DEF Results
    <2> QED BY <2>1, <2>5, <2>6, <2>7, <2>8, <2>9 DEF Shape
  <1>3. CASE BackToR
    <2>1. /\ holder' = [x \in Things |-> "none"] /\ misused' = {} /\ lost' = {}
          /\ unseen' = FALSE /\ changed' = FALSE /\ result' = "idle"
          /\ fn' = fn /\ todo' = todo /\ result # "running"
      BY <1>3 DEF BackToR, Ended
    <2>2. holder' \in [Things -> Holders] /\ \A z \in Things : holder'[z] = "none"
      BY <2>1, <1>n
    <2>3. Fresh'
      BY <2>1 DEF Fresh
    <2>4. todo' = << >> /\ fn' \in DOMAIN Body
      BY <2>1 DEF Shape
    <2> QED BY <2>1, <2>2, <2>3, <2>4, <1>n DEF Shape, Results
  <1> QED BY <1>1, <1>2, <1>3 DEF Exit

LEMMA InitShape == Init => Shape
  <1> SUFFICES ASSUME Init PROVE Shape
    OBVIOUS
  <1>1. "none" \notin Things /\ "none" \in Holders
    BY NamesAssumption DEF Holders
  <1>2. holder \in [Things -> Holders] /\ \A z \in Things : holder[z] = "none"
    BY <1>1 DEF Init
  <1>3. Fresh
    BY DEF Init, Fresh
  <1> QED BY <1>1, <1>2, <1>3 DEF Init, Shape, Results

LEMMA StutterShape == Shape /\ UNCHANGED vars => Shape'
  BY DEF Shape, Fresh, vars

-----------------------------------------------------------------------------
(* A tidy body fulfils its debts: while d is owed, what is to do is fine.   *)
Fulfils(d) ==
    result = "running" =>
        Opened(d, todo) /\ (Owed(d) => Fine(d, todo, 0))

\* the step by branch b raises and clears d as it says
Accounts(d, b) ==
    Owed(d)' => (Owed(d) /\ ~Clears(d, step, b)) \/ Raises(d, step, b)

LEMMA FulfilsKept ==
  ASSUME Shape, NEW d, Tidy(fn, d), Fulfils(d), NEW b \in Branches, Moves(b),
         Accounts(d, b)
  PROVE  Fulfils(d)'
  <1>1. /\ result = "running" /\ todo # << >> /\ step.op # "return"
        /\ \/ todo' = step[b] \o Tail(todo)
           \/ step.op = "loop" /\ todo' = step[b] \o todo
    BY DEF Moves
  <1>2. /\ todo \in Seq(Parts[fn]) /\ step \in Parts[fn]
        /\ step[b] \in Seq(Parts[fn])
    BY <1>1, StepFacts
  <1>3. PICK R : /\ R = Tail(todo) \/ (R = todo /\ step.op = "loop")
                 /\ todo' = step[b] \o R
    BY <1>1
  <1>4. Continues(Parts[fn], d, todo, b, R)
    BY <1>1, <1>2, <1>3 DEF Continues, Tidy, step
  <1>5. Opened(d, todo) /\ (Owed(d) => Fine(d, todo, 0))
    BY <1>1 DEF Fulfils
  <1>6. Opened(d, todo')
    BY <1>3, <1>4, <1>5, OpenedKept DEF step
  <1>7. ASSUME Owed(d)' PROVE Fine(d, todo', 0)
    <2>1. CASE Raises(d, step, b)
      BY <1>3, <1>4, <1>5, <2>1, RaisedKept DEF step
    <2>2. CASE Owed(d) /\ ~Clears(d, step, b)
      BY <1>3, <1>4, <1>5, <2>2, OwedKept DEF step
    <2> QED BY <1>7, <2>1, <2>2 DEF Accounts
  <1> QED BY <1>6, <1>7 DEF Fulfils, Opened, Fine

LEMMA FulfilsNotWrong ==
  ASSUME Shape, NEW d, Tidy(fn, d), Fulfils(d), result = "running", todo # << >>,
         Owed(d)
  PROVE  ~Wrong(d, step)
  <1>1. todo \in Seq(Parts[fn]) /\ step \in Parts[fn]
    BY StepFacts
  <1>2. Obeys(d, step) /\ Fine(d, todo, 0)
    BY <1>1 DEF Tidy, Fulfils
  <1> QED BY <1>1, <1>2, NotWrong DEF step

\* the debts this module is about
Known(d) ==
    \/ d = Silence \/ d = Altered
    \/ OfThing(d) /\ d.of \in Things /\ d.within = Homes(fn, d.of)

LEMMA FulfilsExit ==
  ASSUME Shape, NEW d, Known(d), Tidy(fn, d), Exit
  PROVE  Fulfils(d)'
  <1>1. CASE Begin
    <2>1. /\ result = "idle" /\ todo' = Body[fn]
          /\ holder' = holder /\ unseen' = unseen /\ changed' = changed
      BY <1>1 DEF Begin
    <2>2. Fresh
      BY <2>1 DEF Shape
    <2>3. Owed(d)' => "none" \in d.when
      BY <2>1, <2>2 DEF Owed, Known, Silence, Altered, Debt, OfThing, Fresh
    <2>4. Opened(d, todo') /\ (Owed(d)' => Fine(d, todo', 0))
      BY <2>1, <2>3 DEF Tidy
    <2> QED BY <2>4 DEF Fulfils, Opened, Fine
  <1>2. CASE Leave
    <2>1. result' = step.to /\ step.to # "running"
      BY <1>2, StepFacts DEF Leave, Doing, Formed
    <2> QED BY <2>1 DEF Fulfils
  <1>3. CASE BackToR
    BY <1>3 DEF BackToR, Fulfils
  <1> QED BY <1>1, <1>2, <1>3 DEF Exit

LEMMA FulfilsInit == \A d : Init => Fulfils(d)
  BY DEF Init, Fulfils

(* A thing is held by whom the steps say.  Only that something that is not  *)
(* there is given away must be excluded otherwise.                          *)
LEMMA ThingAccounts ==
  ASSUME Shape, NEW d, OfThing(d), d.of \in Things, d.within = Homes(fn, d.of),
         NEW b \in Branches, Moves(b), Holds(b),
         step.op = "give" /\ step.x = d.of /\ "none" \in d.when
            => holder[d.of] # "none"
  PROVE  Accounts(d, b)
  <1> DEFINE z == d.of
  <1>1. z \in Things /\ (Owed(d) <=> holder[z] \in d.when)
        /\ (Owed(d)' <=> holder'[z] \in d.when)
    BY DEF Owed, OfThing
  <1>2. /\ Clears(d, step, b) => Acts(step, b) /\ step.x = z /\ After(step) \notin d.when
        /\ \/ /\ Acts(step, b)
              /\ \/ step.x = z /\ After(step) \in d.when
                 \/ /\ step.x # z /\ step.x \in Homes(fn, z) \ d.when
                    /\ AfterParts(step) \in d.when
                    /\ step.op = "give" => step.to \in Things
           => Raises(d, step, b)
    BY DEF Clears, Raises, OfThing
  <1>3. holder[z] \in Things => holder[z] \in Homes(fn, z)
    BY <1>1 DEF Shape
  <1>n. "none" \notin Things
    BY NamesAssumption
  <1> SUFFICES ASSUME holder'[z] \in d.when
               PROVE  (holder[z] \in d.when /\ ~Clears(d, step, b)) \/ Raises(d, step, b)
    BY <1>1 DEF Accounts
  <1> HIDE DEF z
  <1>4. CASE ~Acts(step, b) /\ holder' = holder
    BY <1>2, <1>4
  <1>5. CASE Acts(step, b) /\ Obtained
    <2>1. After(step) = step.to /\ AfterParts(step) = "none"
      BY <1>5 DEF Obtained, Obtains, After, AfterParts, Puts
    <2> QED BY <1>1, <1>2, <1>3, <1>5, <2>1 DEF Obtained, Obtains
  <1>6. CASE Acts(step, b) /\ Released
    <2>1. After(step) = "none" /\ AfterParts(step) = "none"
      BY <1>6 DEF Released, Releases, After, AfterParts, Puts, Obtains
    <2> QED BY <1>1, <1>2, <1>3, <1>6, <2>1 DEF Released, Releases
  <1>7. CASE Acts(step, b) /\ Given
    <2>1. After(step) = step.to /\ AfterParts(step) = step.to
      BY <1>7 DEF Given, After, AfterParts, Puts
    <2>2. step.x = z /\ "none" \in d.when => holder[z] # "none"
      BY <1>7 DEF Given, z
    <2> QED BY <1>1, <1>2, <1>3, <1>7, <2>1, <2>2 DEF Given
  <1> QED BY <1>4, <1>5, <1>6, <1>7 DEF Holds

LEMMA FailureAccounts ==
  ASSUME NEW b \in Branches, Remembers(b)
  PROVE  Accounts(Silence, b) /\ Accounts(Altered, b)
  <1>1. /\ Silence.name = "silence" /\ Altered.name = "effect"
        /\ ~OfThing(Silence) /\ ~OfThing(Altered)
    BY DEF Silence, Altered, Debt, OfThing
  <1>2. Accounts(Silence, b)
    BY <1>1 DEF Accounts, Owed, Clears, Raises, Remembers
  <1>3. Accounts(Altered, b)
    BY <1>1 DEF Accounts, Owed, Clears, Raises, Remembers
  <1> QED BY <1>2, <1>3

LEMMA FulfilsStutter ==
  ASSUME NEW d, Fulfils(d), UNCHANGED vars
  PROVE  Fulfils(d)'
  BY DEF Fulfils, vars, Owed, Opened, Fine

LEMMA FailureFulfils ==
  ASSUME Shape, [Next]_vars, NEW d, d = Silence \/ d = Altered, Tidy(fn, d), Fulfils(d)
  PROVE  Fulfils(d)'
  <1>1. CASE UNCHANGED vars
    BY <1>1, FulfilsStutter
  <1>2. CASE Exit
    BY <1>2, FulfilsExit DEF Known
  <1>3. CASE Next /\ ~Exit
    <2>1. PICK b \in Branches : Moves(b) /\ Holds(b) /\ Remembers(b)
      BY <1>3, StepHolds
    <2>2. Accounts(d, b)
      BY <2>1, FailureAccounts
    <2> QED BY <2>1, <2>2, FulfilsKept
  <1> QED BY <1>1, <1>2, <1>3

LEMMA NextShape == Shape /\ [Next]_vars => Shape' /\ fn' = fn
  <1> SUFFICES ASSUME Shape, [Next]_vars PROVE Shape' /\ fn' = fn
    OBVIOUS
  <1>1. CASE UNCHANGED vars
    BY <1>1, StutterShape DEF vars
  <1>2. CASE Exit
    BY <1>2, ShapeExit DEF Exit, Begin, Leave, BackToR
  <1>3. CASE Next /\ ~Exit
    BY <1>3, StepHolds, ShapeMoves DEF Moves
  <1> QED BY <1>1, <1>2, <1>3

(* How a call comes to an end, and what it owes then.                       *)
LEMMA Ending ==
  ASSUME Shape, [Next]_vars, Ended'
  PROVE  \/ UNCHANGED vars /\ Ended
         \/ /\ Leave /\ result = "running" /\ todo # << >> /\ step.op = "return"
            /\ result' = step.to
  <1>1. ~Begin /\ ~BackToR
    BY DEF Begin, BackToR, Ended
  <1>2. ASSUME Next, ~Exit PROVE FALSE
    <2>1. PICK b \in Branches : Moves(b)
      BY <1>2, StepHolds
    <2> QED BY <2>1 DEF Moves, Ended
  <1> QED BY <1>1, <1>2 DEF Exit, Leave, Doing, vars, Ended

-----------------------------------------------------------------------------
(* A function whose steps settle what they change before they can fail      *)
(* changes nothing when it reports failure.                                 *)
EffectInv ==
    Tidy(fn, Altered) =>
        Fulfils(Altered) /\ (result \in {"void", "stop"} => ~changed)

LEMMA StepEffect == Shape /\ EffectInv /\ [Next]_vars => EffectInv'
  <1> SUFFICES ASSUME Shape, EffectInv, [Next]_vars, Tidy(fn', Altered)
               PROVE  Fulfils(Altered)' /\ (result' \in {"void", "stop"} => ~changed')
    BY DEF EffectInv
  <1>1. Tidy(fn, Altered) /\ Fulfils(Altered)
    BY NextShape DEF EffectInv
  <1>2. Fulfils(Altered)'
    BY <1>1, FailureFulfils
  <1>3. ASSUME result' \in {"void", "stop"}, changed' PROVE FALSE
    <2>1. CASE UNCHANGED vars
      BY <1>1, <1>3, <2>1 DEF EffectInv, vars
    <2>2. CASE ~UNCHANGED vars
      <3>1. /\ Leave /\ result = "running" /\ todo # << >> /\ step.op = "return"
            /\ result' = step.to
        BY <1>3, <2>2, Ending DEF Ended
      <3>2. changed
        BY <1>3, <3>1 DEF Leave
      <3>3. Owed(Altered)
        BY <3>2 DEF Owed, Altered, Debt
      <3>4. ~Wrong(Altered, step)
        BY <1>1, <3>1, <3>3, FulfilsNotWrong
      <3> QED BY <1>3, <3>1, <3>4 DEF Wrong, Altered, Debt
    <2> QED BY <2>1, <2>2
  <1> QED BY <1>2, <1>3

THEOREM EffectsCommitted == Spec => [](Commits(fn) => AllOrNothing)
  <1>1. Init => Shape /\ EffectInv
    <2>1. Init => EffectInv
      BY FulfilsInit DEF Init, EffectInv
    <2> QED BY <2>1, InitShape
  <1>2. Shape /\ EffectInv /\ [Next]_vars => Shape' /\ EffectInv'
    BY NextShape, StepEffect
  <1>3. EffectInv => (Commits(fn) => AllOrNothing)
    BY DEF EffectInv, Commits, AllOrNothing
  <1> QED BY <1>1, <1>2, <1>3, PTL DEF Spec

(* A function that makes each failure known on every path to an ordinary    *)
(* value never returns one after a failure it kept to itself.               *)
SilenceInv ==
    Tidy(fn, Silence) => Fulfils(Silence) /\ (result = "value" => ~unseen)

LEMMA StepSilence == Shape /\ SilenceInv /\ [Next]_vars => SilenceInv'
  <1> SUFFICES ASSUME Shape, SilenceInv, [Next]_vars, Tidy(fn', Silence)
               PROVE  Fulfils(Silence)' /\ (result' = "value" => ~unseen')
    BY DEF SilenceInv
  <1>1. Tidy(fn, Silence) /\ Fulfils(Silence)
    BY NextShape DEF SilenceInv
  <1>2. Fulfils(Silence)'
    BY <1>1, FailureFulfils
  <1>3. ASSUME result' = "value", unseen' PROVE FALSE
    <2>1. CASE UNCHANGED vars
      BY <1>1, <1>3, <2>1 DEF SilenceInv, vars
    <2>2. CASE ~UNCHANGED vars
      <3>1. /\ Leave /\ result = "running" /\ todo # << >> /\ step.op = "return"
            /\ result' = step.to
        BY <1>3, <2>2, Ending DEF Ended
      <3>2. unseen
        BY <1>3, <3>1 DEF Leave
      <3>3. Owed(Silence)
        BY <3>2 DEF Owed, Silence, Debt
      <3>4. ~Wrong(Silence, step)
        BY <1>1, <3>1, <3>3, FulfilsNotWrong
      <3> QED BY <1>3, <3>1, <3>4 DEF Wrong, Silence, Debt
    <2> QED BY <2>1, <2>2
  <1> QED BY <1>2, <1>3

THEOREM FailuresTold == Spec => [](Tells(fn) => FailureMadeKnown)
  <1>1. Init => Shape /\ SilenceInv
    <2>1. Init => SilenceInv
      BY FulfilsInit DEF Init, SilenceInv
    <2> QED BY <2>1, InitShape
  <1>2. Shape /\ SilenceInv /\ [Next]_vars => Shape' /\ SilenceInv'
    BY NextShape, StepSilence
  <1>3. SilenceInv => (Tells(fn) => FailureMadeKnown)
    BY DEF SilenceInv, Tells, FailureMadeKnown
  <1> QED BY <1>1, <1>2, <1>3, PTL DEF Spec

-----------------------------------------------------------------------------
(* A handle is held until it is released or handed on; what the caller is   *)
(* to get is not left behind by an error.                                   *)
LEMMA HeldIsKnown ==
  ASSUME NEW f, NEW x \in Things
  PROVE  /\ OfThing(Held(f, x)) /\ Held(f, x).of = x /\ Held(f, x).name = "held"
         /\ Held(f, x).within = Homes(f, x) /\ Held(f, x).when = {"call"}
         /\ OfThing(Due(f, x)) /\ Due(f, x).of = x /\ Due(f, x).name = "due"
         /\ Due(f, x).within = Homes(f, x) /\ Due(f, x).when = {"caller"}
  BY DEF Held, Due, Debt, OfThing

LEMMA ThingFulfils ==
  ASSUME Shape, [Next]_vars, NEW d, OfThing(d), d.of \in Things,
         d.within = Homes(fn, d.of), Tidy(fn, d), Fulfils(d),
         result = "running" /\ todo # << >> /\ step.op = "give" /\ step.x = d.of
             /\ "none" \in d.when => holder[d.of] # "none"
  PROVE  Fulfils(d)'
  <1>1. CASE UNCHANGED vars
    BY <1>1, FulfilsStutter
  <1>2. CASE Exit
    BY <1>2, FulfilsExit DEF Known
  <1>3. CASE Next /\ ~Exit
    <2>1. PICK b \in Branches : Moves(b) /\ Holds(b) /\ Remembers(b)
      BY <1>3, StepHolds
    <2>2. Accounts(d, b)
      BY <2>1, ThingAccounts DEF Moves
    <2> QED BY <2>1, <2>2, FulfilsKept
  <1> QED BY <1>1, <1>2, <1>3

Clean(f, x) ==
    fn = f /\ Tidy(f, Held(f, x)) /\ Tidy(f, Due(f, x)) =>
        /\ Fulfils(Held(f, x)) /\ Fulfils(Due(f, x))
        /\ x \notin lost
        /\ Ended => holder[x] # "call" /\ (holder[x] = "caller" => result = "value")

LEMMA StepClean ==
  ASSUME Shape, [Next]_vars, NEW f, NEW x \in Things, Clean(f, x)
  PROVE  Clean(f, x)'
  <1> DEFINE h == Held(f, x)
             u == Due(f, x)
  <1>f. fn' = fn
    BY NextShape
  <1>h. /\ OfThing(h) /\ h.of = x /\ h.name = "held" /\ h.within = Homes(f, x)
        /\ h.when = {"call"}
        /\ OfThing(u) /\ u.of = x /\ u.name = "due" /\ u.within = Homes(f, x)
        /\ u.when = {"caller"}
    BY HeldIsKnown
  <1> SUFFICES ASSUME fn = f, Tidy(f, h), Tidy(f, u)
               PROVE  /\ Fulfils(h)' /\ Fulfils(u)'
                      /\ x \notin lost'
                      /\ Ended' => /\ holder'[x] # "call"
                                   /\ holder'[x] = "caller" => result' = "value"
    BY <1>f DEF Clean
  <1>1. /\ Fulfils(h) /\ Fulfils(u) /\ x \notin lost
        /\ Ended => holder[x] # "call" /\ (holder[x] = "caller" => result = "value")
    BY DEF Clean
  <1> HIDE DEF h, u
  <1>2. Fulfils(h)'
    BY <1>1, <1>h, ThingFulfils
  <1>3. Fulfils(u)'
    BY <1>1, <1>h, ThingFulfils
  <1>4. /\ Owed(h) <=> holder[x] = "call"
        /\ Owed(u) <=> holder[x] = "caller"
    BY <1>h DEF Owed, OfThing
  <1>5. ASSUME x \in lost' PROVE FALSE
    <2>1. Next /\ ~Exit
      BY <1>1, <1>5 DEF vars, Exit, Begin, Leave, BackToR
    <2>2. PICK b \in Branches : Moves(b) /\ Remembers(b)
      BY <2>1, StepHolds
    <2>3. Obtains(step) /\ step.x = x /\ holder[x] = "call"
      BY <1>1, <1>5, <2>2 DEF Remembers
    <2>4. ~Wrong(h, step)
      BY <1>1, <1>4, <2>2, <2>3, FulfilsNotWrong DEF Moves
    <2> QED BY <1>h, <2>3, <2>4 DEF Wrong
  <1>6. ASSUME Ended' PROVE holder'[x] # "call" /\ (holder'[x] = "caller" => result' = "value")
    <2>1. CASE UNCHANGED vars
      BY <1>1, <1>6, <2>1 DEF vars, Ended
    <2>2. CASE ~UNCHANGED vars
      <3>1. /\ Leave /\ result = "running" /\ todo # << >> /\ step.op = "return"
            /\ result' = step.to
        BY <1>6, <2>2, Ending
      <3>2. holder'[x] \in {"none", holder[x]}
        BY <3>1 DEF Leave, Without, Shape
      <3>3. holder[x] # "call"
        <4>1. ASSUME holder[x] = "call" PROVE ~Wrong(h, step)
          BY <1>1, <1>4, <3>1, <4>1, FulfilsNotWrong
        <4> QED BY <1>h, <3>1, <4>1 DEF Wrong
      <3>4. holder[x] = "caller" => step.to = "value"
        <4>1. ASSUME holder[x] = "caller" PROVE ~Wrong(u, step)
          BY <1>1, <1>4, <3>1, <4>1, FulfilsNotWrong
        <4> QED BY <1>h, <3>1, <4>1 DEF Wrong
      <3> QED BY <3>1, <3>2, <3>3, <3>4
    <2> QED BY <2>1, <2>2
  <1> QED BY <1>2, <1>3, <1>5, <1>6

THEOREM CallsClean == Spec => [](Cleans(fn) => NothingLeaks)
  <1> DEFINE AllClean == \A f \in DOMAIN Body, x \in Things : Clean(f, x)
  <1>1. Init => Shape /\ AllClean
    <2>1. Init => AllClean
      BY FulfilsInit DEF Init, Clean, Ended
    <2> QED BY <2>1, InitShape
  <1>2. Shape /\ AllClean /\ [Next]_vars => Shape' /\ AllClean'
    BY NextShape, StepClean
  <1>3. Shape /\ AllClean => (Cleans(fn) => NothingLeaks)
    <2> SUFFICES ASSUME Shape, AllClean, Cleans(fn), Ended, NEW x \in Things,
                        \/ holder[x] = "call" \/ x \in lost
                        \/ holder[x] = "caller" /\ result # "value"
                 PROVE  <<fn, x>> \in KnownLeaks
      BY DEF NothingLeaks
    <2>1. x \in Named(fn) /\ fn \in DOMAIN Body
      BY DEF Shape
    <2>2. Clean(fn, x)
      BY <2>1
    <2> QED BY <2>1, <2>2 DEF Cleans, Clean
  <1> QED BY <1>1, <1>2, <1>3, PTL DEF Spec

-----------------------------------------------------------------------------
(* What is not there is not used, what is not the function's to release is  *)
(* not released or given away.                                              *)
LEMMA AbsentIsKnown ==
  ASSUME NEW f, NEW x \in Things, NEW d, d = Absent(f, x)
  PROVE  /\ OfThing(d) /\ d.of = x /\ d.within = Homes(f, x)
         /\ d.name = "absent" /\ d.when = {"none"}
  BY DEF Absent, Debt, OfThing

LEMMA NotHeldIsKnown ==
  ASSUME NEW f, NEW x \in Things, NEW d, d = NotHeld(f, x)
  PROVE  /\ OfThing(d) /\ d.of = x /\ d.within = Homes(f, x)
         /\ d.name = "unheld" /\ d.when = Holders \ {"call"}
  BY DEF NotHeld, Debt, OfThing

LEMMA ForeignIsKnown ==
  ASSUME NEW f, NEW x \in Things, NEW d, d = Foreign(f, x)
  PROVE  /\ OfThing(d) /\ d.of = x /\ d.within = Homes(f, x)
         /\ d.name = "foreign" /\ d.when = Holders \ {"none", "call"}
  BY DEF Foreign, Debt, OfThing

LEMMA NotOwnIsKnown ==
  ASSUME NEW f, NEW x \in Things, NEW d, d = NotOwn(f, x)
  PROVE  /\ OfThing(d) /\ d.of = x /\ d.within = Homes(f, x)
         /\ d.name = "unowned" /\ d.when = Holders \ {"call", "scope"}
  BY DEF NotOwn, Debt, OfThing

LEMMA PartIsKnown ==
  ASSUME NEW f, NEW x \in Things, NEW d, d = Part(f, x)
  PROVE  /\ OfThing(d) /\ d.of = x /\ d.within = Homes(f, x)
         /\ d.name = "part" /\ d.when = Things
  BY DEF Part, Debt, OfThing

FulfilsThing(f, x) ==
    fn = f /\ TidyThing(f, x) =>
        /\ Fulfils(Absent(f, x)) /\ Fulfils(NotHeld(f, x))
        /\ Fulfils(Foreign(f, x)) /\ Fulfils(NotOwn(f, x))

\* at a step, who holds x is right for it
LEMMA ThingRight ==
  ASSUME Shape, result = "running", todo # << >>, NEW f, fn = f, NEW x \in Things,
         TidyThing(f, x), FulfilsThing(f, x)
  PROVE  /\ holder[x] = "none" =>
                ~(step.op = "use" /\ step.x = x) /\ ~(Puts(step) /\ step.to = x)
         /\ step.op = "free" /\ step.x = x => holder[x] = "call"
         /\ step.op = "freeif" /\ step.x = x => holder[x] \in {"none", "call"}
         /\ step.op = "give" /\ step.x = x => holder[x] \in {"call", "scope"}
  <1> DEFINE a == Absent(f, x)
             h == NotHeld(f, x)
             g == Foreign(f, x)
             o == NotOwn(f, x)
  <1>1. /\ Tidy(fn, a) /\ Tidy(fn, h) /\ Tidy(fn, g) /\ Tidy(fn, o)
        /\ Fulfils(a) /\ Fulfils(h) /\ Fulfils(g) /\ Fulfils(o)
    BY DEF TidyThing, FulfilsThing
  <1>2. /\ OfThing(a) /\ a.of = x /\ a.name = "absent" /\ a.when = {"none"}
        /\ OfThing(h) /\ h.of = x /\ h.name = "unheld" /\ h.when = Holders \ {"call"}
        /\ OfThing(g) /\ g.of = x /\ g.name = "foreign"
        /\ g.when = Holders \ {"none", "call"}
        /\ OfThing(o) /\ o.of = x /\ o.name = "unowned"
        /\ o.when = Holders \ {"call", "scope"}
    <2>1. OfThing(a) /\ a.of = x /\ a.name = "absent" /\ a.when = {"none"}
      BY AbsentIsKnown
    <2>2. OfThing(h) /\ h.of = x /\ h.name = "unheld" /\ h.when = Holders \ {"call"}
      BY NotHeldIsKnown
    <2>3. OfThing(g) /\ g.of = x /\ g.name = "foreign"
          /\ g.when = Holders \ {"none", "call"}
      BY ForeignIsKnown
    <2>4. OfThing(o) /\ o.of = x /\ o.name = "unowned"
          /\ o.when = Holders \ {"call", "scope"}
      BY NotOwnIsKnown
    <2> QED BY <2>1, <2>2, <2>3, <2>4
  <1> HIDE DEF a, h, g, o
  <1>3. holder[x] \in Holders
    BY DEF Shape
  <1>8. /\ Owed(a) <=> holder[x] \in a.when
        /\ Owed(h) <=> holder[x] \in h.when
        /\ Owed(g) <=> holder[x] \in g.when
        /\ Owed(o) <=> holder[x] \in o.when
    BY <1>2 DEF Owed, OfThing
  <1>4. ASSUME holder[x] = "none"
        PROVE  ~(step.op = "use" /\ step.x = x) /\ ~(Puts(step) /\ step.to = x)
    <2>1. ~Wrong(a, step)
      BY <1>1, <1>2, <1>4, <1>8, FulfilsNotWrong
    <2> QED BY <1>2, <2>1 DEF Wrong
  <1>5. ASSUME step.op = "free", step.x = x, holder[x] # "call" PROVE FALSE
    <2>1. ~Wrong(h, step)
      BY <1>1, <1>2, <1>3, <1>5, <1>8, FulfilsNotWrong
    <2> QED BY <1>2, <1>5, <2>1 DEF Wrong
  <1>6. ASSUME step.op = "freeif", step.x = x, holder[x] \notin {"none", "call"}
        PROVE  FALSE
    <2>1. ~Wrong(g, step)
      BY <1>1, <1>2, <1>3, <1>6, <1>8, FulfilsNotWrong
    <2> QED BY <1>2, <1>6, <2>1 DEF Wrong
  <1>7. ASSUME step.op = "give", step.x = x, holder[x] \notin {"call", "scope"}
        PROVE  FALSE
    <2>1. ~Wrong(o, step)
      BY <1>1, <1>2, <1>3, <1>7, <1>8, FulfilsNotWrong
    <2> QED BY <1>2, <1>7, <2>1 DEF Wrong
  <1> QED BY <1>4, <1>5, <1>6, <1>7

LEMMA StepThing ==
  ASSUME Shape, [Next]_vars, NEW f, NEW x \in Things, FulfilsThing(f, x)
  PROVE  FulfilsThing(f, x)'
  <1>f. fn' = fn
    BY NextShape
  <1> SUFFICES ASSUME fn = f, TidyThing(f, x)
               PROVE  /\ Fulfils(Absent(f, x))' /\ Fulfils(NotHeld(f, x))'
                      /\ Fulfils(Foreign(f, x))' /\ Fulfils(NotOwn(f, x))'
    BY <1>f DEF FulfilsThing
  <1> DEFINE D == {Absent(f, x), NotHeld(f, x), Foreign(f, x), NotOwn(f, x)}
  <1>1. \A d \in D : /\ Tidy(fn, d) /\ Fulfils(d)
                     /\ OfThing(d) /\ d.of = x /\ d.within = Homes(f, x)
    BY AbsentIsKnown, NotHeldIsKnown, ForeignIsKnown, NotOwnIsKnown
       DEF TidyThing, FulfilsThing
  <1> HIDE DEF D
  <1>2. result = "running" /\ todo # << >> /\ step.op = "give" /\ step.x = x
            => holder[x] # "none"
    BY ThingRight
  <1>3. \A d \in D : Fulfils(d)'
    <2> SUFFICES ASSUME NEW d \in D PROVE Fulfils(d)'
      OBVIOUS
    <2> QED BY <1>1, <1>2, ThingFulfils
  <1> QED BY <1>3 DEF D

MindsInv(f) ==
    fn = f /\ Minds(f) => \A x \in misused : <<f, x>> \in KnownMisuse

LEMMA StepMinds ==
  ASSUME Shape, [Next]_vars, NEW f, \A x \in Things : FulfilsThing(f, x), MindsInv(f)
  PROVE  MindsInv(f)'
  <1>f. fn' = fn /\ Shape'
    BY NextShape
  <1> SUFFICES ASSUME fn = f, Minds(f), NEW x \in misused', <<f, x>> \notin KnownMisuse
               PROVE  FALSE
    BY <1>f DEF MindsInv
  <1>1. x \notin misused
    BY DEF MindsInv
  <1>2. x \in Named(f) /\ x \in Things
    BY <1>f DEF Shape
  <1>3. PICK b \in Branches : Moves(b) /\ Remembers(b)
    <2>1. Next /\ ~Exit
      BY <1>1 DEF vars, Exit, Begin, Leave, BackToR
    <2> QED BY <2>1, StepHolds
  <1>4. /\ result = "running" /\ todo # << >> /\ step \in Parts[f] /\ Errs(x)
    BY <1>1, <1>3, StepFacts DEF Moves, Remembers
  <1>5. /\ TidyThing(f, x)
        /\ step.op = "give" /\ step.x = x /\ step.to \in Things => TidyThing(f, step.to)
    BY <1>2, <1>4 DEF Minds
  <1>6. /\ holder[x] = "none" =>
               ~(step.op = "use" /\ step.x = x) /\ ~(Puts(step) /\ step.to = x)
        /\ step.op = "free" /\ step.x = x => holder[x] = "call"
        /\ step.op = "freeif" /\ step.x = x => holder[x] \in {"none", "call"}
        /\ step.op = "give" /\ step.x = x => holder[x] \in {"call", "scope"}
    BY <1>2, <1>4, <1>5, ThingRight
  <1>7. ASSUME step.op = "give", step.x = x, step.to \in Things, holder[step.to] = "none"
        PROVE  FALSE
    <2>1. PICK y \in Things : y = step.to
      BY <1>7
    <2>2. TidyThing(f, y) /\ holder[y] = "none" /\ Puts(step)
      BY <1>5, <1>7, <2>1 DEF Puts
    <2>3. ~(Puts(step) /\ step.to = y)
      BY <1>4, <2>2, ThingRight
    <2> QED BY <2>1, <2>2, <2>3
  <1> QED BY <1>4, <1>6, <1>7 DEF Errs, Puts

THEOREM MisuseIsKnown == Spec => [](Minds(fn) => NothingMisused)
  <1> DEFINE Right == \A f \in DOMAIN Body, x \in Things : FulfilsThing(f, x)
             Mind == \A f \in DOMAIN Body : MindsInv(f)
  <1>1. Init => Shape /\ Right /\ Mind
    <2>1. Init => Right
      BY FulfilsInit DEF FulfilsThing
    <2>2. Init => Mind
      BY DEF Init, MindsInv
    <2> QED BY <2>1, <2>2, InitShape
  <1>2. Shape /\ Right /\ Mind /\ [Next]_vars => Shape' /\ Right' /\ Mind'
    BY NextShape, StepThing, StepMinds
  <1>3. Shape /\ Mind => (Minds(fn) => NothingMisused)
    BY DEF Shape, MindsInv, NothingMisused
  <1> QED BY <1>1, <1>2, <1>3, PTL DEF Spec

-----------------------------------------------------------------------------
(* A part is never put into what is not there or is a part itself.          *)
Proper == {"call", "scope", "caller"}

PartsInv(f) ==
    fn = f /\ KeepsOrder(f) =>
        /\ \A y \in Wholes(f) : Fulfils(Part(f, y))
        /\ \A z \in Things : holder[z] \in Things => holder[holder[z]] \in Proper

LEMMA WholeIsProper ==
  ASSUME Shape, result = "running", todo # << >>, NEW f, fn = f, KeepsOrder(f),
         PartsInv(f), \A x \in Things : FulfilsThing(f, x),
         Puts(step), step.to \in Things
  PROVE  step.to \in Wholes(f) /\ holder[step.to] \in Proper
  <1>1. PICK y \in Things : y = step.to
    OBVIOUS
  <1>2. y \in Wholes(f)
    BY <1>1, StepNamed
  <1>3. TidyThing(f, y) /\ Tidy(f, Part(f, y)) /\ Fulfils(Part(f, y))
    BY <1>2 DEF KeepsOrder, PartsInv
  <1>4. holder[y] # "none"
    BY <1>1, <1>3, ThingRight
  <1> DEFINE d == Part(f, y)
  <1>5. OfThing(d) /\ d.of = y /\ d.name = "part" /\ d.when = Things
    BY PartIsKnown
  <1>6. Tidy(fn, d) /\ Fulfils(d)
    BY <1>3
  <1> HIDE DEF d
  <1>7. Owed(d) <=> holder[y] \in Things
    BY <1>5 DEF Owed, OfThing
  <1>8. ASSUME holder[y] \in Things PROVE FALSE
    <2>1. ~Wrong(d, step)
      BY <1>6, <1>7, <1>8, FulfilsNotWrong
    <2> QED BY <1>1, <1>5, <2>1 DEF Wrong
  <1>9. holder[y] \in Holders
    BY DEF Shape
  <1> QED BY <1>1, <1>2, <1>4, <1>8, <1>9 DEF Holders, Proper

LEMMA ProperKept ==
  ASSUME Shape, NEW f, fn = f, KeepsOrder(f), PartsInv(f),
         \A x \in Things : FulfilsThing(f, x),
         NEW b \in Branches, Moves(b), Holds(b),
         NEW z \in Things, holder'[z] \in Things
  PROVE  holder'[holder'[z]] \in Proper
  <1>1. /\ result = "running" /\ todo # << >> /\ Formed(step)
    BY StepFacts DEF Moves
  <1>2. Puts(step) => step.to \notin {"none", step.x}
    BY <1>1 DEF Formed
  <1>3. Puts(step) /\ step.to \in Things => holder[step.to] \in Proper
    BY <1>1, WholeIsProper
  <1>4. \A w \in Things : holder[w] \in Things => holder[holder[w]] \in Proper
    BY DEF PartsInv
  <1>n. /\ "none" \notin Things /\ Proper \cap Things = {} /\ "none" \notin Proper
        /\ \A w \in Holders : w \in Things \/ w \in Proper \/ w = "none"
    BY NamesAssumption DEF Proper, Holders
  <1>5. CASE holder' = holder
    BY <1>4, <1>5
  <1>6. CASE Obtained
    <2>1. Puts(step)
      BY <1>6 DEF Obtained, Puts
    <2>2. CASE z = step.x
      BY <1>2, <1>3, <1>6, <1>n, <2>1, <2>2 DEF Obtained
    <2>3. CASE z # step.x
      BY <1>4, <1>6, <1>n, <2>3 DEF Obtained
    <2> QED BY <2>2, <2>3
  <1>7. CASE Released
    BY <1>4, <1>7, <1>n DEF Released
  <1>8. CASE Given
    <2>1. Puts(step)
      BY <1>8 DEF Given, Puts
    <2>2. CASE holder'[z] = step.to /\ step.to # holder[z]
      <3>1. step.to \in Things /\ holder[step.to] \in Proper /\ step.to # step.x
        BY <1>2, <1>3, <2>1, <2>2
      <3>2. holder'[step.to] = holder[step.to]
        BY <1>8, <1>n, <3>1 DEF Given
      <3> QED BY <2>2, <3>1, <3>2
    <2>3. CASE holder'[z] = holder[z]
      <3>1. holder[holder[z]] \in Proper
        BY <1>4, <2>3
      <3>2. CASE holder[z] # step.x
        BY <1>8, <1>n, <2>3, <3>1, <3>2 DEF Given
      <3>3. CASE holder[z] = step.x
        <4>1. holder'[holder[z]] = step.to
          BY <1>8, <1>n, <3>1, <3>3 DEF Given
        <4>2. step.to \in Proper
          <5>1. CASE z = step.x
            BY <1>n, <3>1, <3>3, <5>1
          <5>2. CASE z # step.x
            BY <1>2, <1>8, <1>n, <2>1, <2>3, <3>3, <5>2 DEF Given
          <5> QED BY <5>1, <5>2
        <4> QED BY <2>3, <4>1, <4>2
      <3> QED BY <3>2, <3>3
    <2> QED BY <1>8, <1>n, <2>2, <2>3 DEF Given
  <1> QED BY <1>5, <1>6, <1>7, <1>8 DEF Holds

LEMMA ProperExit ==
  ASSUME Shape, NEW f, fn = f, KeepsOrder(f), PartsInv(f), Exit,
         NEW z \in Things, holder'[z] \in Things
  PROVE  holder'[holder'[z]] \in Proper
  <1>n. "none" \notin Things /\ Proper \cap Things = {}
    BY NamesAssumption DEF Proper
  <1>1. \A w \in Things : holder[w] \in Things => holder[holder[w]] \in Proper
    BY DEF PartsInv
  <1>2. CASE Begin
    BY <1>1, <1>2 DEF Begin
  <1>3. CASE BackToR
    BY <1>3, <1>n DEF BackToR
  <1>4. CASE Leave
    <2> DEFINE Gone == UNION {With(x) : x \in {y \in Things : holder[y] = "scope"}}
    <2>1. holder' = Without(Gone)
      BY <1>4 DEF Leave
    <2>2. holder'[z] = holder[z] /\ z \notin Gone
      BY <1>n, <2>1 DEF Without
    <2>3. holder[holder[z]] \in Proper
      BY <1>1, <2>2
    <2>4. holder[z] \notin Gone
      <3> SUFFICES ASSUME holder[z] \in Gone PROVE FALSE
        OBVIOUS
      <3>1. PICK x \in Things : holder[x] = "scope" /\ holder[z] \in With(x)
        OBVIOUS
      <3>2. holder[z] = x \/ holder[holder[z]] = x
        BY <3>1 DEF With
      <3>3. holder[z] = x
        BY <1>n, <2>3, <3>2
      <3>4. z \in With(x)
        BY <3>3 DEF With
      <3> QED BY <2>2, <3>1, <3>4
    <2>5. holder'[holder[z]] = holder[holder[z]]
      BY <2>1, <2>2, <2>4 DEF Without
    <2> QED BY <2>2, <2>3, <2>5
  <1> QED BY <1>2, <1>3, <1>4 DEF Exit

LEMMA StepParts ==
  ASSUME Shape, [Next]_vars, NEW f, \A x \in Things : FulfilsThing(f, x), PartsInv(f)
  PROVE  PartsInv(f)'
  <1>f. fn' = fn
    BY NextShape
  <1> SUFFICES ASSUME fn = f, KeepsOrder(f)
               PROVE  /\ \A y \in Wholes(f) : Fulfils(Part(f, y))'
                      /\ \A z \in Things : holder'[z] \in Things =>
                                              holder'[holder'[z]] \in Proper
    BY <1>f DEF PartsInv
  <1>1. ASSUME NEW y \in Wholes(f) PROVE Fulfils(Part(f, y))'
    <2> DEFINE d == Part(f, y)
    <2>1. y \in Things
      BY DEF Wholes
    <2>2. OfThing(d) /\ d.of = y /\ d.within = Homes(f, y) /\ d.when = Things
      BY <2>1, PartIsKnown
    <2>3. Tidy(fn, d) /\ Fulfils(d)
      BY DEF KeepsOrder, PartsInv
    <2> HIDE DEF d
    <2>4. "none" \notin d.when
      BY <2>2, NamesAssumption
    <2>5. Fulfils(d)'
      BY <2>1, <2>2, <2>3, <2>4, ThingFulfils
    <2> QED BY <2>5 DEF d
  <1>2. ASSUME NEW z \in Things, holder'[z] \in Things
        PROVE  holder'[holder'[z]] \in Proper
    <2>1. CASE UNCHANGED vars
      BY <1>2, <2>1 DEF PartsInv, vars
    <2>2. CASE Exit
      BY <1>2, <2>2, ProperExit
    <2>3. CASE Next /\ ~Exit
      <3>1. PICK b \in Branches : Moves(b) /\ Holds(b)
        BY <2>3, StepHolds
      <3> QED BY <1>2, <3>1, ProperKept
    <2> QED BY <2>1, <2>2, <2>3
  <1> QED BY <1>1, <1>2

THEOREM PartsKept == Spec => [](KeepsOrder(fn) => TypeOK)
  <1> DEFINE Right == \A f \in DOMAIN Body, x \in Things : FulfilsThing(f, x)
             Order == \A f \in DOMAIN Body : PartsInv(f)
  <1>1. Init => Shape /\ Right /\ Order
    <2>1. Init => Right
      BY FulfilsInit DEF FulfilsThing
    <2>2. Init => Order
      BY FulfilsInit, NamesAssumption DEF Init, PartsInv
    <2> QED BY <2>1, <2>2, InitShape
  <1>2. Shape /\ Right /\ Order /\ [Next]_vars => Shape' /\ Right' /\ Order'
    BY NextShape, StepThing, StepParts
  <1>3. Shape /\ Order => (KeepsOrder(fn) => TypeOK)
    BY DEF Shape, PartsInv, TypeOK, Proper
  <1> QED BY <1>1, <1>2, <1>3, PTL DEF Spec
=============================================================================
