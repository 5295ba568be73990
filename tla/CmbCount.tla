------------------------------- MODULE CmbCount -------------------------------
(***************************************************************************)
(* What class CmbTable promises: combinations are numbered 1, 2, 3, ... in *)
(* the order in which they are first seen, the number of a combination     *)
(* never changes, and the increments given with each are added up.         *)
(***************************************************************************)
EXTENDS Integers, FiniteSets

CONSTANTS
    Key,        \* combinations
    Increment   \* what one sight of a combination may add to its count

VARIABLES
    ids,        \* the combinations seen so far -> their numbers
    counts      \* the combinations seen so far -> their counts

Init == ids = << >> /\ counts = << >>

Seen == DOMAIN ids

FirstSight(k, n) ==
    /\ k \notin Seen
    /\ ids' = [j \in Seen \cup {k} |->
                  IF j = k THEN Cardinality(Seen) + 1 ELSE ids[j]]
    /\ counts' = [j \in Seen \cup {k} |-> IF j = k THEN n ELSE counts[j]]

SeenAgain(k, n) ==
    /\ k \in Seen
    /\ counts' = [counts EXCEPT ![k] = @ + n]
    /\ UNCHANGED ids

Next == \E k \in Key, n \in Increment : FirstSight(k, n) \/ SeenAgain(k, n)

Spec == Init /\ [][Next]_<<ids, counts>>
=============================================================================
