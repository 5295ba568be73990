--------------------------- MODULE MCRunningStats ---------------------------
(* Instance of RunningStats for TLC. *)
EXTENDS RunningStats

SomeFinite     == {-1, 0, 2}
NoInfinities   == {}
BothInfinities == {PosInf, NegInf}
=============================================================================
