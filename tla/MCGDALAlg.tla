----------------------------- MODULE MCGDALAlg -----------------------------
(* Instances of GDALAlg for TLC. *)
EXTENDS GDALAlg

\* An algorithm for layers, one for SQL with a dialect, and one with an input
\* and a template.
SomeOrders == {<<"input", "input-format", "input-layer">>,
               <<"sql", "input", "input-format", "dialect">>,
               <<"input", "like", "like-layer">>}

\* One algorithm.
OneOrder == {<<"input", "input-format", "input-layer">>}
=============================================================================
