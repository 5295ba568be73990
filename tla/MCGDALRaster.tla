---------------------------- MODULE MCGDALRaster ----------------------------
(* Instances of GDALRaster for TLC. *)
EXTENDS GDALRaster, TLC

\* Objects, handles and vectors are alike.
Symmetry == Permutations(Objs) \cup Permutations(Handles) \cup Permutations(Vectors)
=============================================================================
