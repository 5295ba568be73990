------------------------------ MODULE MCCombine ------------------------------
(* Two small rasters, or a table to which an R user gives matrices. *)
EXTENDS Combine

PixelValues == {0, 1}
CellSizes == {1, 2}
SomeIncrements == {0, 1, 2}
Combinations == [1..NRasters -> PixelValues]
=============================================================================
