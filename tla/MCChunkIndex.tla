---------------------------- MODULE MCChunkIndex ----------------------------
(* Instances of ChunkIndex for TLC. *)
EXTENDS ChunkIndex

SmallExponents == -12..12

\* Rasters of up to 4 x 4 pixels with blocks of up to 3 x 3.
FourSizes == 1..4
ThreeBlocks == 1..3
UpToSixteen == 0..16
=============================================================================
