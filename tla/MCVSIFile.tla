------------------------------ MODULE MCVSIFile ------------------------------
(* A file of a few bytes, read and written in pieces. *)
EXTENDS VSIFile
=============================================================================
