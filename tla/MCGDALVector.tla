---------------------------- MODULE MCGDALVector ----------------------------
(* Instances of GDALVector for TLC. *)
EXTENDS GDALVector

\* Ids with a gap, as after a deletion.
ThreeFIDs == {1, 2, 4}
TwoFIDs == {1, 3}

\* No filter, or one that hides the feature in the middle (the first one).
ThreeQueries == {{1, 2, 4}, {1, 4}}
TwoQueries == {{1, 3}, {3}}

\* No area, or one that hides the first feature.
ThreeAreas == {{1, 2, 4}, {2, 4}}
TwoAreas == {{1, 3}, {3}}
=============================================================================
