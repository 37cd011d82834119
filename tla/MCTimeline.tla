----------------------------- MODULE MCTimeline -----------------------------
(***************************************************************************)
(* Timeline with the real fifty cells, filled more than twice, on          *)
(* terminals of 80, 160 and 240 columns.                                   *)
(***************************************************************************)
EXTENDS Timeline

MCMaxPlaces == {21, 48, 75}
=============================================================================
