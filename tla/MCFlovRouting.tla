--------------------------- MODULE MCFlovRouting ---------------------------
EXTENDS FlovRouting

(* All routers but those of the bottom row.                                *)
UpperRows == Router \ BottomRow
=============================================================================
