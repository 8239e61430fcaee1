--------------------------- MODULE MCNordRouting ---------------------------
EXTENDS NordRouting

(* All routers above the bottom row.                                       *)
UpperRows == Router \ BottomRow
=============================================================================
