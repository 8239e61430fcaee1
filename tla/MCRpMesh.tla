------------------------------ MODULE MCRpMesh ------------------------------
EXTENDS RpMesh

(* The default: gK*gK/2 - gK/2 - 1. *)
MCFabricManager == <<0, 2>>
AllCounts == 0 .. 6
=============================================================================
