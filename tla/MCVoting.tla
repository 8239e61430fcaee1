------------------------------ MODULE MCVoting ------------------------------
EXTENDS Voting

(* Two nodes of the same column, one of them on the diagonal. *)
Column == {<<0, 1>>, <<1, 1>>}
=============================================================================
