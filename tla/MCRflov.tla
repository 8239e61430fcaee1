------------------------------ MODULE MCRflov ------------------------------
EXTENDS Rflov

Origin == {<<0, 0>>}
Ell    == {<<0, 0>>, <<0, 1>>, <<1, 0>>}

(* Packets come to <<0, 1>> from below and, sent by the node of <<0, 0>>,  *)
(* from the West; the latter fly over it once it is off.                   *)
Meeting == {<<<<1, 1>>, North>>, <<<<0, 0>>, East>>}
=============================================================================
