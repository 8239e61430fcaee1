------------------------------- MODULE MCFlov -------------------------------
EXTENDS Flov

NoLinks == {}
NoNodes == {}

Inner    == {<<0, 1>>}
Corner   == {<<0, 0>>}
Pair     == {<<0, 0>>, <<0, 1>>}
EastPair == {<<0, 1>>, <<0, 2>>}
RowOf3   == {<<0, 0>>, <<0, 1>>, <<0, 2>>}

(* Packets enter the top row from both ends, and fly over its middle; or   *)
(* only from one end, to fly over the pair at the other.                   *)
Across   == {<<<<0, 0>>, East>>, <<<<0, 2>>, West>>}
FromEast == {<<<<0, 2>>, West>>}
FromWest == {<<<<0, 0>>, East>>}
=============================================================================
