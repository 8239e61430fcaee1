---------------------------- MODULE MCFlyCredits ----------------------------
EXTENDS FlyCredits

(* Long packets start at one end of the row, single flits elsewhere.       *)
LongFirst == [i \in 0 .. Last |-> IF i = 0 THEN 2 ELSE 1]

Long == [i \in 0 .. Last |-> 2]
=============================================================================
