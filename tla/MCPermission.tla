---------------------------- MODULE MCPermission ----------------------------
(* Instances of Permission for TLC: the demo's grant of section [7] (lines  *)
(* 1066-1087) and its neighbours.                                          *)
EXTENDS Permission

SPOT == 4
FORWARD == 1
MCFeedIds == {SPOT, FORWARD}

(* [0b0001, 0b0010] as the demo grants, a one-position list, a negative     *)
(* bitmask (every bit set in Python) and the empty list.                   *)
MCMaskLists == {<<1, 2>>, <<3>>, <<-1, 1>>, <<>>}
(* The demo's (0, 1) and (1, 1), shorter and longer tuples.                *)
MCEnumerables == {<<0, 1>>, <<1, 1>>, <<1>>, <<>>, <<0, 1, 0>>}
(* The same with negative values, which Python refuses to shift by.        *)
MCNegativeEnumerables == MCEnumerables \cup {<<0, -1>>, <<-1, 5>>}
=============================================================================
