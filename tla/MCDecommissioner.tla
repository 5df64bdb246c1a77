-------------------------- MODULE MCDecommissioner --------------------------
(* TLC instances of Decommissioner: two pools, of at most two pods and one.  *)
EXTENDS Decommissioner

TwoPools == {<<"a", 0>>, <<"a", 1>>, <<"b", 0>>}
OnePool == {<<"a", 0>>, <<"a", 1>>}
OneOrTwo == {[a |-> n, b |-> 1] : n \in 1 .. 2}
One == {[a |-> n] : n \in 1 .. 2}
V1 == [cleanup |-> FALSE, tooHigh |-> FALSE]
V2 == [cleanup |-> FALSE, tooHigh |-> TRUE]
AutoDeletePVCs == [cleanup |-> TRUE, tooHigh |-> TRUE]
AllModes == {V1, V2, AutoDeletePVCs}
=============================================================================
