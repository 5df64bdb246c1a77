---------------------------- MODULE MCBrokerRoll ----------------------------
(* TLC instances of BrokerRoll.                                              *)
EXTENDS BrokerRoll

(* Each template changes the pod spec.                                       *)
Distinct == [v \in Versions |-> v]
Forward == {<<1, 2>>, <<2, 3>>}
ThereAndBack == {<<1, 2>>, <<2, 1>>}
=============================================================================
