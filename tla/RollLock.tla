------------------------------ MODULE RollLock ------------------------------
(***************************************************************************)
(* What rolling restarts promise the cluster, whatever carries them out: a  *)
(* roll takes one broker down, and takes none down until that one is back   *)
(* or gone for good.  BrokerRoll (roll-grants over Broker CRs) and PoolRoll  *)
(* (the pass over StatefulSets) implement it.                                *)
(***************************************************************************)
CONSTANT Broker
VARIABLE down \* brokers a roll has taken down

Init == down = {}

TakeDown(b) == down = {} /\ down' = {b}
BringBack(b) == down = {b} /\ down' = {}

Next == \E b \in Broker : TakeDown(b) \/ BringBack(b)
Spec == Init /\ [][Next]_down
=============================================================================
