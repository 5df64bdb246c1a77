--------------------------- MODULE MCPVCUnbinder ---------------------------
(* TLC instances of PVCUnbinder: two brokers, and one node to spare.         *)
EXTENDS PVCUnbinder

OneEach == [b \in Broker |-> b]
Default == {[rebind |-> FALSE, exempt |-> TRUE]}
DefaultOrRebind == {[rebind |-> FALSE, exempt |-> TRUE], [rebind |-> TRUE, exempt |-> TRUE]}
=============================================================================
