------------------------ MODULE MCBrokerIncarnations ------------------------
(* Instances of BrokerIncarnations for TLC; the cfgs give every constant.    *)
EXTENDS BrokerIncarnations
=============================================================================
