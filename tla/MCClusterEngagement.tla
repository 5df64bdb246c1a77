------------------------ MODULE MCClusterEngagement ------------------------
(* TLC instances of ClusterEngagement.                                       *)
EXTENDS ClusterEngagement
=============================================================================
