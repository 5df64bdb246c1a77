-------------------------- MODULE MCLeaderElection --------------------------
(* TLC instance of LeaderElection: the constants come from the cfg files.   *)
EXTENDS LeaderElection
=============================================================================
