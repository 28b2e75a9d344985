---------------------------- MODULE MCSessionQueue ----------------------------
(* Instances of SessionQueue for TLC; the constants are in the cfg files.     *)
EXTENDS SessionQueueProperties
=============================================================================
