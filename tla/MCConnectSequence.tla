-------------------------- MODULE MCConnectSequence --------------------------
(* Instances of ConnectSequence for TLC; the constants are in the cfgs.    *)
EXTENDS ConnectSequence
=============================================================================
