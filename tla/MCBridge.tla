------------------------------ MODULE MCBridge ------------------------------
(* Instances of Bridge for TLC; the .cfg files give the constants.           *)
EXTENDS Bridge

=============================================================================
