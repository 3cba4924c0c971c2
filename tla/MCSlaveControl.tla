-------------------------- MODULE MCSlaveControl ---------------------------
(* Instances of SlaveControl for TLC; the .cfg files give the constants.     *)
EXTENDS SlaveControl

\* Every stage at which a slave process exists.
AnyStage == SlaveStages \ {"none"}

=============================================================================
