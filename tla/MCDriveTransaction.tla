------------------------- MODULE MCDriveTransaction -------------------------
(* Instance of DriveTransaction for TLC.                                   *)
EXTENDS DriveTransaction
=============================================================================
