--------------------------- MODULE MCDriveServer ---------------------------
(* Model values for DriveServer.                                           *)
EXTENDS DriveServer

CONSTANTS r1, r2

MCRequests == {r1, r2}
=============================================================================
