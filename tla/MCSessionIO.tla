----------------------------- MODULE MCSessionIO -----------------------------
(* Instance of SessionIO for TLC.                                          *)
EXTENDS SessionIO

MCRequests == {3, 6}
MCLimits == {3, 5}
=============================================================================
