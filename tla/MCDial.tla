------------------------------- MODULE MCDial -------------------------------
(* Instance of Dial for TLC.                                               *)
EXTENDS Dial

MCLengths == {1, 3}
=============================================================================
