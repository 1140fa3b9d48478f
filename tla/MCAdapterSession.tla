-------------------------- MODULE MCAdapterSession --------------------------
(* Model values for AdapterSession.                                        *)
EXTENDS AdapterSession

CONSTANTS c1, c2, s1, s2

MCCallers == {c1, c2}
MCSessions == {s1, s2}
=============================================================================
