------------------------- MODULE MCHeliosDacDevice -------------------------
(* Small instances of HeliosDacDevice for TLC: one application thread, and *)
(* two of which the second destroys the object.                            *)
EXTENDS DeviceSending

CONSTANTS c1, c2

OneClient == {c1}
TwoClients == {c1, c2}
=============================================================================
