---------------------------- MODULE MCHeliosDac ----------------------------
(* Small instances of HeliosDac for TLC. *)
EXTENDS HeliosDac

CONSTANTS t1, t2, d1, d2

TwoThreads == {t1, t2}
TwoDevices == {d1, d2}
=============================================================================
