------------------------ MODULE MCCommandProtocol -------------------------
(* A small instance of CommandProtocol for TLC. *)
EXTENDS CommandProtocol

OneName == {"laser"}
=============================================================================
