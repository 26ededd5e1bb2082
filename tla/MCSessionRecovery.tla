------------------------- MODULE MCSessionRecovery --------------------------
(* Two instances for TLC.                                                  *)
EXTENDS SessionRecovery

CONSTANTS a, b
MCInst == {a, b}
=============================================================================
