------------------------------ MODULE MCS2dsm ------------------------------
(* Small instances of S2dsm and S2dsmTurns for TLC.                        *)
EXTENDS S2dsmTurns

CONSTANT a   \* a text other than the empty one
=============================================================================
