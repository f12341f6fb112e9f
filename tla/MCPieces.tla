------------------------------ MODULE MCPieces ------------------------------
(* A small instance of S2dsmPieces: pages of three pieces, and texts that  *)
(* share some of them.                                                     *)
EXTENDS S2dsmPieces

CONSTANTS a, b, z

ZeroText == <<z, z, z>>
Typable == {<<a, b, a>>, <<b, a, z>>, ZeroText}
=============================================================================
