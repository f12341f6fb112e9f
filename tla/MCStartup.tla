----------------------------- MODULE MCStartup -----------------------------
(* Small instances of S2dsmStartup: two or three ports, pages of 4 bytes and *)
(* 5-bit integers.                                                         *)
EXTENDS S2dsmStartup

Args(P) == [listen : P, send : P]

\* Every way to give two processes two ports each, from three ports.
AnyPorts == {c \in [Proc -> Args(1 .. 3)] : TRUE}

\* Zero, negative, small, and counts whose product wraps to a negative
\* number (4), to zero (8) and to one page (9, and -7).
SomeAnswers == {-7, -1, 0, 1, 2, 4, 8, 9}
=============================================================================
