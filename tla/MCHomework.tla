----------------------------- MODULE MCHomework -----------------------------
(* Small instances of SocketPair and S2fs, side by side: the two share no  *)
(* state, and each goes on whatever the other does.  A message of three    *)
(* bytes.                                                                  *)
EXTENDS SocketPair, S2fs

Bytes == <<1, 2, 0>>

HomeworkInit == PairInit /\ Init

HomeworkNext ==
  \/ PairNext /\ UNCHANGED vars
  \/ Next /\ UNCHANGED pairVars

HomeworkSpec ==
  /\ HomeworkInit /\ [][HomeworkNext]_<<pairVars, vars>>
  /\ PairFairness /\ ReadersFairness
=============================================================================
