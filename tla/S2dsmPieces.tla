---------------------------- MODULE S2dsmPieces ----------------------------
(***************************************************************************)
(* S2dsm takes every access to a page as one step.  In HW3P2/s2dsm_P2.c    *)
(* none of them is: strncpy to a page and from it, printf from it and the  *)
(* kernel's copy of it in write() go through its bytes, while the other    *)
(* threads may store into the page, send it away or drop it.  Here every   *)
(* access goes piece by piece, a page that is dropped in between faults    *)
(* again, and the rest of the program is that of S2dsm.  Under the         *)
(* discipline of S2dsmTurns the pieces cannot be told from whole pages.    *)
(*                                                                         *)
(* A text is a sequence of pieces.  write() hands a page to the connection *)
(* when it has copied all of it, and so read() returns it whole.           *)
(***************************************************************************)
EXTENDS S2dsmTurns

CONSTANT
  NumPieces    \* pieces in a page

Piece == UNION {{v[i] : i \in 1 .. NumPieces} : v \in Values}
Written == [1 .. NumPieces -> Piece]     \* what pieces may make of a page

ASSUME PiecesAssumption ==
  /\ NumPieces \in Nat \ {0}
  /\ Values \subseteq Written /\ Absent \notin Written

VARIABLES
  done,    \* done[p][t]: pieces of its page thread t has gone through
  part     \* part[p][t]: what it has copied from them

pieceVars == <<done, part>>
allVars == <<vars, pieceVars>>

PiecesInit ==
  /\ Init
  /\ done = [p \in Proc |-> [t \in Thread |-> 0]]
  /\ part = [p \in Proc |-> [t \in Thread |-> Zero]]

\* Thread t of p has a piece of its page left and the page is there.
Touches(p, t) ==
  /\ Runs(p, t)
  /\ Resident(p, PageOf(p, t))
  /\ done[p][t] < NumPieces
  /\ done' = [done EXCEPT ![p][t] = @ + 1]

CopyPiece(p, t) ==
  /\ Touches(p, t)
  /\ LET i == done[p][t] + 1
     IN part' = [part EXCEPT ![p][t][i] = mem[p][PageOf(p, t)][i]]
  /\ UNCHANGED vars

\* Faulty variant of Ends: the last piece is left out.
EndsShort(p, t) ==
  /\ Runs(p, t)
  /\ done[p][t] = NumPieces - 1
  /\ done' = [done EXCEPT ![p][t] = 0]
  /\ part' = [part EXCEPT ![p][t] = Zero]

\* The access is over.
Ends(p, t) ==
  /\ Runs(p, t)
  /\ done[p][t] = NumPieces
  /\ done' = [done EXCEPT ![p][t] = 0]
  /\ part' = [part EXCEPT ![p][t] = Zero]

\* strncpy from the page, and printf from it.
LoadPiece(p) == mpc[p] \in {"load", "echo"} /\ CopyPiece(p, "main")

PrintPage(p) ==
  line' = [proc |-> p, page |-> job[p].page, text |-> part[p]["main"]]

LoadEnd(p) ==
  /\ mpc[p] = "load"
  /\ Ends(p, "main")
  /\ IF job[p].scope = "all"
     THEN mpc' = [mpc EXCEPT ![p] = "echo"] /\ UNCHANGED <<job, line>>
     ELSE PrintPage(p) /\ NextPage(p)
  /\ UNCHANGED <<msiVars, netVars, alive, srvVars, hndVars, fault>>

EchoEnd(p) ==
  /\ mpc[p] = "echo"
  /\ Ends(p, "main")
  /\ PrintPage(p)
  /\ IF job[p].op = "r"
     THEN NextPage(p)
     ELSE mpc' = [mpc EXCEPT ![p] = "send"] /\ UNCHANGED job
  /\ UNCHANGED <<msiVars, netVars, alive, srvVars, hndVars, fault>>

\* strncpy to the page.
StorePiece(p) ==
  /\ mpc[p] = "store"
  /\ Touches(p, "main")
  /\ LET i == done[p]["main"] + 1
     IN mem' = [mem EXCEPT ![p][job[p].page][i] = job[p].txt[i]]
  /\ UNCHANGED <<msi, netVars, alive, mainVars, srvVars, hndVars, fault, line, part>>

StoreEnd(p) ==
  /\ mpc[p] = "store"
  /\ Ends(p, "main")
  /\ mpc' = [mpc EXCEPT ![p] = "mark"]
  /\ UNCHANGED <<msiVars, netVars, alive, job, srvVars, hndVars, fault, line>>

\* write() of the page.
SendPiece(p) == spc[p] = "page" /\ CopyPiece(p, "server")

SendEnd(p) ==
  /\ spc[p] = "page"
  /\ Ends(p, "server")
  /\ Answer(p, Text(part[p]["server"]))
  /\ spc' = [spc EXCEPT ![p] = "share"]
  /\ UNCHANGED <<msiVars, req, alive, mainVars, spg, hndVars, fault, line>>

Access(p) ==
  \/ LoadPiece(p) \/ LoadEnd(p) \/ EchoEnd(p)
  \/ StorePiece(p) \/ StoreEnd(p) \/ SendPiece(p) \/ SendEnd(p)

\* The steps of S2dsm that are no access to a page; a fault leaves an access
\* where it is.
Rest(p) ==
  \/ MainFault(p) \/ Mark(p) \/ SendInvalidate(p)
  \/ ServeInvalid(p) \/ ServeValid(p) \/ ServerFault(p)
  \/ Share(p) \/ Drop(p) \/ Invalidate(p)
  \/ HandlerStep(p)

\* The process ends.
Vanish(p) ==
  /\ Exit(p) \/ Reset(p) \/ Broken(p)
  /\ done' = [done EXCEPT ![p] = [t \in Thread |-> 0]]
  /\ part' = [part EXCEPT ![p] = [t \in Thread |-> Zero]]

PiecesNext ==
  \E p \in Proc :
    \/ \E which \in Page \cup {-1} :
         /\ \A x \in Pages(which) : Calm(p, x)
         /\ Command(p, which)
         /\ UNCHANGED pieceVars
    \/ Access(p)
    \/ Rest(p) /\ UNCHANGED pieceVars
    \/ Vanish(p)

PiecesSpec == PiecesInit /\ [][PiecesNext]_allVars

-----------------------------------------------------------------------------
\* A page that main is storing into counts as stored from the first piece on.
Storing(p) == mpc[p] = "store" /\ done[p]["main"] > 0

wholeMpc == [p \in Proc |-> IF Storing(p) THEN "mark" ELSE mpc[p]]
wholeMem ==
  [p \in Proc |-> [x \in Page |->
     IF Storing(p) /\ x = job[p].page THEN job[p].txt ELSE mem[p][x]]]

Whole == INSTANCE S2dsmTurns WITH mpc <- wholeMpc, mem <- wholeMem

\* When one process acts on a page only after the other is done with it, no
\* thread ever sees, sends or prints a page that is half old and half new, or
\* loses half of what it stores to a page that is dropped under it: the
\* program is S2dsm, where every access is one step.
WholePages == Whole!TurnsSpec

\* ... and so the two processes still implement one memory.
OneMemory == Whole!MemorySpec
=============================================================================
