----------------------------- MODULE S2dsmTurns -----------------------------
(***************************************************************************)
(* HW3P2/s2dsm_P2.c under the discipline the assignment allows it to       *)
(* assume: one process acts on a page only after the other has completed   *)
(* its operation and the MSI handling of it.  Under this discipline the    *)
(* two copies of the region behave as one memory (SharedMemory).           *)
(***************************************************************************)
EXTENDS S2dsm

(***************************************************************************)
(* The discipline, asked for one page at a time: p's user starts a command *)
(* once the peer's command no longer touches its pages, the peer's         *)
(* requests about them are consumed, and p's own server has finished with  *)
(* them.  p's own invalidations may still be in flight, the peer's server  *)
(* may still be finishing p's last fetch, and everything on other pages    *)
(* stays concurrent.                                                       *)
(***************************************************************************)
Pages(which) == IF which = -1 THEN Page ELSE {which}

Pending(p, x) == \E i \in 1 .. Len(req[p]) : req[p][i].page = x

Serving(p, x) == spc[p] # "read" /\ spg[p] = x

Calm(p, x) == ~Covers(Peer(p), x) /\ ~Pending(Peer(p), x) /\ ~Serving(p, x)

TurnsNext ==
  \E p \in Proc :
    \/ \E which \in Page \cup {-1} :
         (\A x \in Pages(which) : Calm(p, x)) /\ Command(p, which)
    \/ Exit(p)
    \/ Internal(p)

TurnsSpec == Init /\ [][TurnsNext]_vars
TurnsFairSpec == TurnsSpec /\ Fairness

-----------------------------------------------------------------------------
BothAlive == \A p \in Proc : alive[p]

\* Nothing about page x is in progress anywhere.
Quiet(x) == \A p \in Proc : ~Covers(p, x) /\ ~Pending(p, x) /\ ~Serving(p, x)

\* The owner of a page is alone: SHARED on one side means SHARED on the other,
\* and MODIFIED on one side means INVALID on the other.
Agreed(x) ==
  \A p \in Proc :
    /\ msi[p][x] = "S" => msi[Peer(p)][x] = "S"
    /\ msi[p][x] = "M" => msi[Peer(p)][x] = "I"

\* Two MODIFIED entries mean that one of the two servers has just sent that
\* page away and is about to demote its entry.
SingleWriter(x) ==
  (\A p \in Proc : msi[p][x] = "M") => \E p \in Proc : spc[p] = "share" /\ spg[p] = x

\* Once the handling of the operations on a page is complete, the two msi_array
\* entries agree; and even while it goes on, a write is never acknowledged
\* against a live owner.
MsiAgreement ==
  BothAlive => \A x \in Page : (Quiet(x) => Agreed(x)) /\ SingleWriter(x)

\* The text a process sees on a page it need not ask the peer for: what is
\* mapped, what the handler is about to map, or the zeros it would map.
Sees(p, x) ==
  IF Resident(p, x) THEN mem[p][x]
  ELSE IF fpc[p] = "copy" /\ fpg[p] = x THEN buf[p] ELSE Zero

\* Two SHARED copies hold the same text, except between a writer's strncpy
\* and its update of msi_array.
CopiesAgree ==
  BothAlive => \A x \in Page :
    (\A p \in Proc : msi[p][x] = "S" /\ ~(mpc[p] = "mark" /\ job[p].page = x))
      => Sees(0, x) = Sees(1, x)

\* The hints in msi_array and the page tables say the same where it matters.
\* An INVALID page is never resident: no thread can read a stale text from it
\* without a fault, and so without asking the peer.  And a page that a server
\* sends is resident: server_thread never sleeps in a page fault, for then two
\* servers could each wait for their handler, which waits for the other server.
ResidencyAgrees ==
  BothAlive =>
    /\ \A p \in Proc, x \in Page : msi[p][x] = "I" => ~Resident(p, x)
    /\ \A p \in Proc : fault[p]["server"] = "none"

-----------------------------------------------------------------------------
(***************************************************************************)
(* Refinement.  The current text of page x is in the copy whose owner has  *)
(* just stored into it or holds it MODIFIED (and is not about to demote    *)
(* it); otherwise in any valid resident copy; otherwise it is zeros.       *)
(***************************************************************************)
Owns(p, x) ==
  /\ Resident(p, x)
  /\ \/ mpc[p] = "mark" /\ job[p].page = x
     \/ msi[p][x] = "M" /\ ~(spc[p] = "share" /\ spg[p] = x)

Holds(p, x) == Resident(p, x) /\ msi[p][x] # "I"

Current(x) ==
  CASE Owns(0, x) -> mem[0][x]
    [] ~Owns(0, x) /\ Owns(1, x) -> mem[1][x]
    [] OTHER -> IF Holds(0, x) THEN mem[0][x]
                ELSE IF Holds(1, x) THEN mem[1][x] ELSE Zero

\* The pages p's user has asked to write and p has not written.
ToWrite(p) ==
  {x \in Page : /\ job[p].op = "w" /\ Covers(p, x)
                /\ mpc[p] = "store" \/ x # job[p].page}

Memory == INSTANCE SharedMemory
  WITH Procs <- Proc, Addrs <- Page, Texts <- Values, Blank <- Zero,
       NoLine <- NoLine, up <- BothAlive,
       store <- [x \in Page |-> IF BothAlive THEN Current(x) ELSE Zero],
       todo <- [p \in Proc |-> IF BothAlive
                               THEN {[page |-> x, text |-> job[p].txt] : x \in ToWrite(p)}
                               ELSE {}],
       out <- IF BothAlive THEN line ELSE NoLine

\* Until a process ends, the two processes implement one memory: the text of a
\* page changes only when a user's write to it is carried out, once, whatever
\* is fetched, shared and invalidated meanwhile, and every line printed is the
\* text last written by either process.
MemorySpec == Memory!Spec

\* main always comes back to the prompt: every command a user types completes,
\* unless the process ends (which leaves it at the prompt).
CommandsComplete == \A p \in Proc : []<>(mpc[p] = "prompt")
=============================================================================
