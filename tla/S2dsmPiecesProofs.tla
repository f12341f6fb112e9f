------------------------- MODULE S2dsmPiecesProofs --------------------------
(***************************************************************************)
(* Accesses to pages by pieces cannot be told from accesses to whole       *)
(* pages, for every number of pages and of pieces, every set of texts and  *)
(* every connection capacity: S2dsmPieces implements S2dsmTurns, and so    *)
(* the shared memory.  W is S2dsmTurns with its invariants, as it looks    *)
(* under the refinement mapping.                                           *)
(***************************************************************************)
EXTENDS S2dsmPieces, TLAPS

W == INSTANCE S2dsmProofs WITH mpc <- wholeMpc, mem <- wholeMem

-----------------------------------------------------------------------------
(* The inductive invariant                                                 *)

PieceTypes ==
  /\ done \in [Proc -> [Thread -> 0 .. NumPieces]]
  /\ part \in [Proc -> [Thread -> Written]]
  /\ mem \in [Proc -> [Page -> Written \cup {Absent}]]
  /\ mpc \in [Proc -> {"prompt", "load", "store", "mark", "echo", "send"}]

\* Thread t of p is where it goes through a page.
Accessing(p, t) ==
  IF t = "main" THEN mpc[p] \in {"load", "store", "echo"} ELSE spc[p] = "page"

\* What t has copied from its page, or what it stores to it.
Copied(p, t) == IF t = "main" /\ mpc[p] = "store" THEN job[p].txt ELSE part[p][t]

\* The page of a thread in the middle of an access has stayed where it was,
\* and the pieces the thread has gone through are those of one text.
PartInv(p, t) ==
  done[p][t] > 0 =>
    /\ Accessing(p, t)
    /\ Resident(p, PageOf(p, t))
    /\ \A n \in 1 .. done[p][t] : Copied(p, t)[n] = mem[p][PageOf(p, t)][n]

Parts == \A p \in Proc, t \in Thread : PartInv(p, t)

\* With the invariant of S2dsmTurns, as it looks under the mapping.
IInv == PieceTypes /\ Parts /\ W!TurnsInv

-----------------------------------------------------------------------------
(* What the invariant says                                                 *)

\* The sets of the mapped specification are those of this one.
LEMMA Names ==
  /\ W!Proc = Proc /\ W!Page = Page /\ W!Values = Values /\ W!Thread = Thread
  /\ W!Job = Job /\ W!NoJob = NoJob /\ \A p : W!Peer(p) = Peer(p)
  BY DEF W!Proc, Proc, W!Page, Page, W!Values, Values, W!Thread, Thread, W!Job, Job,
         W!NoJob, NoJob, W!Peer, Peer

\* The peer of a process is the other process.
LEMMA PeerFacts == \A p \in Proc : Peer(p) \in Proc /\ Peer(p) # p /\ Peer(Peer(p)) = p
  BY DEF Proc, Peer

\* Every text is one that pieces may make; a page without one is Absent.
LEMMA TextFacts == Values \subseteq Written /\ Absent \notin Written /\ Zero \in Values
  BY PiecesAssumption DEF Values

\* The mapped main and the mapped pages, one at a time.
LEMMA Mapped ==
  ASSUME NEW p \in Proc
  PROVE  /\ wholeMpc[p] = IF Storing(p) THEN "mark" ELSE mpc[p]
         /\ \A x \in Page : wholeMem[p][x] =
              IF Storing(p) /\ x = job[p].page THEN job[p].txt ELSE mem[p][x]
  BY DEF wholeMpc, wholeMem

\* The types of the variables that are not mapped.
LEMMA RestTypes ==
  ASSUME W!TurnsInv
  PROVE  /\ msi \in [Proc -> [Page -> {"M", "S", "I"}]]
         /\ req \in [Proc -> Seq(Request)]
         /\ resp \in [Proc -> Seq(Reply)]
         /\ alive \in [Proc -> BOOLEAN]
         /\ job \in [Proc -> Job]
         /\ spc \in [Proc -> {"read", "page", "share", "inval"}]
         /\ spg \in [Proc -> Page]
         /\ fpc \in [Proc -> {"poll", "fetch", "await", "awaitpage", "copy"}]
         /\ fpg \in [Proc -> Page]
         /\ buf \in [Proc -> Values]
         /\ fault \in [Proc -> [Thread -> {"none", "queued", "read"}]]
<1>1. W!TypeOK
  BY DEF W!TurnsInv, W!Base
<1> QED
  BY <1>1, Names DEF W!TypeOK, W!Request, Request, W!Reply, Reply

\* The page a thread works on is one of the region.
LEMMA PageOfIn ==
  ASSUME W!TurnsInv, NEW p \in Proc, NEW t \in Thread
  PROVE  PageOf(p, t) \in Page /\ job[p].page \in Page /\ job[p].txt \in Values
  BY RestTypes DEF PageOf, Job

\* The page main is in the middle of storing into is there.
LEMMA StoringResident ==
  ASSUME IInv, NEW p \in Proc, Storing(p)
  PROVE  Resident(p, job[p].page) /\ job[p].txt # Absent /\ mpc[p] = "store"
<1>1. PartInv(p, "main")
  BY DEF IInv, Parts, Thread
<1>2. job[p].txt \in Values
  BY PageOfIn DEF IInv, Thread
<1> QED
  BY <1>1, <1>2, TextFacts DEF Storing, PartInv, PageOf

\* The request a server takes is pending, about a page of the region.
LEMMA HeadPending ==
  ASSUME IInv, NEW p \in Proc, NEW type, Incoming(p, type)
  PROVE  Head(req[Peer(p)]).page \in Page /\ Pending(Peer(p), Head(req[Peer(p)]).page)
<1>1. req[Peer(p)] \in Seq(Request) /\ req[Peer(p)] # <<>>
  BY RestTypes, PeerFacts DEF IInv, Incoming
<1>2. Head(req[Peer(p)]) = req[Peer(p)][1] /\ 1 \in 1 .. Len(req[Peer(p)])
  BY <1>1
<1>3. req[Peer(p)][1] \in Request
  BY <1>1, <1>2
<1> QED
  BY <1>2, <1>3 DEF Pending, Request

\* A page is mapped resident if it is, and a command covers the same pages.
LEMMA SameHints ==
  ASSUME IInv, NEW p \in Proc, NEW x \in Page
  PROVE  /\ W!Resident(p, x) <=> Resident(p, x)
         /\ W!Covers(p, x) <=> Covers(p, x)
<1> QED
  BY StoringResident, Mapped DEF W!Resident, Resident, W!Covers, Covers

\* A command has its pages to itself, and the handler works on absent pages.
LEMMA Alone ==
  ASSUME IInv, NEW p \in Proc
  PROVE  /\ \A x \in Page : Covers(p, x) => ~Pending(Peer(p), x) /\ ~Serving(p, x)
         /\ fpc[p] # "poll" => ~Resident(p, fpg[p])
<1>1. W!Undisturbed(p) /\ W!FaultInv(p)
  BY Names DEF IInv, W!TurnsInv, W!Base
<1>2. fpg[p] \in Page
  BY RestTypes DEF IInv
<1>3. fpc[p] # "poll" => ~Resident(p, fpg[p])
  BY <1>1, <1>2, SameHints DEF W!FaultInv, W!HandlerOnAbsentPage
<1>4. ASSUME NEW x \in Page, Covers(p, x) PROVE ~Pending(Peer(p), x) /\ ~Serving(p, x)
  BY <1>1, <1>4, SameHints, Names DEF W!Undisturbed, W!Pending, Pending, W!Serving, Serving
<1> QED
  BY <1>3, <1>4

\* A page a thread has begun to go through is covered or served, and not by both.
LEMMA Apart ==
  ASSUME IInv, NEW p \in Proc
  PROVE  /\ mpc[p] \in {"load", "store", "echo"} => Covers(p, job[p].page)
         /\ spc[p] = "page" => ~Covers(p, spg[p])
<1>1. spc[p] = "page" => Serving(p, spg[p])
  BY DEF Serving
<1>2. spg[p] \in Page
  BY RestTypes DEF IInv
<1> QED
  BY <1>1, <1>2, Alone DEF Covers

-----------------------------------------------------------------------------
(* Every step is a step of S2dsmTurns under the mapping, or none           *)

\* A step that neither moves main nor changes a page.
LEMMA SameMapping ==
  ASSUME UNCHANGED <<mpc, mem, job>>, \A p \in Proc : done'[p]["main"] = done[p]["main"]
  PROVE  wholeMpc' = wholeMpc /\ wholeMem' = wholeMem
<1>1. \A p \in Proc : Storing(p)' <=> Storing(p)
  BY DEF Storing
<1>2. wholeMpc' = wholeMpc
  BY <1>1 DEF wholeMpc
<1>3. wholeMem' = wholeMem
  BY <1>1 DEF wholeMem
<1> QED
  BY <1>2, <1>3

\* A step that moves main, before its store or after it.
LEMMA MainMoves ==
  ASSUME NEW p \in Proc, mpc \in [Proc -> {"prompt", "load", "store", "mark", "echo", "send"}],
         NEW m, mpc' = [mpc EXCEPT ![p] = m], mem' = mem,
         \A q \in Proc : q # p => job'[q] = job[q] /\ done'[q]["main"] = done[q]["main"],
         ~Storing(p), ~Storing(p)'
  PROVE  wholeMpc' = [wholeMpc EXCEPT ![p] = m] /\ wholeMem' = wholeMem
<1>1. \A q \in Proc : q # p => (Storing(q)' <=> Storing(q))
  BY DEF Storing
<1>2. wholeMpc' = [wholeMpc EXCEPT ![p] = m]
  BY <1>1 DEF wholeMpc
<1>3. wholeMem' = wholeMem
  BY <1>1 DEF wholeMem
<1> QED
  BY <1>2, <1>3

\* What the server does besides sending a page.
LEMMA ServerMaps ==
  ASSUME IInv, NEW p \in Proc, UNCHANGED pieceVars,
         ServeInvalid(p) \/ ServeValid(p) \/ ServerFault(p) \/ Share(p) \/ Invalidate(p)
  PROVE  W!ServerStep(p)
<1> USE Names DEF msiVars, netVars, mainVars, srvVars, hndVars, pieceVars,
       W!msiVars, W!netVars, W!mainVars, W!srvVars, W!hndVars
<1>1. wholeMpc' = wholeMpc /\ wholeMem' = wholeMem
  BY SameMapping DEF ServeInvalid, ServeValid, ServerFault, Share, Invalidate
<1>2. CASE ServeInvalid(p)
  BY <1>1, <1>2 DEF ServeInvalid, W!ServerStep, W!ServeInvalid, Incoming, W!Incoming,
     TakeRequest, W!TakeRequest, Answer, W!Answer, No, W!No
<1>3. CASE ServeValid(p)
  BY <1>1, <1>3 DEF ServeValid, W!ServerStep, W!ServeValid, Incoming, W!Incoming,
     TakeRequest, W!TakeRequest, Answer, W!Answer, Yes, W!Yes
<1>4. CASE ServerFault(p)
  <2>1. spg[p] \in Page
    BY RestTypes DEF IInv
  <2> QED
    BY <1>1, <1>4, <2>1, SameHints DEF ServerFault, W!ServerStep, W!ServerFault, PageFault,
       W!PageFault, PageOf, W!PageOf, Runs, W!Runs
<1>5. CASE Share(p)
  BY <1>1, <1>5 DEF Share, W!ServerStep, W!Share, NextRequest, W!NextRequest
<1>6. CASE Invalidate(p)
  BY <1>1, <1>6 DEF Invalidate, W!ServerStep, W!Invalidate, NextRequest, W!NextRequest
<1> QED
  BY <1>2, <1>3, <1>4, <1>5, <1>6

\* The handler, until it copies its page.
LEMMA HandlerMaps ==
  ASSUME IInv, NEW p \in Proc, UNCHANGED pieceVars, HandlerStep(p), ~Copy(p)
  PROVE  W!HandlerStep(p)
<1> USE Names DEF msiVars, netVars, mainVars, srvVars, hndVars, pieceVars,
       W!msiVars, W!netVars, W!mainVars, W!srvVars, W!hndVars
<1>1. wholeMpc' = wholeMpc /\ wholeMem' = wholeMem
  BY SameMapping
     DEF HandlerStep, TakeFault, SendFetch, GetInvalid, GetValid, GetPage, GetNothing
<1>2. ASSUME NEW t \in Thread, TakeFault(p, t)
      PROVE  W!HandlerStep(p)
  BY <1>1, <1>2 DEF TakeFault, W!HandlerStep, W!TakeFault, PageOf, W!PageOf
<1>3. CASE SendFetch(p)
  BY <1>1, <1>3 DEF SendFetch, W!HandlerStep, W!SendFetch, SentRequest, W!SentRequest
<1>4. CASE GetInvalid(p) \/ GetValid(p) \/ GetPage(p)
  BY <1>1, <1>4 DEF GetInvalid, GetValid, GetPage, W!HandlerStep, W!GetInvalid, W!GetValid,
     W!GetPage, Reading, W!Reading
<1>5. CASE GetNothing(p)
  BY <1>1, <1>5 DEF GetNothing, W!HandlerStep, W!GetNothing
<1> QED
  BY <1>2, <1>3, <1>4, <1>5 DEF HandlerStep

\* The server drops a page that main is not storing into.
LEMMA DropMaps ==
  ASSUME IInv, NEW p \in Proc, UNCHANGED pieceVars, Drop(p)
  PROVE  W!ServerStep(p)
<1> USE Names DEF msiVars, netVars, mainVars, srvVars, hndVars, pieceVars,
       W!msiVars, W!netVars, W!mainVars, W!srvVars, W!hndVars
<1> DEFINE x == Head(req[Peer(p)]).page
<1>1. x \in Page /\ Pending(Peer(p), x)
  BY HeadPending DEF Drop
<1>2. ~(Storing(p) /\ x = job[p].page)
  BY <1>1, Alone, Apart DEF Storing
<1>3. wholeMpc' = wholeMpc
  BY DEF Drop, wholeMpc, Storing
<1>4. mem' = [mem EXCEPT ![p][x] = Absent]
  BY DEF Drop
<1>5. mpc' = mpc /\ job' = job /\ done' = done /\ mem \in [Proc -> [Page -> Written \cup {Absent}]]
  BY DEF Drop, IInv, PieceTypes
<1> HIDE DEF x
<1>6. wholeMem' = [wholeMem EXCEPT ![p][x] = Absent]
  BY <1>1, <1>2, <1>4, <1>5 DEF wholeMem, Storing
<1> QED
  BY <1>3, <1>6 DEF x, Drop, W!ServerStep, W!Drop, Incoming, W!Incoming,
     TakeRequest, W!TakeRequest

\* The handler copies a page that main is not storing into.
LEMMA CopyMaps ==
  ASSUME IInv, NEW p \in Proc, UNCHANGED pieceVars, Copy(p)
  PROVE  W!HandlerStep(p)
<1> USE Names DEF msiVars, netVars, mainVars, srvVars, hndVars, pieceVars,
       W!msiVars, W!netVars, W!mainVars, W!srvVars, W!hndVars
<1>1. fpg[p] \in Page /\ ~Resident(p, fpg[p])
  BY Alone, RestTypes DEF IInv, Copy
<1>2. ~(Storing(p) /\ fpg[p] = job[p].page)
  BY <1>1, StoringResident
<1>3. wholeMpc' = wholeMpc
  BY DEF Copy, wholeMpc, Storing
<1>4. wholeMem' = [wholeMem EXCEPT ![p][fpg[p]] = buf[p]]
  BY <1>1, <1>2 DEF Copy, wholeMem, Storing, IInv, PieceTypes
<1> QED
  BY <1>3, <1>4 DEF Copy, W!HandlerStep, W!Copy, PageOf, W!PageOf

\* Thread t has ended its access, and what it has copied is its page.
LEMMA AllCopied ==
  ASSUME IInv, NEW p \in Proc, NEW t \in Thread, done[p][t] = NumPieces
  PROVE  /\ Resident(p, PageOf(p, t))
         /\ mem[p][PageOf(p, t)] = Copied(p, t)
<1>1. PartInv(p, t) /\ done[p][t] > 0
  BY PiecesAssumption DEF IInv, Parts
<1>2. PageOf(p, t) \in Page /\ job[p].txt \in Values
  BY PageOfIn DEF IInv
<1>3. mem[p][PageOf(p, t)] \in Written /\ Copied(p, t) \in Written
  BY <1>1, <1>2, TextFacts DEF PartInv, Resident, IInv, PieceTypes, Copied
<1>4. \A n \in 1 .. NumPieces : Copied(p, t)[n] = mem[p][PageOf(p, t)][n]
  BY <1>1 DEF PartInv
<1>5. ASSUME NEW f \in Written, NEW g \in Written, \A n \in 1 .. NumPieces : f[n] = g[n]
      PROVE  f = g
  <2>1. /\ f = [n \in 1 .. NumPieces |-> f[n]]
        /\ g = [n \in 1 .. NumPieces |-> g[n]]
    BY DEF Written
  <2>2. [n \in 1 .. NumPieces |-> f[n]] = [n \in 1 .. NumPieces |-> g[n]]
    BY <1>5
  <2> QED
    BY <2>1, <2>2
<1> QED
  BY <1>1, <1>3, <1>4, <1>5 DEF PartInv

\* A page that is not being stored into is mapped as it is.
LEMMA MappedPage ==
  ASSUME NEW p \in Proc, NEW x \in Page, mpc[p] # "store" \/ ~Covers(p, x)
  PROVE  wholeMem[p][x] = mem[p][x]
  BY Mapped DEF Storing, Covers

\* The end of a page of a command.
LEMMA NextPageMaps ==
  ASSUME IInv, NEW p \in Proc, NextPage(p), mem' = mem, done'[p]["main"] = 0, ~Storing(p),
         \A q \in Proc : q # p => done'[q]["main"] = done[q]["main"]
  PROVE  W!NextPage(p) /\ wholeMem' = wholeMem
<1> USE Names
<1>1. PICK m : mpc' = [mpc EXCEPT ![p] = m]
  BY DEF NextPage
<1>2. \A q \in Proc : q # p => job'[q] = job[q]
  BY RestTypes DEF NextPage, IInv
<1>3. ~Storing(p)'
  BY DEF Storing
<1>4. wholeMpc' = [wholeMpc EXCEPT ![p] = m] /\ wholeMem' = wholeMem
  BY <1>1, <1>2, <1>3, MainMoves DEF IInv, PieceTypes
<1>5. \A n : mpc' = [mpc EXCEPT ![p] = n] => n = m
  BY <1>1 DEF IInv, PieceTypes
<1> QED
  BY <1>4, <1>5 DEF NextPage, W!NextPage

\* The steps of main outside its accesses.
LEMMA MainMaps ==
  ASSUME IInv, NEW p \in Proc, UNCHANGED pieceVars,
         MainFault(p) \/ Mark(p) \/ SendInvalidate(p)
  PROVE  W!MainStep(p)
<1> USE Names DEF msiVars, netVars, mainVars, srvVars, hndVars, pieceVars,
       W!msiVars, W!netVars, W!mainVars, W!srvVars, W!hndVars
<1>1. CASE MainFault(p)
  <2>1. wholeMpc' = wholeMpc /\ wholeMem' = wholeMem
    BY <1>1, SameMapping DEF MainFault
  <2>2. job[p].page \in Page /\ ~Resident(p, job[p].page)
    BY <1>1, PageOfIn DEF IInv, MainFault, PageFault, PageOf, Thread
  <2>3. wholeMpc[p] = mpc[p]
    BY <2>2, StoringResident, Mapped
  <2> QED
    BY <1>1, <2>1, <2>2, <2>3, SameHints DEF MainFault, W!MainStep, W!MainFault, PageFault,
       W!PageFault, PageOf, W!PageOf, Runs, W!Runs
<1>2. CASE Mark(p)
  <2>1. ~Storing(p) /\ ~Storing(p)'
    BY <1>2 DEF Mark, Storing, IInv, PieceTypes
  <2>2. wholeMpc' = [wholeMpc EXCEPT ![p] = "echo"] /\ wholeMem' = wholeMem
    BY <1>2, <2>1, MainMoves DEF Mark, IInv, PieceTypes
  <2> QED
    BY <1>2, <2>1, <2>2, Mapped DEF Mark, W!MainStep, W!Mark
<1>3. CASE SendInvalidate(p)
  <2>1. ~Storing(p) /\ mpc[p] = "send"
    BY <1>3 DEF SendInvalidate, Storing
  <2>2. done[p]["main"] = 0
    BY <2>1 DEF IInv, Parts, PartInv, Accessing, PieceTypes, Thread
  <2>3. W!NextPage(p) /\ wholeMem' = wholeMem
    BY <1>3, <2>1, <2>2, NextPageMaps DEF SendInvalidate
  <2> QED
    BY <1>3, <2>1, <2>3, Mapped DEF SendInvalidate, W!MainStep, W!SendInvalidate, SentRequest,
       W!SentRequest
<1> QED
  BY <1>1, <1>2, <1>3

\* A piece is copied: nothing happens under the mapping.
LEMMA CopyPieceMaps ==
  ASSUME IInv, NEW p \in Proc, LoadPiece(p) \/ SendPiece(p)
  PROVE  wholeMpc' = wholeMpc /\ wholeMem' = wholeMem /\ UNCHANGED vars
<1>1. UNCHANGED vars
  BY DEF LoadPiece, SendPiece, CopyPiece
<1>2. \A q \in Proc : Storing(q)' <=> Storing(q)
  BY <1>1 DEF LoadPiece, SendPiece, CopyPiece, Touches, Storing, vars, IInv, PieceTypes, Thread
<1>3. wholeMpc' = wholeMpc
  BY <1>1, <1>2 DEF wholeMpc, vars
<1>4. wholeMem' = wholeMem
  BY <1>1, <1>2 DEF wholeMem, vars
<1> QED
  BY <1>1, <1>3, <1>4

\* The last step of a read of a page is the read of the whole page.
LEMMA LoadEndMaps ==
  ASSUME IInv, NEW p \in Proc, LoadEnd(p)
  PROVE  W!Load(p)
<1> USE Names DEF msiVars, netVars, mainVars, srvVars, hndVars,
       W!msiVars, W!netVars, W!mainVars, W!srvVars, W!hndVars
<1>1. mpc[p] = "load" /\ Ends(p, "main") /\ ~Storing(p) /\ wholeMpc[p] = "load" /\ mem' = mem
  BY Mapped DEF LoadEnd, Storing
<1>2. job[p].page \in Page /\ Resident(p, job[p].page) /\ part[p]["main"] = wholeMem[p][job[p].page]
  BY <1>1, AllCopied, PageOfIn, MappedPage DEF Ends, Copied, PageOf, Thread, IInv
<1>3. W!Resident(p, job[p].page)
  BY <1>2, SameHints
<1>4. done'[p]["main"] = 0 /\ \A q \in Proc : q # p => done'[q]["main"] = done[q]["main"]
  BY <1>1 DEF Ends, IInv, PieceTypes, Thread
<1>5. CASE job[p].scope = "all"
  <2>1. mpc' = [mpc EXCEPT ![p] = "echo"] /\ UNCHANGED <<job, line>>
    BY <1>5 DEF LoadEnd
  <2>2. ~Storing(p)'
    BY <1>4 DEF Storing
  <2>3. wholeMpc' = [wholeMpc EXCEPT ![p] = "echo"] /\ wholeMem' = wholeMem
    BY <1>1, <1>4, <2>1, <2>2, MainMoves DEF IInv, PieceTypes
  <2> QED
    BY <1>1, <1>3, <1>5, <2>1, <2>3 DEF LoadEnd, Ends, W!Load, Runs, W!Runs
<1>6. CASE job[p].scope # "all"
  <2>1. PrintPage(p) /\ NextPage(p)
    BY <1>6 DEF LoadEnd
  <2>2. W!NextPage(p) /\ wholeMem' = wholeMem
    BY <1>1, <1>4, <2>1, NextPageMaps
  <2> QED
    BY <1>1, <1>2, <1>3, <1>6, <2>1, <2>2 DEF LoadEnd, Ends, PrintPage, W!Load, W!Show,
       Runs, W!Runs
<1> QED
  BY <1>5, <1>6

\* So for the line that is printed from the page.
LEMMA EchoEndMaps ==
  ASSUME IInv, NEW p \in Proc, EchoEnd(p)
  PROVE  W!Echo(p)
<1> USE Names DEF msiVars, netVars, mainVars, srvVars, hndVars,
       W!msiVars, W!netVars, W!mainVars, W!srvVars, W!hndVars
<1>1. mpc[p] = "echo" /\ Ends(p, "main") /\ ~Storing(p) /\ wholeMpc[p] = "echo" /\ mem' = mem
  BY Mapped DEF EchoEnd, Storing
<1>2. job[p].page \in Page /\ Resident(p, job[p].page) /\ part[p]["main"] = wholeMem[p][job[p].page]
  BY <1>1, AllCopied, PageOfIn, MappedPage DEF Ends, Copied, PageOf, Thread, IInv
<1>3. W!Resident(p, job[p].page)
  BY <1>2, SameHints
<1>4. done'[p]["main"] = 0 /\ \A q \in Proc : q # p => done'[q]["main"] = done[q]["main"]
  BY <1>1 DEF Ends, IInv, PieceTypes, Thread
<1>5. CASE job[p].op # "r"
  <2>1. mpc' = [mpc EXCEPT ![p] = "send"] /\ UNCHANGED job
    BY <1>5 DEF EchoEnd
  <2>2. ~Storing(p)'
    BY <1>4 DEF Storing
  <2>3. wholeMpc' = [wholeMpc EXCEPT ![p] = "send"] /\ wholeMem' = wholeMem
    BY <1>1, <1>4, <2>1, <2>2, MainMoves DEF IInv, PieceTypes
  <2> QED
    BY <1>1, <1>2, <1>3, <1>5, <2>1, <2>3 DEF EchoEnd, Ends, PrintPage, W!Echo, W!Show,
       Runs, W!Runs
<1>6. CASE job[p].op = "r"
  <2>1. NextPage(p)
    BY <1>6 DEF EchoEnd
  <2>2. W!NextPage(p) /\ wholeMem' = wholeMem
    BY <1>1, <1>4, <2>1, NextPageMaps
  <2> QED
    BY <1>1, <1>2, <1>3, <1>6, <2>1, <2>2 DEF EchoEnd, Ends, PrintPage, W!Echo, W!Show,
       Runs, W!Runs
<1> QED
  BY <1>5, <1>6

\* The first piece that is stored is the store of the whole page; the others,
\* and the end of the access, change nothing under the mapping.
LEMMA StorePieceMaps ==
  ASSUME IInv, NEW p \in Proc, StorePiece(p)
  PROVE  W!Store(p) \/ UNCHANGED W!vars
<1> USE Names DEF msiVars, netVars, mainVars, srvVars, hndVars,
       W!msiVars, W!netVars, W!mainVars, W!srvVars, W!hndVars
<1> DEFINE x == job[p].page
<1>1. /\ mpc[p] = "store" /\ Runs(p, "main") /\ Resident(p, x) /\ x \in Page
      /\ mpc' = mpc /\ job' = job /\ done[p]["main"] \in Nat
      /\ done' = [done EXCEPT ![p]["main"] = done[p]["main"] + 1]
      /\ \A q \in Proc : \A y \in Page : ~(q = p /\ y = x) => mem'[q][y] = mem[q][y]
  BY PageOfIn DEF StorePiece, Touches, PageOf, IInv, PieceTypes, Thread
<1>2. Storing(p)' /\ \A q \in Proc : q # p => (Storing(q)' <=> Storing(q))
  BY <1>1 DEF Storing, IInv, PieceTypes, Thread
<1>3. \A q \in Proc : job'[q].page = job[q].page /\ job'[q].txt = job[q].txt
  BY <1>1
<1>4. CASE Storing(p)
  <2>1. wholeMpc' = wholeMpc
    BY <1>1, <1>2, <1>4 DEF wholeMpc
  <2>2. wholeMem' = wholeMem
    BY <1>1, <1>2, <1>3, <1>4 DEF wholeMem
  <2> QED
    BY <1>1, <2>1, <2>2 DEF StorePiece, W!vars
<1>5. CASE ~Storing(p)
  <2>1. wholeMpc' = [wholeMpc EXCEPT ![p] = "mark"] /\ wholeMpc[p] = "store"
    BY <1>1, <1>2, <1>5, Mapped DEF wholeMpc
  <2>2. wholeMem' = [wholeMem EXCEPT ![p][x] = job[p].txt]
    <3> HIDE DEF x
    <3>1. \A q \in Proc : q # p => wholeMem'[q] = wholeMem[q]
      BY <1>1, <1>2, <1>3 DEF wholeMem
    <3>2. x = job[p].page
      BY DEF x
    <3>3. wholeMem'[p] = [wholeMem[p] EXCEPT ![x] = job[p].txt]
      BY <1>1, <1>2, <1>3, <1>5, <3>2 DEF wholeMem
    <3> QED
      BY <3>1, <3>3 DEF wholeMem
  <2>3. W!Resident(p, x)
    BY <1>1, SameHints
  <2> QED
    BY <1>1, <2>1, <2>2, <2>3 DEF StorePiece, W!Store, Runs, W!Runs
<1> QED
  BY <1>4, <1>5

\* The end of a store: the page is what was stored.
LEMMA StoreEndMaps ==
  ASSUME IInv, NEW p \in Proc, StoreEnd(p)
  PROVE  UNCHANGED W!vars
<1> USE DEF msiVars, netVars, mainVars, srvVars, hndVars
<1> DEFINE x == job[p].page
<1>1. /\ mpc[p] = "store" /\ Ends(p, "main") /\ mem' = mem /\ job' = job
      /\ mpc' = [mpc EXCEPT ![p] = "mark"] /\ done[p]["main"] = NumPieces
      /\ mpc \in [Proc -> {"prompt", "load", "store", "mark", "echo", "send"}]
  BY DEF StoreEnd, Ends, IInv, PieceTypes
<1>2. Storing(p) /\ ~Storing(p)'
  BY <1>1, PiecesAssumption DEF Storing
<1>3. \A q \in Proc : q # p => (Storing(q)' <=> Storing(q))
  BY <1>1 DEF Storing, Ends, IInv, PieceTypes
<1>4. mem[p][x] = job[p].txt
  BY <1>1, AllCopied DEF Copied, PageOf, Thread
<1>5. wholeMpc' = wholeMpc
  BY <1>1, <1>2, <1>3 DEF wholeMpc
<1>6. wholeMem' = wholeMem
  BY <1>1, <1>2, <1>3, <1>4 DEF wholeMem
<1> QED
  BY <1>1, <1>5, <1>6 DEF StoreEnd, W!vars

\* The last step of write() sends the whole page.
LEMMA SendEndMaps ==
  ASSUME IInv, NEW p \in Proc, SendEnd(p)
  PROVE  W!ServerStep(p)
<1> USE Names DEF msiVars, netVars, mainVars, srvVars, hndVars,
       W!msiVars, W!netVars, W!mainVars, W!srvVars, W!hndVars
<1>1. /\ spc[p] = "page" /\ Ends(p, "server") /\ mem' = mem /\ mpc' = mpc /\ job' = job
      /\ spg[p] \in Page
  BY RestTypes DEF SendEnd, IInv
<1>2. \A q \in Proc : done'[q]["main"] = done[q]["main"]
  BY <1>1 DEF Ends, IInv, PieceTypes, Thread
<1>3. wholeMpc' = wholeMpc /\ wholeMem' = wholeMem
  BY <1>1, <1>2, SameMapping
<1>4. Resident(p, spg[p]) /\ part[p]["server"] = mem[p][spg[p]]
  BY <1>1, AllCopied DEF Ends, Copied, PageOf, Thread
<1>5. wholeMem[p][spg[p]] = mem[p][spg[p]]
  BY <1>1, MappedPage, Apart
<1>6. W!Resident(p, spg[p])
  BY <1>1, <1>4, SameHints
<1> QED
  BY <1>1, <1>3, <1>4, <1>5, <1>6 DEF SendEnd, Ends, W!ServerStep, W!SendPage, Runs, W!Runs,
     Answer, W!Answer, Text, W!Text

\* A command starts when its pages are calm.
LEMMA CommandMaps ==
  ASSUME IInv, NEW p \in Proc, NEW which \in Page \cup {-1}, Command(p, which),
         UNCHANGED pieceVars, \A x \in Pages(which) : Calm(p, x)
  PROVE  W!Command(p, which) /\ \A x \in W!Pages(which) : W!Calm(p, x)
<1> USE Names DEF msiVars, netVars, mainVars, srvVars, hndVars, pieceVars,
       W!msiVars, W!netVars, W!mainVars, W!srvVars, W!hndVars
<1>1. W!Pages(which) = Pages(which) /\ Pages(which) \subseteq Page
  BY DEF W!Pages, Pages
<1>2. ASSUME NEW x \in Page, Calm(p, x) PROVE W!Calm(p, x)
  <2>1. ~W!Covers(Peer(p), x)
    BY <1>2, SameHints, PeerFacts DEF Calm
  <2> QED
    BY <1>2, <2>1 DEF Calm, W!Calm, Pending, W!Pending, Serving, W!Serving
<1>3. ASSUME NEW op, NEW txt, Start(p, op, which, txt)
      PROVE  W!Start(p, op, which, txt)
  <2>1. mpc[p] = "prompt" /\ done' = done /\ mem' = mem
    BY <1>3 DEF Start
  <2>2. done[p]["main"] = 0 /\ ~Storing(p) /\ ~Storing(p)'
    BY <2>1 DEF IInv, Parts, PartInv, Accessing, PieceTypes, Thread, Storing
  <2>3. \A q \in Proc : q # p => job'[q] = job[q] /\ done'[q]["main"] = done[q]["main"]
    BY <1>3, <2>1, RestTypes DEF Start, IInv
  <2>4. PICK m : m = (IF op = "r" THEN "load" ELSE "store")
    OBVIOUS
  <2>5. mpc' = [mpc EXCEPT ![p] = m]
    BY <1>3, <2>4 DEF Start
  <2>6. wholeMpc' = [wholeMpc EXCEPT ![p] = m] /\ wholeMem' = wholeMem
    BY <2>1, <2>2, <2>3, <2>5, MainMoves DEF IInv, PieceTypes
  <2> QED
    BY <1>3, <2>2, <2>4, <2>6, Mapped DEF Start, W!Start, Typed, W!Typed
<1>4. W!Command(p, which)
  BY <1>3 DEF Command, W!Command
<1> QED
  BY <1>1, <1>2, <1>4

\* So does the end of a process.
LEMMA VanishMaps ==
  ASSUME IInv, NEW p \in Proc, Vanish(p)
  PROVE  W!Exit(p) \/ W!Internal(p)
<1> USE Names
<1>1. Gone(p) /\ \A t \in Thread : done'[p][t] = 0
  BY DEF Vanish, Exit, Reset, Broken, IInv, PieceTypes
<1>2. ~Storing(p)'
  BY <1>1 DEF Storing, Thread
<1>3. \A q \in Proc : q # p => (Storing(q)' <=> Storing(q))
  BY DEF Vanish, Exit, Reset, Broken, Gone, Storing, IInv, PieceTypes
<1>4. mpc' = [mpc EXCEPT ![p] = "prompt"] /\ mem' = [mem EXCEPT ![p] = [x \in Page |-> Absent]]
  BY <1>1 DEF Gone
<1>5. mpc \in [Proc -> {"prompt", "load", "store", "mark", "echo", "send"}]
      /\ mem \in [Proc -> [Page -> Written \cup {Absent}]] /\ job \in [Proc -> Job]
  BY RestTypes DEF IInv, PieceTypes
<1>6. wholeMpc' = [wholeMpc EXCEPT ![p] = "prompt"]
  BY <1>2, <1>3, <1>4, <1>5 DEF wholeMpc
<1>7. \A q \in Proc : q # p => job'[q] = job[q] /\ mem'[q] = mem[q]
  BY <1>1, <1>4, <1>5 DEF Gone
<1>8. wholeMem' = [wholeMem EXCEPT ![p] = [x \in Page |-> Absent]]
  <2>1. \A q \in Proc : q # p => wholeMem'[q] = wholeMem[q]
    BY <1>3, <1>7 DEF wholeMem
  <2>2. wholeMem'[p] = [x \in Page |-> Absent]
    BY <1>2, <1>4, <1>5 DEF wholeMem
  <2> QED
    BY <2>1, <2>2 DEF wholeMem
<1>9. W!Gone(p)
  BY <1>1, <1>6, <1>8 DEF Gone, W!Gone
<1>10. CASE Exit(p)
  BY <1>9, <1>10 DEF Exit, W!Exit
<1>11. CASE Reset(p)
  BY <1>9, <1>11 DEF Reset, W!Reset, W!Internal, W!ServerStep
<1>12. CASE Broken(p)
  <2>1. W!Resident(p, spg[p]) <=> Resident(p, spg[p])
    BY SameHints, RestTypes DEF IInv
  <2>2. wholeMpc[p] = "send" <=> mpc[p] = "send"
    BY Mapped DEF Storing
  <2>3. Writes(p) <=> W!Writes(p)
    BY <2>1, <2>2 DEF Writes, W!Writes, Runs, W!Runs, Incoming, W!Incoming
  <2> QED
    BY <1>9, <1>12, <2>3 DEF Broken, W!Broken, W!Internal
<1> QED
  BY <1>10, <1>11, <1>12 DEF Vanish

-----------------------------------------------------------------------------
(* The step of the refinement                                              *)

\* Every step is one of S2dsmTurns under the mapping, or changes nothing.
LEMMA PiecesStep ==
  IInv /\ [PiecesNext]_allVars => [W!TurnsNext]_(W!vars)
<1> SUFFICES ASSUME IInv, [PiecesNext]_allVars PROVE W!TurnsNext \/ UNCHANGED W!vars
  OBVIOUS
<1> USE Names
<1>1. CASE UNCHANGED allVars
  <2>1. wholeMpc' = wholeMpc /\ wholeMem' = wholeMem
    BY <1>1, SameMapping DEF allVars, vars, pieceVars
  <2> QED
    BY <1>1, <2>1 DEF allVars, vars, W!vars
<1>2. CASE PiecesNext
  <2>1. PICK p \in Proc :
          \/ \E which \in Page \cup {-1} :
               (\A x \in Pages(which) : Calm(p, x)) /\ Command(p, which) /\ UNCHANGED pieceVars
          \/ Access(p)
          \/ Rest(p) /\ UNCHANGED pieceVars
          \/ Vanish(p)
    BY <1>2 DEF PiecesNext
  <2>2. W!Exit(p) \/ W!Internal(p) => W!TurnsNext
    BY DEF W!TurnsNext
  <2>3. ASSUME NEW which \in Page \cup {-1}, \A x \in Pages(which) : Calm(p, x),
               Command(p, which), UNCHANGED pieceVars
        PROVE  W!TurnsNext
    BY <2>3, CommandMaps DEF W!TurnsNext
  <2>4. CASE LoadPiece(p) \/ SendPiece(p)
    BY <2>4, CopyPieceMaps DEF vars, W!vars
  <2>5. CASE LoadEnd(p) \/ EchoEnd(p)
    BY <2>2, <2>5, LoadEndMaps, EchoEndMaps DEF W!Internal, W!MainStep
  <2>6. CASE StorePiece(p) \/ StoreEnd(p)
    BY <2>2, <2>6, StorePieceMaps, StoreEndMaps DEF W!Internal, W!MainStep
  <2>7. CASE SendEnd(p)
    BY <2>2, <2>7, SendEndMaps DEF W!Internal
  <2>8. CASE Rest(p) /\ UNCHANGED pieceVars
    BY <2>2, <2>8, MainMaps, ServerMaps, DropMaps, HandlerMaps, CopyMaps
       DEF Rest, W!Internal, HandlerStep
  <2>9. CASE Vanish(p)
    BY <2>2, <2>9, VanishMaps
  <2> QED
    BY <2>1, <2>3, <2>4, <2>5, <2>6, <2>7, <2>8, <2>9 DEF Access
<1> QED
  BY <1>1, <1>2

-----------------------------------------------------------------------------
(* Every step keeps the invariant                                          *)

\* What the parts of an access depend on.
LEMMA PartFrame ==
  ASSUME NEW p \in Proc, NEW t \in Thread, PartInv(p, t),
         done'[p][t] = done[p][t], part'[p][t] = part[p][t], PageOf(p, t)' = PageOf(p, t),
         done[p][t] > 0 /\ Accessing(p, t) /\ Resident(p, PageOf(p, t)) =>
           /\ Accessing(p, t)' /\ Copied(p, t)' = Copied(p, t)
           /\ mem'[p][PageOf(p, t)] = mem[p][PageOf(p, t)]
  PROVE  PartInv(p, t)'
  BY DEF PartInv, Resident

\* A thread that is not in the middle of an access.
LEMMA PartNone ==
  ASSUME NEW p \in Proc, NEW t \in Thread, done'[p][t] = 0
  PROVE  PartInv(p, t)'
  BY DEF PartInv

\* A step of the other process.
LEMMA PartOther ==
  ASSUME NEW p \in Proc, NEW t \in Thread, PartInv(p, t),
         done'[p] = done[p], part'[p] = part[p], mem'[p] = mem[p], mpc'[p] = mpc[p],
         job'[p] = job[p], spc'[p] = spc[p], spg'[p] = spg[p]
  PROVE  PartInv(p, t)'
  BY DEF PartInv, Resident, PageOf, Accessing, Copied

\* A page with one piece more.
LEMMA OneMore ==
  ASSUME NEW f \in Written, NEW g \in Written, NEW n \in 1 .. NumPieces, NEW h,
         h = [f EXCEPT ![n] = g[n]], \A i \in 1 .. n - 1 : f[i] = g[i]
  PROVE  h \in Written /\ \A i \in 1 .. n : h[i] = g[i]
<1>1. f \in [1 .. NumPieces -> Piece] /\ g[n] \in Piece
  BY DEF Written
<1>2. h \in Written
  BY <1>1 DEF Written
<1>3. ASSUME NEW i \in 1 .. n PROVE h[i] = g[i]
  <2>1. i \in 1 .. NumPieces /\ (i # n => i \in 1 .. n - 1)
    BY PiecesAssumption
  <2> QED
    BY <1>1, <2>1
<1> QED
  BY <1>2, <1>3

\* A piece is copied.
LEMMA PartCopy ==
  ASSUME IInv, NEW p \in Proc, LoadPiece(p) \/ SendPiece(p), NEW t \in Thread
  PROVE  PartInv(p, t)'
<1>1. PICK s \in Thread : CopyPiece(p, s) /\ Accessing(p, s) /\ (s = "main" => mpc[p] # "store")
  BY DEF LoadPiece, SendPiece, Accessing, Thread
<1>2. UNCHANGED vars /\ PartInv(p, t)
  BY <1>1 DEF CopyPiece, IInv, Parts
<1>3. CASE t # s
  BY <1>1, <1>2, <1>3, PartFrame DEF CopyPiece, Touches, vars, IInv, PieceTypes, PageOf,
     Accessing, Copied
<1>4. CASE t = s
  <2> DEFINE n == done[p][s] + 1
  <2>1. /\ done' = [done EXCEPT ![p][s] = n] /\ done[p][s] < NumPieces
        /\ part' = [part EXCEPT ![p][s][n] = mem[p][PageOf(p, s)][n]]
        /\ Resident(p, PageOf(p, s))
    BY <1>1 DEF CopyPiece, Touches
  <2>2. done[p][s] \in Nat /\ n \in 1 .. NumPieces /\ n - 1 = done[p][s]
    <3>1. done[p][s] \in 0 .. NumPieces
      BY DEF IInv, PieceTypes
    <3> QED
      BY <2>1, <3>1, PiecesAssumption
  <2> HIDE DEF n
  <2>3. /\ part[p][s] \in Written /\ mem[p][PageOf(p, s)] \in Written
        /\ done'[p][s] = n
        /\ part'[p][s] = [part[p][s] EXCEPT ![n] = mem[p][PageOf(p, s)][n]]
    BY <2>1, PageOfIn DEF IInv, PieceTypes, Resident
  <2>4. Copied(p, s) = part[p][s] /\ Copied(p, s)' = part'[p][s]
    BY <1>1, <1>2 DEF Copied, vars
  <2>5. \A i \in 1 .. n - 1 : part[p][s][i] = mem[p][PageOf(p, s)][i]
    BY <1>2, <1>4, <2>2, <2>4 DEF PartInv
  <2>6. \A i \in 1 .. n : part'[p][s][i] = mem[p][PageOf(p, s)][i]
    BY <2>2, <2>3, <2>5, OneMore
  <2> QED
    BY <1>1, <1>2, <1>4, <2>1, <2>3, <2>4, <2>6 DEF PartInv, Resident, PageOf, Accessing, vars
<1> QED
  BY <1>3, <1>4

\* A piece is stored.
LEMMA PartStore ==
  ASSUME IInv, NEW p \in Proc, StorePiece(p), NEW t \in Thread
  PROVE  PartInv(p, t)' /\ mem' \in [Proc -> [Page -> Written \cup {Absent}]]
<1> DEFINE x == job[p].page
           n == done[p]["main"] + 1
<1> USE DEF mainVars, srvVars
<1>1. /\ mpc[p] = "store" /\ Resident(p, x) /\ x \in Page /\ job[p].txt \in Written
      /\ mpc' = mpc /\ job' = job /\ part' = part /\ spc' = spc /\ spg' = spg
      /\ done' = [done EXCEPT ![p]["main"] = n]
      /\ mem' = [mem EXCEPT ![p][x][n] = job[p].txt[n]]
  BY PageOfIn, TextFacts DEF StorePiece, Touches, PageOf, IInv, Thread
<1>2. n \in 1 .. NumPieces /\ done[p]["main"] \in Nat /\ done'[p]["main"] = n
  BY <1>1, PiecesAssumption DEF StorePiece, Touches, IInv, PieceTypes, Thread
<1> HIDE DEF n, x
<1>3. mem[p][x] \in Written /\ mem \in [Proc -> [Page -> Written \cup {Absent}]]
  BY <1>1 DEF Resident, IInv, PieceTypes
<1>4. /\ mem'[p][x] = [mem[p][x] EXCEPT ![n] = job[p].txt[n]]
      /\ \A y \in Page : y # x => mem'[p][y] = mem[p][y]
  BY <1>1, <1>3
<1>5. /\ mem'[p][x] \in Written /\ mem'[p][x] # Absent
      /\ \A i \in 1 .. n : mem'[p][x][i] = job[p].txt[i]
  <2>1. n - 1 = done[p]["main"] /\ \A i \in 1 .. n - 1 : mem[p][x][i] = job[p].txt[i]
    <3>1. PartInv(p, "main") /\ n - 1 = done[p]["main"]
      BY <1>2 DEF n, IInv, Parts, Thread
    <3> QED
      BY <1>1, <1>2, <3>1 DEF PartInv, Copied, PageOf, x
  <2>2. /\ mem[p][x] \in Written /\ job[p].txt \in Written /\ n \in 1 .. NumPieces
        /\ mem'[p][x] = [mem[p][x] EXCEPT ![n] = job[p].txt[n]]
        /\ \A i \in 1 .. n - 1 : mem[p][x][i] = job[p].txt[i]
    BY <1>1, <1>2, <1>3, <1>4, <2>1
  <2>3. mem'[p][x] \in Written /\ \A i \in 1 .. n : mem'[p][x][i] = job[p].txt[i]
    BY <2>2, OneMore
  <2> QED
    BY <2>3, TextFacts
<1>6. mem' \in [Proc -> [Page -> Written \cup {Absent}]]
  BY <1>1, <1>3, <1>4, <1>5
<1>7. CASE t = "main"
  <2> QED
    BY <1>1, <1>2, <1>5, <1>6, <1>7 DEF PartInv, Accessing, Resident, PageOf, Copied, x
<1>8. CASE t # "main"
  <2>1. PartInv(p, t) /\ done'[p][t] = done[p][t] /\ spg[p] \in Page
    BY <1>1, <1>8, RestTypes DEF IInv, Parts, PieceTypes
  <2>2. spc[p] = "page" => spg[p] # x
    BY <1>1, Apart DEF x
  <2> QED
    BY <1>1, <1>4, <1>6, <1>8, <2>1, <2>2, PartFrame DEF Accessing, PageOf, Copied
<1> QED
  BY <1>7, <1>8

\* An access ends.
LEMMA PartEnd ==
  ASSUME IInv, NEW p \in Proc, LoadEnd(p) \/ EchoEnd(p) \/ StoreEnd(p) \/ SendEnd(p),
         NEW t \in Thread
  PROVE  PartInv(p, t)'
<1> USE DEF msiVars, mainVars, srvVars
<1>1. CASE SendEnd(p)
  <2>1. CASE t = "server"
    BY <1>1, <2>1, PartNone DEF SendEnd, Ends, IInv, PieceTypes
  <2>2. CASE t = "main"
    BY <1>1, <2>2, PartFrame
       DEF SendEnd, Ends, IInv, PieceTypes, Parts, Accessing, PageOf, Copied
  <2> QED
    BY <2>1, <2>2 DEF Thread
<1>2. CASE LoadEnd(p) \/ EchoEnd(p) \/ StoreEnd(p)
  <2>1. CASE t = "main"
    BY <1>2, <2>1, PartNone DEF LoadEnd, EchoEnd, StoreEnd, Ends, IInv, PieceTypes
  <2>2. CASE t = "server"
    <3>1. Ends(p, "main") /\ UNCHANGED <<mem, spc, spg>>
      BY <1>2 DEF LoadEnd, EchoEnd, StoreEnd
    <3> QED
      BY <2>2, <3>1, PartFrame DEF Ends, IInv, PieceTypes, Parts, Accessing, PageOf, Copied
  <2> QED
    BY <2>1, <2>2 DEF Thread
<1> QED
  BY <1>1, <1>2

\* A command starts with no access begun.
LEMMA PartCommand ==
  ASSUME IInv, NEW p \in Proc, NEW which, Command(p, which), UNCHANGED pieceVars, NEW t \in Thread
  PROVE  PartInv(p, t)'
<1> USE DEF msiVars, mainVars, srvVars, pieceVars
<1>1. PartInv(p, t) /\ done[p][t] \in Nat
  BY DEF IInv, Parts, PieceTypes
<1>2. UNCHANGED <<mem, spc, spg, done, part>> /\ mpc[p] = "prompt"
  BY DEF Command, Start
<1>3. CASE t = "main"
  BY <1>1, <1>2, <1>3, PartNone DEF PartInv, Accessing
<1>4. CASE t # "main"
  BY <1>1, <1>2, <1>4, PartFrame DEF Accessing, PageOf, Copied
<1> QED
  BY <1>3, <1>4

\* The steps that are no access to a page leave those that are begun alone.
LEMMA PartRest ==
  ASSUME IInv, NEW p \in Proc, Rest(p), UNCHANGED pieceVars, NEW t \in Thread
  PROVE  PartInv(p, t)'
<1> USE DEF msiVars, mainVars, srvVars, pieceVars
<1>1. /\ PartInv(p, t) /\ done[p][t] \in Nat
      /\ mem \in [Proc -> [Page -> Written \cup {Absent}]]
  BY DEF IInv, Parts, PieceTypes
<1>2. done' = done /\ part' = part
  OBVIOUS
<1>3. CASE UNCHANGED <<mem, mpc, job, spc, spg>>
  BY <1>1, <1>2, <1>3, PartOther
<1>4. CASE Mark(p) \/ SendInvalidate(p)
  <2>1. UNCHANGED <<mem, spc, spg>> /\ ~(mpc[p] \in {"load", "store", "echo"})
    BY <1>4 DEF Mark, SendInvalidate
  <2>2. CASE t = "main"
    BY <1>1, <1>2, <2>1, <2>2, PartNone DEF PartInv, Accessing
  <2>3. CASE t # "main"
    BY <1>1, <1>2, <2>1, <2>3, PartFrame DEF Accessing, PageOf, Copied
  <2> QED
    BY <2>2, <2>3
<1>5. CASE ServeInvalid(p) \/ ServeValid(p) \/ Share(p) \/ Invalidate(p)
  <2>1. UNCHANGED <<mem, mpc, job>> /\ spc[p] # "page"
    BY <1>5 DEF ServeInvalid, ServeValid, Share, Invalidate, Incoming
  <2>2. CASE t = "main"
    BY <1>1, <1>2, <2>1, <2>2, PartFrame DEF Accessing, PageOf, Copied
  <2>3. CASE t # "main"
    BY <1>1, <1>2, <2>1, <2>3, PartNone DEF PartInv, Accessing
  <2> QED
    BY <2>2, <2>3
<1>6. CASE Drop(p)
  <2> DEFINE x == Head(req[Peer(p)]).page
  <2>1. x \in Page /\ Pending(Peer(p), x)
    BY <1>6, HeadPending DEF Drop
  <2>2. UNCHANGED <<mpc, job>> /\ spc[p] # "page" /\ mem' = [mem EXCEPT ![p][x] = Absent]
    BY <1>6 DEF Drop, Incoming
  <2> HIDE DEF x
  <2>3. CASE t = "main"
    <3>1. PageOf(p, t) \in Page /\ PageOf(p, t) = job[p].page
      BY <2>3, PageOfIn DEF IInv, PageOf
    <3>2. Accessing(p, t) => PageOf(p, t) # x
      BY <2>1, <2>3, <3>1, Alone, Apart DEF Accessing
    <3>3. Accessing(p, t) => mem'[p][PageOf(p, t)] = mem[p][PageOf(p, t)]
      BY <1>1, <2>1, <2>2, <3>1, <3>2
    <3> QED
      BY <1>1, <1>2, <2>2, <2>3, <3>3, PartFrame DEF Accessing, PageOf, Copied
  <2>4. CASE t # "main"
    BY <1>1, <1>2, <2>2, <2>4, PartNone DEF PartInv, Accessing
  <2> QED
    BY <2>3, <2>4
<1>7. CASE Copy(p)
  <2>1. fpg[p] \in Page /\ ~Resident(p, fpg[p]) /\ UNCHANGED <<mpc, job, spc, spg>>
        /\ mem' = [mem EXCEPT ![p][fpg[p]] = buf[p]]
    BY <1>7, Alone, RestTypes DEF IInv, Copy
  <2>2. PageOf(p, t) \in Page
    BY PageOfIn DEF IInv
  <2>3. Resident(p, PageOf(p, t)) => mem'[p][PageOf(p, t)] = mem[p][PageOf(p, t)]
    BY <1>1, <2>1, <2>2
  <2> QED
    BY <1>1, <1>2, <2>1, <2>3, PartFrame DEF Accessing, PageOf, Copied
<1>8. MainFault(p) \/ ServerFault(p) \/ (HandlerStep(p) /\ ~Copy(p))
        => UNCHANGED <<mem, mpc, job, spc, spg>>
  BY DEF MainFault, ServerFault, HandlerStep, TakeFault, SendFetch, GetInvalid, GetValid,
         GetPage, GetNothing
<1> QED
  BY <1>3, <1>4, <1>5, <1>6, <1>7, <1>8 DEF Rest, HandlerStep

\* What a step of p leaves of the other process.
LEMMA OtherSame ==
  ASSUME IInv, NEW p \in Proc, NEW q \in Proc, q # p,
         \/ \E which \in Page \cup {-1} : Command(p, which) /\ UNCHANGED pieceVars
         \/ Access(p)
         \/ Rest(p) /\ UNCHANGED pieceVars
         \/ Vanish(p)
  PROVE  /\ done'[q] = done[q] /\ part'[q] = part[q] /\ mem'[q] = mem[q] /\ mpc'[q] = mpc[q]
         /\ job'[q] = job[q] /\ spc'[q] = spc[q] /\ spg'[q] = spg[q]
<1> USE DEF msiVars, mainVars, srvVars, hndVars, pieceVars
<1>1. /\ done \in [Proc -> [Thread -> 0 .. NumPieces]]
      /\ part \in [Proc -> [Thread -> Written]]
      /\ mem \in [Proc -> [Page -> Written \cup {Absent}]]
      /\ mpc \in [Proc -> {"prompt", "load", "store", "mark", "echo", "send"}]
      /\ job \in [Proc -> Job] /\ spg \in [Proc -> Page]
      /\ spc \in [Proc -> {"read", "page", "share", "inval"}]
  BY RestTypes DEF IInv, PieceTypes
<1>2. CASE \E which \in Page \cup {-1} : Command(p, which) /\ UNCHANGED pieceVars
  BY <1>1, <1>2 DEF Command, Start
<1>3. CASE LoadPiece(p) \/ SendPiece(p)
  BY <1>1, <1>3 DEF LoadPiece, SendPiece, CopyPiece, Touches, vars
<1>4. CASE LoadEnd(p) \/ EchoEnd(p) \/ StoreEnd(p) \/ SendEnd(p)
  BY <1>1, <1>4 DEF LoadEnd, EchoEnd, StoreEnd, SendEnd, Ends, NextPage
<1>5. CASE StorePiece(p)
  BY <1>1, <1>5 DEF StorePiece, Touches
<1>6. CASE Vanish(p)
  <2>1. Gone(p)
    BY <1>6 DEF Vanish, Exit, Reset, Broken
  <2> QED
    BY <1>1, <1>6, <2>1 DEF Vanish, Gone
<1>7. CASE Rest(p) /\ UNCHANGED pieceVars
  <2>1. CASE MainFault(p) \/ Mark(p) \/ SendInvalidate(p)
    BY <1>1, <1>7, <2>1 DEF MainFault, Mark, SendInvalidate, NextPage
  <2>2. CASE ServeInvalid(p) \/ ServeValid(p) \/ ServerFault(p) \/ Share(p) \/ Drop(p)
             \/ Invalidate(p)
    BY <1>1, <1>7, <2>2 DEF ServeInvalid, ServeValid, ServerFault, Share, Drop, Invalidate,
       TakeRequest, NextRequest
  <2>3. CASE HandlerStep(p)
    BY <1>1, <1>7, <2>3 DEF HandlerStep, TakeFault, SendFetch, GetInvalid, GetValid, GetPage,
       GetNothing, Copy
  <2> QED
    BY <1>7, <2>1, <2>2, <2>3 DEF Rest
<1> QED
  BY <1>2, <1>3, <1>4, <1>5, <1>6, <1>7 DEF Access

\* The accesses of both processes, after a step of one of them.
LEMMA PartsNext == IInv /\ [PiecesNext]_allVars => Parts'
<1> SUFFICES ASSUME IInv, [PiecesNext]_allVars, NEW q \in Proc, NEW t \in Thread
             PROVE  PartInv(q, t)'
  BY DEF Parts, Proc, Thread
<1>1. PartInv(q, t)
  BY DEF IInv, Parts
<1>2. CASE UNCHANGED allVars
  BY <1>1, <1>2, PartOther DEF allVars, vars, pieceVars
<1>3. CASE PiecesNext
  <2>1. PICK p \in Proc :
          \/ \E which \in Page \cup {-1} : Command(p, which) /\ UNCHANGED pieceVars
          \/ Access(p)
          \/ Rest(p) /\ UNCHANGED pieceVars
          \/ Vanish(p)
    BY <1>3 DEF PiecesNext
  <2>2. CASE q # p
    BY <1>1, <2>1, <2>2, OtherSame, PartOther
  <2>3. CASE q = p
    <3>1. CASE Vanish(p)
      BY <2>3, <3>1, PartNone DEF Vanish, IInv, PieceTypes
    <3>2. ASSUME NEW which \in Page \cup {-1}, Command(p, which), UNCHANGED pieceVars
          PROVE  PartInv(p, t)'
      BY <3>2, PartCommand
    <3> QED
      BY <2>1, <2>3, <3>1, <3>2, PartRest, PartCopy, PartStore, PartEnd DEF Access
  <2> QED
    BY <2>2, <2>3
<1> QED
  BY <1>2, <1>3

\* The types of the accesses, after a step.
LEMMA PieceTypesNext == IInv /\ [PiecesNext]_allVars => PieceTypes'
<1> SUFFICES ASSUME IInv, [PiecesNext]_allVars PROVE PieceTypes'
  OBVIOUS
<1> USE DEF msiVars, mainVars, srvVars, hndVars, pieceVars
<1>1. /\ done \in [Proc -> [Thread -> 0 .. NumPieces]]
      /\ part \in [Proc -> [Thread -> Written]]
      /\ mem \in [Proc -> [Page -> Written \cup {Absent}]]
      /\ mpc \in [Proc -> {"prompt", "load", "store", "mark", "echo", "send"}]
  BY DEF IInv, PieceTypes
<1>2. CASE UNCHANGED allVars
  BY <1>1, <1>2 DEF allVars, vars, PieceTypes
<1>3. CASE PiecesNext
  <2>1. PICK p \in Proc :
          \/ \E which \in Page \cup {-1} : Command(p, which) /\ UNCHANGED pieceVars
          \/ Access(p)
          \/ Rest(p) /\ UNCHANGED pieceVars
          \/ Vanish(p)
    BY <1>3 DEF PiecesNext
  <2>2. ASSUME NextPage(p)
        PROVE  mpc' \in [Proc -> {"prompt", "load", "store", "mark", "echo", "send"}]
    BY <1>1, <2>2 DEF NextPage
  <2>3. CASE \E which \in Page \cup {-1} : Command(p, which) /\ UNCHANGED pieceVars
    BY <1>1, <2>3 DEF Command, Start, PieceTypes
  <2>4. CASE LoadPiece(p) \/ SendPiece(p)
    <3>1. PICK s \in Thread : CopyPiece(p, s)
      BY <2>4 DEF LoadPiece, SendPiece, Thread
    <3>2. UNCHANGED <<mem, mpc>> /\ PageOf(p, s) \in Page
      BY <3>1, PageOfIn DEF CopyPiece, vars, IInv
    <3>3. mem[p][PageOf(p, s)] \in Written /\ done[p][s] \in 0 .. NumPieces
          /\ done[p][s] < NumPieces
      BY <1>1, <3>1, <3>2 DEF CopyPiece, Touches, Resident
    <3>4. done' \in [Proc -> [Thread -> 0 .. NumPieces]]
      BY <1>1, <3>1, <3>3, PiecesAssumption DEF CopyPiece, Touches
    <3>5. part' = [part EXCEPT ![p][s][done[p][s] + 1] = mem[p][PageOf(p, s)][done[p][s] + 1]]
      BY <3>1 DEF CopyPiece
    <3>6. part' \in [Proc -> [Thread -> Written]]
      BY <1>1, <3>3, <3>5, PiecesAssumption DEF Written
    <3> QED
      BY <1>1, <3>2, <3>4, <3>6 DEF PieceTypes
  <2>5. CASE StorePiece(p)
    <3>1. mem' \in [Proc -> [Page -> Written \cup {Absent}]]
      BY <2>5, PartStore DEF Thread
    <3>2. done' \in [Proc -> [Thread -> 0 .. NumPieces]]
      BY <1>1, <2>5, PiecesAssumption DEF StorePiece, Touches, Thread
    <3> QED
      BY <1>1, <2>5, <3>1, <3>2 DEF StorePiece, PieceTypes
  <2>6. CASE LoadEnd(p) \/ EchoEnd(p) \/ StoreEnd(p) \/ SendEnd(p)
    <3>1. PICK s \in Thread : Ends(p, s)
      BY <2>6 DEF LoadEnd, EchoEnd, StoreEnd, SendEnd, Thread
    <3>2. mem' = mem /\ mpc' \in [Proc -> {"prompt", "load", "store", "mark", "echo", "send"}]
      BY <1>1, <2>2, <2>6 DEF LoadEnd, EchoEnd, StoreEnd, SendEnd
    <3>3. done' \in [Proc -> [Thread -> 0 .. NumPieces]] /\ part' \in [Proc -> [Thread -> Written]]
      BY <1>1, <3>1, TextFacts, PiecesAssumption DEF Ends
    <3> QED
      BY <1>1, <3>2, <3>3 DEF PieceTypes
  <2>7. CASE Vanish(p)
    <3>1. Gone(p)
      BY <2>7 DEF Vanish, Exit, Reset, Broken
    <3>2. done' \in [Proc -> [Thread -> 0 .. NumPieces]] /\ part' \in [Proc -> [Thread -> Written]]
      BY <1>1, <2>7, TextFacts, PiecesAssumption DEF Vanish
    <3> QED
      BY <1>1, <3>1, <3>2 DEF Gone, PieceTypes
  <2>8. CASE Rest(p) /\ UNCHANGED pieceVars
    <3>1. CASE MainFault(p) \/ Mark(p) \/ SendInvalidate(p)
      BY <1>1, <2>2, <2>8, <3>1 DEF MainFault, Mark, SendInvalidate, PieceTypes
    <3>2. CASE Drop(p)
      BY <1>1, <2>8, <3>2 DEF Drop, PieceTypes
    <3>3. CASE Copy(p)
      <4>1. buf[p] \in Written
        BY RestTypes, TextFacts DEF IInv
      <4> QED
        BY <1>1, <2>8, <3>3, <4>1 DEF Copy, PieceTypes
    <3>4. CASE \/ ServeInvalid(p) \/ ServeValid(p) \/ ServerFault(p) \/ Share(p) \/ Invalidate(p)
               \/ (HandlerStep(p) /\ ~Copy(p))
      <4>1. UNCHANGED <<mem, mpc, done, part>>
        BY <2>8, <3>4
           DEF ServeInvalid, ServeValid, ServerFault, Share, Invalidate, HandlerStep,
           TakeFault, SendFetch, GetInvalid, GetValid, GetPage, GetNothing
      <4> QED
        BY <1>1, <4>1 DEF PieceTypes
    <3> QED
      BY <2>8, <3>1, <3>2, <3>3, <3>4 DEF Rest, HandlerStep
  <2> QED
    BY <2>1, <2>3, <2>4, <2>5, <2>6, <2>7, <2>8 DEF Access
<1> QED
  BY <1>2, <1>3

\* The first states are those of S2dsmTurns under the mapping.
LEMMA PiecesInitMaps == PiecesInit => W!Init
<1> SUFFICES ASSUME PiecesInit PROVE W!Init
  OBVIOUS
<1>1. \A p \in Proc : ~Storing(p)
  BY DEF PiecesInit, Init, Storing
<1>2. wholeMpc = [p \in Proc |-> "prompt"]
  BY <1>1 DEF PiecesInit, Init, wholeMpc
<1>3. wholeMem = [p \in Proc |-> [x \in Page |-> Absent]]
  BY <1>1 DEF PiecesInit, Init, wholeMem
<1> QED
  BY <1>2, <1>3, Names DEF PiecesInit, Init, W!Init, NoLine, W!NoLine

\* No access is begun at first.
LEMMA IInvInit == PiecesInit => IInv
<1> SUFFICES ASSUME PiecesInit PROVE IInv
  OBVIOUS
<1>1. W!TurnsInv
  BY PiecesInitMaps, W!TurnsInvInit, NumPagesAssumption, SockCapAssumption, AbsentAssumption
<1>2. Parts
  BY DEF PiecesInit, Parts, PartInv
<1>3. PieceTypes
  BY TextFacts, PiecesAssumption DEF PiecesInit, Init, PieceTypes
<1> QED
  BY <1>1, <1>2, <1>3 DEF IInv

\* Every step keeps the invariant.
LEMMA IInvNext == IInv /\ [PiecesNext]_allVars => IInv'
<1> SUFFICES ASSUME IInv, [PiecesNext]_allVars PROVE IInv'
  OBVIOUS
<1>1. W!TurnsInv /\ [W!TurnsNext]_(W!vars)
  BY PiecesStep DEF IInv
<1>2. W!TurnsInv'
  BY <1>1, W!TurnsInvNext, NumPagesAssumption, SockCapAssumption, AbsentAssumption
<1> QED
  BY <1>2, PieceTypesNext, PartsNext DEF IInv

\* The program by pieces implements S2dsmTurns.
LEMMA TurnsImplemented == PiecesSpec => W!TurnsSpec
  BY PiecesInitMaps, IInvInit, IInvNext, PiecesStep, PTL DEF PiecesSpec, W!TurnsSpec

-----------------------------------------------------------------------------
(***************************************************************************)
(* The theorems.  W and Whole are S2dsmTurns under the same mapping, with  *)
(* and without its proofs: their definitions say the same.                 *)
(***************************************************************************)

\* The specifications of the two instances are the same.
LEMMA SameTurns ==
  /\ W!Init <=> Whole!Init
  /\ [W!TurnsNext]_(W!vars) <=> [Whole!TurnsNext]_(Whole!vars)
<1>1. W!Init <=> Whole!Init
  BY DEF W!Init, Whole!Init, W!Proc, Whole!Proc, W!Page, Whole!Page, W!Thread, Whole!Thread,
         W!NoJob, Whole!NoJob, W!NoLine, Whole!NoLine
<1>2. W!TurnsNext <=> Whole!TurnsNext
  BY DEF W!TurnsNext, Whole!TurnsNext, W!Internal, Whole!Internal, W!MainStep, Whole!MainStep,
         W!ServerStep, Whole!ServerStep, W!HandlerStep, Whole!HandlerStep, W!Command,
         Whole!Command, W!Start, Whole!Start, W!Exit, Whole!Exit, W!Broken, Whole!Broken,
         W!MainFault, Whole!MainFault, W!Load, Whole!Load, W!Store, Whole!Store, W!Mark,
         Whole!Mark, W!Echo, Whole!Echo, W!SendInvalidate, Whole!SendInvalidate,
         W!ServeInvalid, Whole!ServeInvalid, W!ServeValid, Whole!ServeValid, W!ServerFault,
         Whole!ServerFault, W!SendPage, Whole!SendPage, W!Share, Whole!Share, W!Drop,
         Whole!Drop, W!Invalidate, Whole!Invalidate, W!Reset, Whole!Reset, W!TakeFault,
         Whole!TakeFault, W!SendFetch, Whole!SendFetch, W!GetInvalid, Whole!GetInvalid,
         W!GetValid, Whole!GetValid, W!GetPage, Whole!GetPage, W!GetNothing, Whole!GetNothing,
         W!Copy, Whole!Copy, W!Runs, Whole!Runs, W!Resident, Whole!Resident, W!Show,
         Whole!Show, W!NextPage, Whole!NextPage, W!msiVars, Whole!msiVars, W!netVars,
         Whole!netVars, W!mainVars, Whole!mainVars, W!srvVars, Whole!srvVars, W!hndVars,
         Whole!hndVars, W!NoJob, Whole!NoJob, W!Values, Whole!Values, W!Proc, Whole!Proc,
         W!Peer, Whole!Peer, W!Page, Whole!Page, W!Thread, Whole!Thread, W!PageOf,
         Whole!PageOf, W!SentRequest, Whole!SentRequest, W!Answer, Whole!Answer, W!PageFault,
         Whole!PageFault, W!Gone, Whole!Gone, W!Covers, Whole!Covers, W!Typed, Whole!Typed,
         W!Incoming, Whole!Incoming, W!TakeRequest, Whole!TakeRequest, W!NextRequest,
         Whole!NextRequest, W!Reading, Whole!Reading, W!Writes, Whole!Writes, W!Pages,
         Whole!Pages, W!Calm, Whole!Calm, W!Pending, Whole!Pending, W!Serving, Whole!Serving,
         W!No, Whole!No, W!Yes, Whole!Yes, W!Text, Whole!Text
<1>3. UNCHANGED W!vars <=> UNCHANGED Whole!vars
  BY DEF W!vars, Whole!vars
<1> QED
  BY <1>1, <1>2, <1>3

\* So are the memories they implement.
LEMMA SameMemory ==
  /\ W!Memory!Init <=> Whole!Memory!Init
  /\ [W!Memory!Next]_(W!Memory!vars) <=> [Whole!Memory!Next]_(Whole!Memory!vars)
<1> USE DEF W!Memory!Init, Whole!Memory!Init, W!Memory!vars, Whole!Memory!vars, W!Memory!Next,
         Whole!Memory!Next, W!Memory!Ask, Whole!Memory!Ask, W!Memory!Write, Whole!Memory!Write,
         W!Memory!Output, Whole!Memory!Output, W!Memory!End, Whole!Memory!End, W!BothAlive,
         Whole!BothAlive, W!Current, Whole!Current, W!Owns, Whole!Owns, W!Holds, Whole!Holds,
         W!Resident, Whole!Resident, W!ToWrite, Whole!ToWrite, W!Covers, Whole!Covers, W!Proc,
         Whole!Proc, W!Page, Whole!Page, W!NoLine, Whole!NoLine, W!Values, Whole!Values
<1>1. W!Memory!Init <=> Whole!Memory!Init
  OBVIOUS
<1>2. W!Memory!Next <=> Whole!Memory!Next
  OBVIOUS
<1>3. UNCHANGED W!Memory!vars <=> UNCHANGED Whole!Memory!vars
  OBVIOUS
<1> QED
  <2> HIDE DEF W!Memory!Init, Whole!Memory!Init, W!Memory!vars, Whole!Memory!vars,
              W!Memory!Next, Whole!Memory!Next, W!Memory!Ask, Whole!Memory!Ask, W!Memory!Write,
              Whole!Memory!Write, W!Memory!Output, Whole!Memory!Output, W!Memory!End,
              Whole!Memory!End
  <2> QED
    BY <1>1, <1>2, <1>3

\* Under the discipline the pieces of a page cannot be told from the page: no
\* thread sees, sends or prints one that is half old and half new, and no store
\* is lost to a page that is dropped under it, also while a process ends.
THEOREM PagesWhole == PiecesSpec => WholePages
  BY TurnsImplemented, SameTurns, PTL DEF WholePages, W!TurnsSpec, Whole!TurnsSpec

\* ... and so the two processes implement one memory piece by piece.
THEOREM PiecesImplemented == PiecesSpec => OneMemory
<1>1. W!TurnsSpec => W!MemorySpec
  BY W!MemoryImplemented, NumPagesAssumption, SockCapAssumption, AbsentAssumption
<1> QED
  BY <1>1, TurnsImplemented, SameMemory, PTL
     DEF OneMemory, W!MemorySpec, Whole!MemorySpec, W!Memory!Spec, Whole!Memory!Spec
=============================================================================
