---------------------------- MODULE S2dsmProofs -----------------------------
(***************************************************************************)
(* What holds of S2dsm and S2dsmTurns for every number of pages, every set *)
(* of texts and every connection capacity, in three parts: the safety of   *)
(* S2dsm, the coherence of S2dsmTurns, and S2dsmTurns as an implementation *)
(* of SharedMemory.                                                        *)
(***************************************************************************)
EXTENDS S2dsmTurns, SequenceTheorems, TLAPS

-----------------------------------------------------------------------------
(***************************************************************************)
(* Part 1. S2dsm: type correctness, every fault is accounted for, and      *)
(* every answer is to a question of the handler that waits for it.         *)
(***************************************************************************)

-----------------------------------------------------------------------------
(* Facts about queues and processes                                        *)

\* The peer of a process is the other process.
LEMMA PeerType == \A p \in Proc : Peer(p) \in Proc /\ Peer(p) # p /\ Peer(Peer(p)) = p
  BY DEF Proc, Peer

\* Consuming the head of a queue leaves a queue; the head is an element.
LEMMA TailType ==
  ASSUME NEW S, NEW q \in Seq(S), q # <<>>
  PROVE  Head(q) \in S /\ Tail(q) \in Seq(S)
  BY HeadTailProperties

-----------------------------------------------------------------------------
(* Type correctness                                                        *)

\* The region has a first page.
LEMMA PageZero == 0 \in Page
  BY NumPagesAssumption DEF Page

\* The first state has its type.
LEMMA TypeInit == Init => TypeOK
<1> SUFFICES ASSUME Init PROVE TypeOK
  OBVIOUS
<1>1. NoJob \in Job /\ NoLine \in Line
  BY PageZero DEF NoJob, Job, NoLine, Line, Values, Proc
<1>2. <<>> \in Seq(Request) /\ <<>> \in Seq(Reply)
  BY EmptySeq
<1> QED
  BY <1>1, <1>2, PageZero DEF Init, TypeOK, Values, Proc

\* sent_request keeps the connection a queue of requests.
LEMMA SentRequestType ==
  ASSUME TypeOK, NEW p \in Proc, NEW type \in {"F", "I"}, NEW x \in Page,
         SentRequest(p, type, x)
  PROVE  req' \in [Proc -> Seq(Request)]
<1>1. [type |-> type, page |-> x] \in Request
  BY DEF Request
<1>2. Append(req[p], [type |-> type, page |-> x]) \in Seq(Request)
  BY <1>1, AppendProperties DEF TypeOK
<1> QED
  BY <1>2 DEF TypeOK, SentRequest

\* So does a reply of the server.
LEMMA AnswerType ==
  ASSUME TypeOK, NEW p \in Proc, NEW reply \in Reply, Answer(p, reply)
  PROVE  resp' \in [Proc -> Seq(Reply)]
<1>1. Append(resp[Peer(p)], reply) \in Seq(Reply)
  BY AppendProperties, PeerType DEF TypeOK
<1> QED
  BY <1>1, PeerType DEF TypeOK, Answer

\* The next page of a command on all pages exists.
LEMMA NextPageType ==
  ASSUME TypeOK, NEW p \in Proc, NextPage(p)
  PROVE  /\ job' \in [Proc -> Job]
         /\ mpc' \in [Proc -> {"prompt", "load", "store", "mark", "echo", "send"}]
<1>1. CASE job[p].scope = "all" /\ job[p].page + 1 < NumPages
  <2>1. job[p].page + 1 \in Page
    BY <1>1, NumPagesAssumption DEF TypeOK, Job, Page
  <2>2. job[p] \in Job
    BY DEF TypeOK
  <2>3. [job[p] EXCEPT !.page = job[p].page + 1] \in Job
    BY <2>1, <2>2 DEF Job
  <2>4. job' = [job EXCEPT ![p] = [job[p] EXCEPT !.page = job[p].page + 1]]
    BY <1>1 DEF NextPage
  <2>5. job' \in [Proc -> Job]
    BY <2>3, <2>4 DEF TypeOK
  <2>6. mpc' \in [Proc -> {"prompt", "load", "store", "mark", "echo", "send"}]
    BY <1>1 DEF TypeOK, NextPage
  <2> QED
    BY <2>5, <2>6
<1>2. CASE ~(job[p].scope = "all" /\ job[p].page + 1 < NumPages)
  <2>1. NoJob \in Job
    BY PageZero DEF NoJob, Job, Values
  <2>2. job' = [job EXCEPT ![p] = NoJob] /\ mpc' = [mpc EXCEPT ![p] = "prompt"]
    BY <1>2 DEF NextPage
  <2> QED
    BY <2>1, <2>2 DEF TypeOK
<1> QED
  BY <1>1, <1>2

\* A request taken from the peer's connection names a page.
LEMMA TakeRequestType ==
  ASSUME TypeOK, NEW p \in Proc, req[Peer(p)] # <<>>, TakeRequest(p)
  PROVE  /\ req' \in [Proc -> Seq(Request)]
         /\ spg' \in [Proc -> Page]
         /\ Head(req[Peer(p)]).page \in Page
<1>1. Head(req[Peer(p)]) \in Request /\ Tail(req[Peer(p)]) \in Seq(Request)
  BY PeerType, TailType DEF TypeOK
<1> QED
  BY <1>1, PeerType DEF TypeOK, TakeRequest, Request

\* The page a thread touches is a page of the region.
LEMMA PageOfType ==
  ASSUME TypeOK, NEW p \in Proc, NEW t \in Thread
  PROVE  PageOf(p, t) \in Page
  BY DEF TypeOK, PageOf, Job

\* What is left of a process that ends has its type.
LEMMA GoneType ==
  ASSUME TypeOK, NEW p \in Proc, Gone(p)
  PROVE  TypeOK'
<1>1. NoJob \in Job /\ 0 \in Page /\ Zero \in Values
  BY PageZero DEF NoJob, Job, Values
<1>2. <<>> \in Seq(Reply)
  BY EmptySeq
<1>3. /\ [x \in Page |-> "I"] \in [Page -> {"M", "S", "I"}]
      /\ [x \in Page |-> Absent] \in [Page -> Values \cup {Absent}]
      /\ [t \in Thread |-> "none"] \in [Thread -> {"none", "queued", "read"}]
  OBVIOUS
<1> QED
  BY <1>1, <1>2, <1>3 DEF TypeOK, Gone

\* No step leaves the types.
LEMMA TypeNext == TypeOK /\ [Next]_vars => TypeOK'
<1> SUFFICES ASSUME TypeOK, [Next]_vars PROVE TypeOK'
  OBVIOUS
<1> USE DEF msiVars, netVars, mainVars, srvVars, hndVars
<1>1. ASSUME NEW p \in Proc, NEW op \in {"r", "w"}, NEW which \in Page \cup {-1},
             NEW txt \in Values, Start(p, op, which, txt)
      PROVE  TypeOK'
  <2>1. Typed(op, which, txt) \in Job
    BY PageZero DEF Typed, Job, Page
  <2>2. job' \in [Proc -> Job]
    BY <1>1, <2>1 DEF Start, TypeOK
  <2> QED
    BY <1>1, <2>2 DEF TypeOK, Start
<1>2. ASSUME NEW p \in Proc, Exit(p) PROVE TypeOK'
  BY <1>2, GoneType DEF Exit
<1>3. ASSUME NEW p \in Proc, MainStep(p) PROVE TypeOK'
  <2>1. CASE MainFault(p)
    BY <2>1 DEF TypeOK, MainFault, PageFault, Thread
  <2>2. CASE Load(p)
    <3>1. /\ job' \in [Proc -> Job]
          /\ mpc' \in [Proc -> {"prompt", "load", "store", "mark", "echo", "send"}]
      BY <2>2, NextPageType DEF Load, TypeOK
    <3>2. line' \in Line
      BY <2>2 DEF Load, Show, TypeOK, Line, Job
    <3> QED
      BY <2>2, <3>1, <3>2 DEF TypeOK, Load
  <2>3. CASE Store(p)
    BY <2>3 DEF TypeOK, Store, Job
  <2>4. CASE Mark(p)
    BY <2>4 DEF TypeOK, Mark, Job
  <2>5. CASE Echo(p)
    <3>1. /\ job' \in [Proc -> Job]
          /\ mpc' \in [Proc -> {"prompt", "load", "store", "mark", "echo", "send"}]
      BY <2>5, NextPageType DEF Echo, TypeOK
    <3>2. line' \in Line
      BY <2>5 DEF Echo, Show, TypeOK, Line, Job
    <3> QED
      BY <2>5, <3>1, <3>2 DEF TypeOK, Echo
  <2>6. CASE SendInvalidate(p)
    <3>1. req' \in [Proc -> Seq(Request)]
      BY <2>6, SentRequestType DEF SendInvalidate, TypeOK, Job
    <3> QED
      BY <2>6, <3>1, NextPageType DEF TypeOK, SendInvalidate
  <2> QED
    BY <1>3, <2>1, <2>2, <2>3, <2>4, <2>5, <2>6 DEF MainStep
<1>4. ASSUME NEW p \in Proc, ServerStep(p) PROVE TypeOK'
  <2>1. CASE ServeInvalid(p)
    <3>1. resp' \in [Proc -> Seq(Reply)]
      BY <2>1, AnswerType DEF ServeInvalid, Reply, No
    <3> QED
      BY <2>1, <3>1, TakeRequestType DEF TypeOK, ServeInvalid, Incoming
  <2>2. CASE ServeValid(p)
    <3>1. resp' \in [Proc -> Seq(Reply)]
      BY <2>2, AnswerType DEF ServeValid, Reply, Yes
    <3> QED
      BY <2>2, <3>1, TakeRequestType DEF TypeOK, ServeValid, Incoming
  <2>3. CASE ServerFault(p)
    BY <2>3 DEF TypeOK, ServerFault, PageFault, Thread
  <2>4. CASE SendPage(p)
    <3>1. mem[p][spg[p]] \in Values
      BY <2>4 DEF SendPage, Resident, TypeOK
    <3>2. resp' \in [Proc -> Seq(Reply)]
      BY <2>4, <3>1, AnswerType DEF SendPage, Reply, Text
    <3> QED
      BY <2>4, <3>2 DEF TypeOK, SendPage
  <2>5. CASE Share(p)
    BY <2>5, PageZero DEF TypeOK, Share, NextRequest
  <2>6. CASE Drop(p)
    BY <2>6, TakeRequestType DEF TypeOK, Drop, Incoming
  <2>7. CASE Invalidate(p)
    BY <2>7, PageZero DEF TypeOK, Invalidate, NextRequest
  <2>8. CASE Reset(p)
    BY <2>8, GoneType DEF Reset
  <2> QED
    BY <1>4, <2>1, <2>2, <2>3, <2>4, <2>5, <2>6, <2>7, <2>8 DEF ServerStep
<1>5. ASSUME NEW p \in Proc, HandlerStep(p) PROVE TypeOK'
  <2>1. ASSUME NEW t \in Thread, TakeFault(p, t) PROVE TypeOK'
    BY <2>1, PageOfType DEF TypeOK, TakeFault
  <2>2. CASE SendFetch(p)
    <3>1. req' \in [Proc -> Seq(Request)]
      BY <2>2, SentRequestType DEF SendFetch, TypeOK
    <3> QED
      BY <2>2, <3>1 DEF TypeOK, SendFetch
  <2>3. CASE GetInvalid(p)
    BY <2>3, TailType DEF TypeOK, GetInvalid, Reading
  <2>4. CASE GetValid(p)
    BY <2>4, TailType DEF TypeOK, GetValid, Reading
  <2>5. CASE GetPage(p)
    <3>1. Head(resp[p]) \in Reply /\ Tail(resp[p]) \in Seq(Reply)
      BY <2>5, TailType DEF TypeOK, GetPage, Reading
    <3>2. Head(resp[p]).text \in Values
      BY <2>5, <3>1 DEF GetPage, Reading, Reply
    <3> QED
      BY <2>5, <3>1, <3>2 DEF TypeOK, GetPage
  <2>6. CASE GetNothing(p)
    <3>1. [msi EXCEPT ![p][fpg[p]] = "S"] \in [Proc -> [Page -> {"M", "S", "I"}]]
      BY DEF TypeOK
    <3>2. msi' = msi \/ msi' = [msi EXCEPT ![p][fpg[p]] = "S"]
      BY <2>6 DEF GetNothing
    <3>3. msi' \in [Proc -> [Page -> {"M", "S", "I"}]]
      BY <3>1, <3>2 DEF TypeOK
    <3> QED
      BY <2>6, <3>3 DEF TypeOK, GetNothing
  <2>7. CASE Copy(p)
    BY <2>7, PageZero DEF TypeOK, Copy, Values
  <2> QED
    BY <1>5, <2>1, <2>2, <2>3, <2>4, <2>5, <2>6, <2>7 DEF HandlerStep
<1>6. ASSUME NEW p \in Proc, Broken(p) PROVE TypeOK'
  BY <1>6, GoneType DEF Broken
<1>7. CASE UNCHANGED vars
  BY <1>7 DEF TypeOK, vars
<1> QED
  BY <1>1, <1>2, <1>3, <1>4, <1>5, <1>6, <1>7 DEF Next, Internal, Command, Values

\* Every variable of the two processes keeps its type: in particular no
\* thread ever names a page outside the region and no handler installs
\* anything but a page of text.
THEOREM TypeCorrect == Spec => []TypeOK
  BY TypeInit, TypeNext, PTL DEF Spec

-----------------------------------------------------------------------------
(***************************************************************************)
(* Page faults. FaultsAccounted is not inductive: that a sleeping thread's *)
(* page stays the page it sleeps on needs that the thread sleeps at a      *)
(* point of its program where it touches the region.                       *)
(***************************************************************************)
Parked(p) ==
  /\ fault[p]["main"] # "none" => mpc[p] \in {"load", "store", "echo"}
  /\ fault[p]["server"] # "none" => spc[p] = "page"

FaultInv(p) ==
  /\ Parked(p)
  /\ HandlerOnAbsentPage(p)
  /\ SleeperAccounted(p, "main")
  /\ SleeperAccounted(p, "server")

FaultVars(p) ==
  <<mem[p], fault[p], fpc[p], fpg[p], mpc[p], job[p], spc[p], spg[p]>>

\* What FaultInv depends on.
LEMMA FaultFrame ==
  ASSUME NEW p \in Proc, FaultInv(p), UNCHANGED FaultVars(p)
  PROVE  FaultInv(p)'
  BY DEF FaultInv, Parked, HandlerOnAbsentPage, SleeperAccounted, FaultVars,
         Resident, PageOf

\* A step of one process leaves the faults of the other alone.
LEMMA FaultOther ==
  ASSUME TypeOK, NEW p \in Proc, NEW q \in Proc, q # p,
         \/ \E op \in {"r", "w"}, which \in Page \cup {-1}, txt \in Values :
              Start(q, op, which, txt)
         \/ Exit(q)
         \/ Internal(q)
  PROVE  UNCHANGED FaultVars(p)
<1> USE DEF msiVars, netVars, mainVars, srvVars, hndVars, FaultVars, TypeOK
<1>1. CASE \E op \in {"r", "w"}, which \in Page \cup {-1}, txt \in Values :
             Start(q, op, which, txt)
  BY <1>1 DEF Start
<1>2. CASE Exit(q)
  BY <1>2 DEF Exit, Gone
<1>3. CASE MainStep(q)
  BY <1>3 DEF MainStep, MainFault, PageFault, Load, Store, Mark, Echo,
              SendInvalidate, NextPage
<1>4. CASE ServerStep(q)
  BY <1>4 DEF ServerStep, ServeInvalid, ServeValid, ServerFault, PageFault,
              SendPage, Share, Drop, Invalidate, Reset, Gone, TakeRequest, NextRequest
<1>5. CASE HandlerStep(q)
  BY <1>5 DEF HandlerStep, TakeFault, SendFetch, GetInvalid, GetValid, GetPage,
              GetNothing, Copy
<1>6. CASE Broken(q)
  BY <1>6 DEF Broken, Gone
<1> QED
  BY <1>1, <1>2, <1>3, <1>4, <1>5, <1>6 DEF Internal

\* A process that ends has no thread left to sleep.
LEMMA FaultGone ==
  ASSUME TypeOK, NEW p \in Proc, Gone(p)
  PROVE  FaultInv(p)'
  BY DEF Gone, TypeOK, FaultInv, Parked, HandlerOnAbsentPage, SleeperAccounted,
         Thread

\* main neither moves on while it sleeps nor fills a page another thread
\* sleeps on.
LEMMA FaultMain ==
  ASSUME TypeOK, NEW p \in Proc, FaultInv(p), MainStep(p)
  PROVE  FaultInv(p)'
<1> USE DEF msiVars, netVars, mainVars, srvVars, hndVars
<1>1. CASE MainFault(p)
  BY <1>1 DEF MainFault, PageFault, Runs, FaultInv, Parked, HandlerOnAbsentPage,
              SleeperAccounted, Resident, PageOf, TypeOK, Thread
<1>2. CASE Store(p)
  BY <1>2 DEF Store, Runs, FaultInv, Parked, HandlerOnAbsentPage,
              SleeperAccounted, Resident, PageOf, TypeOK, Thread
<1>3. CASE Load(p) \/ Mark(p) \/ Echo(p) \/ SendInvalidate(p)
  <2>1. fault[p]["main"] = "none"
    BY <1>3 DEF Load, Mark, Echo, SendInvalidate, Runs, FaultInv, Parked
  <2>2. UNCHANGED <<mem, fault, fpc, fpg, spc, spg>>
    BY <1>3 DEF Load, Mark, Echo, SendInvalidate
  <2> QED
    BY <2>1, <2>2 DEF FaultInv, Parked, HandlerOnAbsentPage, SleeperAccounted,
                      Resident, PageOf
<1> QED
  BY <1>1, <1>2, <1>3 DEF MainStep

\* server_thread drops pages but never fills one, and takes no request while
\* it sleeps.
LEMMA FaultServer ==
  ASSUME TypeOK, NEW p \in Proc, FaultInv(p), ServerStep(p)
  PROVE  FaultInv(p)'
<1> USE DEF msiVars, netVars, mainVars, srvVars, hndVars
<1>1. CASE ServerFault(p)
  BY <1>1 DEF ServerFault, PageFault, Runs, FaultInv, Parked, HandlerOnAbsentPage,
              SleeperAccounted, Resident, PageOf, TypeOK, Thread
<1>2. CASE Drop(p)
  BY <1>2 DEF Drop, Incoming, TakeRequest, FaultInv, Parked, HandlerOnAbsentPage,
              SleeperAccounted, Resident, PageOf, TypeOK, Thread
<1>3. CASE \/ ServeInvalid(p) \/ ServeValid(p) \/ SendPage(p) \/ Share(p)
           \/ Invalidate(p)
  <2>1. fault[p]["server"] = "none"
    BY <1>3 DEF ServeInvalid, ServeValid, SendPage, Share, Invalidate,
                Incoming, Runs, FaultInv, Parked
  <2>2. UNCHANGED <<mem, fault, fpc, fpg, mpc, job>>
    BY <1>3 DEF ServeInvalid, ServeValid, SendPage, Share, Invalidate
  <2> QED
    BY <2>1, <2>2 DEF FaultInv, Parked, HandlerOnAbsentPage, SleeperAccounted,
                      Resident, PageOf
<1>4. CASE Reset(p)
  BY <1>4, FaultGone DEF Reset
<1> QED
  BY <1>1, <1>2, <1>3, <1>4 DEF ServerStep

\* The handler takes up an absent page and, when it has installed it, has
\* woken every thread that slept on it.
LEMMA FaultHandler ==
  ASSUME TypeOK, NEW p \in Proc, FaultInv(p), HandlerStep(p)
  PROVE  FaultInv(p)'
<1> USE DEF msiVars, netVars, mainVars, srvVars, hndVars
<1>1. ASSUME NEW t \in Thread, TakeFault(p, t) PROVE FaultInv(p)'
  BY <1>1 DEF TakeFault, FaultInv, Parked, HandlerOnAbsentPage,
              SleeperAccounted, Resident, PageOf, TypeOK, Thread
<1>2. CASE Copy(p)
  BY <1>2 DEF Copy, FaultInv, Parked, HandlerOnAbsentPage, SleeperAccounted,
              Resident, PageOf, TypeOK, Thread
<1>3. CASE \/ SendFetch(p) \/ GetInvalid(p) \/ GetValid(p) \/ GetPage(p)
           \/ GetNothing(p)
  <2>1. UNCHANGED <<mem, fault, fpg, mpc, job, spc, spg>>
    BY <1>3 DEF SendFetch, GetInvalid, GetValid, GetPage, GetNothing
  <2>2. fpc[p] # "poll" /\ fpc'[p] # "poll"
    BY <1>3 DEF SendFetch, GetInvalid, GetValid, GetPage, GetNothing, Reading, TypeOK
  <2> QED
    BY <2>1, <2>2 DEF FaultInv, Parked, HandlerOnAbsentPage, SleeperAccounted,
                      Resident, PageOf
<1> QED
  BY <1>1, <1>2, <1>3 DEF HandlerStep

\* Every step of either process keeps both accounts of faults.
LEMMA FaultNext ==
  TypeOK /\ (\A p \in Proc : FaultInv(p)) /\ [Next]_vars => (\A p \in Proc : FaultInv(p))'
<1> SUFFICES ASSUME TypeOK, \A p \in Proc : FaultInv(p), [Next]_vars,
                    NEW p \in Proc
             PROVE  FaultInv(p)'
  BY DEF Proc
<1> USE DEF msiVars, netVars, mainVars, srvVars, hndVars
<1>1. CASE UNCHANGED vars
  BY <1>1, FaultFrame DEF vars, FaultVars
<1>2. CASE Next
  <2>1. PICK q \in Proc :
          \/ \E op \in {"r", "w"}, which \in Page \cup {-1}, txt \in Values :
               Start(q, op, which, txt)
          \/ Exit(q)
          \/ Internal(q)
    BY <1>2 DEF Next, Command, Values
  <2>2. CASE q # p
    BY <2>1, <2>2, FaultOther, FaultFrame
  <2>3. ASSUME q = p, NEW op \in {"r", "w"}, NEW which \in Page \cup {-1},
               NEW txt \in Values, Start(q, op, which, txt)
        PROVE  FaultInv(p)'
    <3>1. fault[p]["main"] = "none"
      BY <2>3 DEF Start, FaultInv, Parked
    <3>2. UNCHANGED <<mem, fault, fpc, fpg, spc, spg>>
      BY <2>3 DEF Start
    <3> QED
      BY <3>1, <3>2 DEF FaultInv, Parked, HandlerOnAbsentPage, SleeperAccounted,
                        Resident, PageOf
  <2>4. CASE q = p /\ (Exit(q) \/ Broken(q))
    BY <2>4, FaultGone DEF Exit, Broken
  <2> QED
    BY <2>1, <2>2, <2>3, <2>4, FaultMain, FaultServer, FaultHandler DEF Internal
<1> QED
  BY <1>1, <1>2

\* The strengthened invariant.
LEMMA FaultsInvariant == Spec => [](\A p \in Proc : FaultInv(p))
<1>1. Init => \A p \in Proc : FaultInv(p)
  BY DEF Init, FaultInv, Parked, HandlerOnAbsentPage, SleeperAccounted, Thread
<1> QED
  BY <1>1, FaultNext, TypeCorrect, PTL DEF Spec

\* No sleeping thread is forgotten and no page is installed over another,
\* whatever the users and the peer do.
THEOREM FaultsSafe == Spec => []FaultsAccounted
<1>1. (\A p \in Proc : FaultInv(p)) => FaultsAccounted
  BY DEF FaultInv, FaultsAccounted, Thread
<1> QED
  BY <1>1, FaultsInvariant, PTL

-----------------------------------------------------------------------------
(***************************************************************************)
(* Fetches and replies.                                                    *)
(***************************************************************************)
FetchVars(p) ==
  <<req[p], resp[p], fpc[p], fpg[p], spc[Peer(p)], spg[Peer(p)]>>

BothLive(p) == alive[p] /\ alive[Peer(p)]

\* The parts of the invariant that hold while both processes live.
FetchFacts(p) ==
  FetchOnce(p) /\ FetchAwaited(p) /\ PageAwaited(p) /\ ReplyAwaited(p)

\* No process comes back.
LEMMA AliveShrinks ==
  ASSUME TypeOK, [Next]_vars, NEW p \in Proc, BothLive(p)'
  PROVE  BothLive(p)
<1> USE DEF msiVars, netVars, mainVars, srvVars, hndVars
<1> SUFFICES ASSUME NEW q \in Proc, alive'[q] PROVE alive[q]
  BY PeerType DEF BothLive
<1>1. ASSUME NEW r \in Proc, MainStep(r) PROVE alive[q]
  BY <1>1 DEF MainStep, MainFault, Load, Store, Mark, Echo, SendInvalidate
<1>2. ASSUME NEW r \in Proc, ServerStep(r) PROVE alive[q]
  BY <1>2 DEF ServerStep, ServeInvalid, ServeValid, ServerFault, SendPage,
              Share, Drop, Invalidate, Reset, Gone, TypeOK
<1>3. ASSUME NEW r \in Proc, HandlerStep(r) PROVE alive[q]
  BY <1>3 DEF HandlerStep, TakeFault, SendFetch, GetInvalid, GetValid, GetPage,
              GetNothing, Copy
<1>4. ASSUME NEW r \in Proc, Exit(r) \/ Broken(r) PROVE alive[q]
  BY <1>4 DEF Exit, Broken, Gone, TypeOK
<1>5. ASSUME NEW r \in Proc, NEW which \in Page \cup {-1}, Command(r, which)
      PROVE  alive[q]
  BY <1>5 DEF Command, Start
<1>6. CASE UNCHANGED vars
  BY <1>6 DEF vars
<1> QED
  BY <1>1, <1>2, <1>3, <1>4, <1>5, <1>6 DEF Next, Internal

\* What FetchFacts depends on.
LEMMA FetchFrame ==
  ASSUME NEW p \in Proc, FetchFacts(p), UNCHANGED FetchVars(p)
  PROVE  FetchFacts(p)'
  BY DEF FetchFacts, FetchOnce, FetchAwaited, PageAwaited, ReplyAwaited, FetchAt,
         FetchVars

\* Only p's invalidations, p's handler and the peer's server touch the fetch
\* of p, unless a process ends.
LEMMA FetchUntouched ==
  ASSUME TypeOK, NEW p \in Proc, NEW q \in Proc, ~Reset(q),
         \/ \E which \in Page \cup {-1} : Command(q, which)
         \/ MainStep(q) /\ ~(q = p /\ SendInvalidate(q))
         \/ ServerStep(q) /\ q = p
         \/ HandlerStep(q) /\ q # p
  PROVE  UNCHANGED FetchVars(p)
<1> USE PeerType
    DEF msiVars, netVars, mainVars, srvVars, hndVars, FetchVars
<1>1. CASE \E which \in Page \cup {-1} : Command(q, which)
  BY <1>1 DEF Command, Start
<1>3. CASE MainStep(q) /\ ~(q = p /\ SendInvalidate(q))
  <2>1. CASE SendInvalidate(q)
    BY <1>3, <2>1 DEF SendInvalidate, SentRequest, TypeOK
  <2>2. CASE ~SendInvalidate(q)
    BY <1>3, <2>2 DEF MainStep, MainFault, Load, Store, Mark, Echo
  <2> QED
    BY <2>1, <2>2
<1>4. CASE ServerStep(q) /\ q = p
  BY <1>4 DEF ServerStep, ServeInvalid, ServeValid, ServerFault, SendPage,
              Share, Drop, Invalidate, TakeRequest, NextRequest, Answer, TypeOK
<1>5. CASE HandlerStep(q) /\ q # p
  BY <1>5 DEF HandlerStep, TakeFault, SendFetch, GetInvalid, GetValid, GetPage,
              GetNothing, Copy, SentRequest, TypeOK
<1> QED
  BY <1>1, <1>3, <1>4, <1>5

\* Appending an invalidation adds no fetch.
LEMMA AppendInvalidate ==
  ASSUME NEW s \in Seq(Request), NEW x \in Page
  PROVE  LET t == Append(s, [type |-> "I", page |-> x])
         IN  \A i \in 1 .. Len(t) : t[i].type = "F" => i \in 1 .. Len(s) /\ t[i] = s[i]
<1>1. [type |-> "I", page |-> x] \in Request
  BY DEF Request
<1> QED
  BY <1>1, AppendProperties

\* An 'I' that main sends is not taken for a fetch.
LEMMA FetchSendInvalidate ==
  ASSUME TypeOK, NEW p \in Proc, FetchFacts(p), SendInvalidate(p)
  PROVE  FetchFacts(p)'
<1>1. UNCHANGED <<resp, fpc, fpg, spc, spg>>
  BY DEF SendInvalidate, msiVars, srvVars, hndVars
<1>2. \A i \in 1 .. Len(req'[p]) : req'[p][i].type = "F" =>
        i \in 1 .. Len(req[p]) /\ req'[p][i] = req[p][i]
  <2>1. job[p].page \in Page /\ req[p] \in Seq(Request)
    BY DEF TypeOK, Job
  <2>2. CASE req' = [req EXCEPT ![p] = Append(@, [type |-> "I", page |-> job[p].page])]
    <3>1. req'[p] = Append(req[p], [type |-> "I", page |-> job[p].page])
      BY <2>2 DEF TypeOK
    <3> QED
      BY <2>1, <3>1, AppendInvalidate
  <2>3. CASE req' = req
    BY <2>3
  <2> QED
    BY <2>2, <2>3 DEF SendInvalidate, SentRequest
<1> QED
  BY <1>1, <1>2 DEF FetchFacts, FetchOnce, FetchAwaited, PageAwaited, ReplyAwaited,
                    FetchAt

\* The replies are different sequences, and their heads tell them apart.
LEMMA ReplyShapes ==
  ASSUME NEW v \in Values
  PROVE  /\ No \in Reply /\ Yes \in Reply /\ Text(v) \in Reply
         /\ No.kind = "0" /\ Yes.kind = "1" /\ Text(v).kind = "page"
         /\ Text(v).text = v
  BY DEF No, Yes, Text, Reply

\* Queues of one and two elements.
LEMMA ShortQueues ==
  ASSUME NEW S, NEW r \in S, NEW s \in S
  PROVE  /\ <<r>> # <<>> /\ Head(<<r>>) = r /\ Tail(<<r>>) = <<>>
         /\ <<r, s>> # <<>> /\ Head(<<r, s>>) = r /\ Tail(<<r, s>>) = <<s>>
         /\ Append(<<>>, r) = <<r>> /\ Append(<<r>>, s) = <<r, s>>
<1>1. /\ <<>> \in Seq(S) /\ <<r>> \in Seq(S) /\ <<s>> \in Seq(S) /\ <<r, s>> \in Seq(S)
      /\ Len(<<>>) = 0 /\ Len(<<r>>) = 1 /\ Len(<<s>>) = 1 /\ Len(<<r, s>>) = 2
      /\ <<r>>[1] = r /\ <<s>>[1] = s /\ <<r, s>>[1] = r /\ <<r, s>>[2] = s
  OBVIOUS
<1>2. <<r>> # <<>> /\ <<r, s>> # <<>>
  BY <1>1
<1>3. Head(<<r>>) = r /\ Head(<<r, s>>) = r
  BY <1>1, <1>2
<1>4. Tail(<<r>>) = <<>>
  BY <1>1, <1>2, HeadTailProperties, SeqEqual
<1>5. Tail(<<r, s>>) = <<s>>
  <2>1. /\ Tail(<<r, s>>) \in Seq(S) /\ Len(Tail(<<r, s>>)) = 1
        /\ Tail(<<r, s>>)[1] = s
    BY <1>1, <1>2, HeadTailProperties
  <2> QED
    BY <1>1, <2>1, SeqEqual
<1>6. Append(<<>>, r) = <<r>>
  <2>1. /\ Append(<<>>, r) \in Seq(S) /\ Len(Append(<<>>, r)) = 1
        /\ Append(<<>>, r)[1] = r
    BY <1>1, AppendProperties
  <2> QED
    BY <1>1, <2>1, SeqEqual
<1>7. Append(<<r>>, s) = <<r, s>>
  <2>1. /\ Append(<<r>>, s) \in Seq(S) /\ Len(Append(<<r>>, s)) = 2
        /\ Append(<<r>>, s)[1] = r /\ Append(<<r>>, s)[2] = s
    BY <1>1, AppendProperties
  <2>2. \A i \in 1 .. Len(Append(<<r>>, s)) : Append(<<r>>, s)[i] = <<r, s>>[i]
    <3>1. 1 .. Len(Append(<<r>>, s)) = {1, 2}
      BY <2>1
    <3> QED
      BY <1>1, <2>1, <3>1
  <2>3. ASSUME NEW a \in Seq(S), NEW b \in Seq(S), Len(a) = Len(b),
               \A i \in 1 .. Len(a) : a[i] = b[i]
        PROVE  a = b
    BY <2>3, SeqEqual
  <2> QED
    BY <1>1, <2>1, <2>2, <2>3
<1> QED
  BY <1>2, <1>3, <1>4, <1>5, <1>6, <1>7

\* The same for the replies of this protocol.
LEMMA ReplyQueues ==
  ASSUME NEW v \in Values
  PROVE  /\ Head(<<No>>).kind = "0" /\ Tail(<<No>>) = <<>>
         /\ Head(<<Yes>>).kind = "1" /\ Tail(<<Yes>>) = <<>>
         /\ Head(<<Yes, Text(v)>>).kind = "1" /\ Tail(<<Yes, Text(v)>>) = <<Text(v)>>
         /\ Tail(<<Text(v)>>) = <<>>
         /\ Append(<<>>, Text(v)) = <<Text(v)>>
         /\ Append(<<Yes>>, Text(v)) = <<Yes, Text(v)>>
         /\ <<No>> # <<Yes>>
<1>1. /\ No \in Reply /\ Yes \in Reply /\ Text(v) \in Reply
      /\ No.kind = "0" /\ Yes.kind = "1"
  BY ReplyShapes
<1>2. Head(<<No>>) = No /\ Tail(<<No>>) = <<>> /\ Append(<<>>, Text(v)) = <<Text(v)>>
  BY <1>1, ShortQueues
<1>3. Head(<<Yes>>) = Yes /\ Tail(<<Yes>>) = <<>> /\ Tail(<<Text(v)>>) = <<>>
  BY <1>1, ShortQueues
<1>4. /\ Head(<<Yes, Text(v)>>) = Yes /\ Tail(<<Yes, Text(v)>>) = <<Text(v)>>
      /\ Append(<<Yes>>, Text(v)) = <<Yes, Text(v)>>
  BY <1>1, ShortQueues
<1>5. <<No>> # <<Yes>>
  BY <1>1, <1>2, <1>3
<1> QED
  BY <1>1, <1>2, <1>3, <1>4, <1>5

\* The replies each state of the handler allows.
LEMMA AnswersOf ==
  /\ Answers("await") =
       {<<>>, <<No>>, <<Yes>>} \cup {<<Yes, Text(v)>> : v \in Values}
  /\ Answers("awaitpage") = {<<>>} \cup {<<Text(v)>> : v \in Values}
  /\ \A pc : pc # "await" /\ pc # "awaitpage" => Answers(pc) = {<<>>}
  BY DEF Answers

\* A handler that waits for nothing has nothing in flight.
LEMMA FetchIdle ==
  ASSUME NEW p \in Proc, FetchFacts(p), fpc[p] # "await", fpc[p] # "awaitpage"
  PROVE  /\ resp[p] = <<>>
         /\ spc[Peer(p)] # "page"
         /\ \A i \in 1 .. Len(req[p]) : ~FetchAt(p, i)
  BY AnswersOf DEF FetchFacts, FetchAwaited, PageAwaited, ReplyAwaited

\* ... and keeps nothing in flight while it goes on to a state of its own.
LEMMA FetchStaysIdle ==
  ASSUME NEW p \in Proc, resp'[p] = <<>>, spc'[Peer(p)] # "page", req'[p] = req[p],
         \A i \in 1 .. Len(req[p]) : ~FetchAt(p, i),
         fpc'[p] # "await"
  PROVE  FetchFacts(p)'
  BY AnswersOf DEF FetchFacts, FetchOnce, FetchAwaited, PageAwaited, ReplyAwaited,
                   FetchAt

\* The handler sends one fetch and takes its answer from the connection.
LEMMA FetchHandler ==
  ASSUME TypeOK, NEW p \in Proc, BothLive(p), FetchFacts(p), HandlerStep(p)
  PROVE  FetchFacts(p)'
<1> USE DEF msiVars, netVars, mainVars, srvVars, hndVars
<1>0. spc' = spc /\ spg' = spg
  BY DEF HandlerStep, TakeFault, SendFetch, GetInvalid, GetValid, GetPage,
         GetNothing, Copy
<1>1. CASE Copy(p) \/ \E t \in Thread : TakeFault(p, t)
  <2>1. fpc[p] \notin {"await", "awaitpage"} /\ fpc'[p] # "await"
    BY <1>1 DEF Copy, TakeFault, TypeOK
  <2>2. req' = req /\ resp' = resp
    BY <1>1 DEF Copy, TakeFault
  <2> QED
    BY <1>0, <2>1, <2>2, FetchIdle, FetchStaysIdle
<1>2. CASE SendFetch(p)
  <2> DEFINE r == [type |-> "F", page |-> fpg[p]]
  <2>1. /\ resp[p] = <<>>
        /\ spc[Peer(p)] # "page"
        /\ \A i \in 1 .. Len(req[p]) : ~FetchAt(p, i)
    BY <1>2, FetchIdle DEF SendFetch
  <2>2. r \in Request /\ req[p] \in Seq(Request)
    BY DEF Request, TypeOK
  <2>3. /\ req'[p] = Append(req[p], r)
        /\ fpc'[p] = "await" /\ fpg' = fpg /\ resp' = resp
    BY <1>2 DEF SendFetch, SentRequest, BothLive, TypeOK
  <2> HIDE DEF r
  <2>4. \A i \in 1 .. Len(req'[p]) : FetchAt(p, i)' => i = Len(req[p]) + 1 /\ req'[p][i] = r
    BY <2>1, <2>2, <2>3, AppendProperties DEF FetchAt
  <2>5. r.page = fpg[p]
    BY DEF r
  <2> QED
    BY <1>0, <2>1, <2>3, <2>4, <2>5, AnswersOf
       DEF FetchFacts, FetchOnce, FetchAwaited, PageAwaited, ReplyAwaited
<1>3. CASE GetInvalid(p)
  <2>1. fpc[p] = "await" /\ fpc'[p] = "copy" /\ resp[p] # <<>>
        /\ Head(resp[p]).kind = "0" /\ resp'[p] = Tail(resp[p]) /\ req' = req
    BY <1>3 DEF GetInvalid, Reading, TypeOK
  <2>2. resp[p] = <<No>>
    BY <2>1, AnswersOf, ReplyQueues DEF FetchFacts, ReplyAwaited, Values
  <2>3. resp'[p] = <<>> /\ resp[p] # <<Yes>>
    BY <2>1, <2>2, ReplyQueues DEF Values
  <2>4. spc[Peer(p)] # "page"
    BY <2>1, <2>3 DEF FetchFacts, PageAwaited
  <2>5. \A i \in 1 .. Len(req[p]) : ~FetchAt(p, i)
    BY <2>1 DEF FetchFacts, FetchAwaited
  <2> QED
    BY <1>0, <2>1, <2>3, <2>4, <2>5, FetchStaysIdle
<1>4. CASE GetValid(p)
  <2>1. fpc[p] = "await" /\ fpc'[p] = "awaitpage" /\ fpg' = fpg /\ resp[p] # <<>>
        /\ Head(resp[p]).kind = "1" /\ resp'[p] = Tail(resp[p]) /\ req' = req
    BY <1>4 DEF GetValid, Reading, TypeOK
  <2>2. resp[p] = <<Yes>> \/ \E v \in Values : resp[p] = <<Yes, Text(v)>>
    <3>1. resp[p] \in {<<No>>, <<Yes>>} \cup {<<Yes, Text(v)>> : v \in Values}
      BY <2>1, AnswersOf DEF FetchFacts, ReplyAwaited
    <3>2. Head(<<No>>).kind # "1"
      BY ReplyQueues DEF Values
    <3>3. resp[p] # <<No>>
      BY <2>1, <3>2
    <3> QED
      BY <3>1, <3>3
  <2>3. resp'[p] = <<>> \/ \E v \in Values : resp'[p] = <<Text(v)>>
    BY <2>1, <2>2, ReplyQueues DEF Values
  <2>4. resp[p] = <<Yes>> => resp'[p] = <<>>
    BY <2>1, ReplyQueues DEF Values
  <2>5. \A i \in 1 .. Len(req[p]) : ~FetchAt(p, i)
    BY <2>1 DEF FetchFacts, FetchAwaited
  <2> QED
    BY <1>0, <2>1, <2>3, <2>4, <2>5, AnswersOf
       DEF FetchFacts, FetchOnce, FetchAwaited, PageAwaited, ReplyAwaited, FetchAt
<1>5. CASE GetPage(p)
  <2>1. fpc[p] = "awaitpage" /\ fpc'[p] = "copy" /\ resp[p] # <<>>
        /\ resp'[p] = Tail(resp[p]) /\ req' = req
    BY <1>5 DEF GetPage, Reading, TypeOK
  <2>2. PICK v \in Values : resp[p] = <<Text(v)>>
    BY <2>1, AnswersOf DEF FetchFacts, ReplyAwaited
  <2>3. resp'[p] = <<>>
    BY <2>1, <2>2, ReplyQueues
  <2>4. spc[Peer(p)] # "page"
    BY <2>1 DEF FetchFacts, PageAwaited
  <2>5. \A i \in 1 .. Len(req[p]) : ~FetchAt(p, i)
    BY <2>1 DEF FetchFacts, FetchAwaited
  <2> QED
    BY <1>0, <2>1, <2>3, <2>4, <2>5, FetchStaysIdle
<1>6. CASE GetNothing(p)
  BY <1>6 DEF GetNothing, BothLive
<1> QED
  BY <1>1, <1>2, <1>3, <1>4, <1>5, <1>6 DEF HandlerStep

\* What is left of a connection once its head is read.
LEMMA TailFetches ==
  ASSUME NEW s \in Seq(Request), s # <<>>
  PROVE  /\ 1 \in 1 .. Len(s) /\ s[1] = Head(s)
         /\ \A i \in 1 .. Len(Tail(s)) : i + 1 \in 1 .. Len(s) /\ Tail(s)[i] = s[i + 1]
  BY HeadTailProperties, EmptySeq

\* The peer's server answers the fetch that is on its way.
LEMMA FetchServer ==
  ASSUME TypeOK, NEW p \in Proc, BothLive(p), FetchFacts(p), ServerStep(Peer(p)),
         ~Reset(Peer(p))
  PROVE  FetchFacts(p)'
<1> USE PeerType DEF msiVars, netVars, mainVars, srvVars, hndVars
<1> DEFINE q == Peer(p)
<1>0. fpc' = fpc /\ fpg' = fpg /\ Peer(q) = p /\ q \in Proc
  BY DEF ServerStep, ServeInvalid, ServeValid, ServerFault, SendPage,
         Share, Drop, Invalidate
<1>1. ASSUME req[p] # <<>>, req'[p] = Tail(req[p]), spg'[q] = Head(req[p]).page
      PROVE  /\ \A i \in 1 .. Len(req'[p]) :
                  FetchAt(p, i)' => FetchAt(p, i + 1) /\ req'[p][i] = req[p][i + 1]
             /\ FetchAt(p, 1) <=> Head(req[p]).type = "F"
  <2>1. req[p] \in Seq(Request)
    BY DEF TypeOK
  <2> QED
    BY <1>1, <2>1, TailFetches DEF FetchAt
<1>2. CASE ServeInvalid(q) \/ ServeValid(q)
  <2>1. /\ req[p] # <<>> /\ Head(req[p]).type = "F"
        /\ req'[p] = Tail(req[p]) /\ spg'[q] = Head(req[p]).page
    BY <1>0, <1>2 DEF ServeInvalid, ServeValid, Incoming, TakeRequest, TypeOK
  <2>2. FetchAt(p, 1) /\ req[p][1] = Head(req[p]) /\ 1 \in 1 .. Len(req[p])
    BY <1>1, <2>1, TailFetches DEF TypeOK
  <2>3. \A i \in 1 .. Len(req'[p]) : ~FetchAt(p, i)'
    BY <1>1, <2>1, <2>2, TailFetches DEF TypeOK, FetchFacts, FetchOnce, FetchAt
  <2>4. resp[p] = <<>> /\ fpc[p] = "await" /\ spg'[q] = fpg[p]
    BY <2>1, <2>2 DEF FetchFacts, FetchAwaited
  <2>5. CASE ServeInvalid(q)
    <3>1. resp'[p] = <<No>> /\ spc'[q] = "share"
      BY <1>0, <2>4, <2>5, ReplyShapes, ShortQueues
         DEF ServeInvalid, Answer, BothLive, TypeOK
    <3> QED
      BY <1>0, <2>3, <2>4, <3>1, AnswersOf
         DEF FetchFacts, FetchOnce, FetchAwaited, PageAwaited, ReplyAwaited
  <2>6. CASE ServeValid(q)
    <3>1. resp'[p] = <<Yes>> /\ spc'[q] = "page"
      BY <1>0, <2>4, <2>6, ReplyShapes, ShortQueues
         DEF ServeValid, Answer, BothLive, TypeOK
    <3> QED
      BY <1>0, <2>3, <2>4, <3>1, AnswersOf
         DEF FetchFacts, FetchOnce, FetchAwaited, PageAwaited, ReplyAwaited
  <2> QED
    BY <1>2, <2>5, <2>6
<1>3. CASE Drop(q)
  <2>1. /\ req[p] # <<>> /\ Head(req[p]).type = "I"
        /\ req'[p] = Tail(req[p]) /\ spg'[q] = Head(req[p]).page
        /\ resp' = resp /\ spc'[q] # "page"
    BY <1>0, <1>3 DEF Drop, Incoming, TakeRequest, TypeOK
  <2>2. spc[q] # "page"
    BY <1>3 DEF Drop, Incoming
  <2>3. \A i \in 1 .. Len(req'[p]) :
          FetchAt(p, i)' => FetchAt(p, i + 1) /\ req'[p][i] = req[p][i + 1]
    BY <1>1, <2>1
  <2>4. FetchOnce(p)'
    <3>1. SUFFICES ASSUME NEW i \in 1 .. Len(req'[p]), NEW j \in 1 .. Len(req'[p]),
                          FetchAt(p, i)', FetchAt(p, j)'
                   PROVE  i = j
      BY DEF FetchOnce
    <3>2. FetchAt(p, i + 1) /\ FetchAt(p, j + 1)
      BY <2>3, <3>1
    <3>3. i + 1 = j + 1
      BY <3>2 DEF FetchFacts, FetchOnce, FetchAt
    <3> QED
      BY <3>3
  <2>5. FetchAwaited(p)'
    BY <1>0, <2>1, <2>3 DEF FetchFacts, FetchAwaited, FetchAt
  <2> QED
    BY <1>0, <2>1, <2>4, <2>5 DEF FetchFacts, PageAwaited, ReplyAwaited
<1>4. CASE SendPage(q)
  <2>1. mem[q][spg[q]] \in Values
    BY <1>0, <1>4 DEF SendPage, Resident, TypeOK
  <2>2. PICK v \in Values : resp'[p] = Append(resp[p], Text(v))
    BY <1>0, <1>4, <2>1 DEF SendPage, Answer, BothLive, TypeOK
  <2>3. spc[q] = "page" /\ spc'[q] = "share" /\ req' = req
    BY <1>0, <1>4 DEF SendPage, TypeOK
  <2>4. \/ fpc[p] = "await" /\ resp[p] = <<Yes>>
        \/ fpc[p] = "awaitpage" /\ resp[p] = <<>>
    BY <2>3 DEF FetchFacts, PageAwaited
  <2>5. \/ fpc[p] = "await" /\ resp'[p] = <<Yes, Text(v)>>
        \/ fpc[p] = "awaitpage" /\ resp'[p] = <<Text(v)>>
    BY <2>2, <2>4, ReplyQueues
  <2>6. \A i \in 1 .. Len(req[p]) : ~FetchAt(p, i)
    BY <2>3 DEF FetchFacts, FetchAwaited
  <2> QED
    BY <1>0, <2>3, <2>5, <2>6, AnswersOf
       DEF FetchFacts, FetchOnce, FetchAwaited, PageAwaited, ReplyAwaited, FetchAt
<1>5. CASE Share(q) \/ Invalidate(q)
  <2>1. req' = req /\ resp' = resp /\ spc'[q] = "read"
    BY <1>0, <1>5 DEF Share, Invalidate, NextRequest, TypeOK
  <2> QED
    BY <1>0, <2>1 DEF FetchFacts, FetchOnce, FetchAwaited, PageAwaited, ReplyAwaited,
                      FetchAt
<1>6. CASE ServerFault(q)
  <2>1. UNCHANGED FetchVars(p)
    BY <1>6 DEF ServerFault, FetchVars
  <2> QED
    BY <2>1, FetchFrame
<1> QED
  BY <1>2, <1>3, <1>4, <1>5, <1>6 DEF ServerStep

\* Every step of either process keeps fetches and answers matched.
LEMMA FetchNext == TypeOK /\ FetchMatches /\ [Next]_vars => FetchMatches'
<1> SUFFICES ASSUME TypeOK, FetchMatches, [Next]_vars, NEW p \in Proc, BothLive(p)'
             PROVE  FetchFacts(p)'
  BY DEF FetchMatches, FetchMatched, FetchFacts, BothLive
<1>1. BothLive(p) /\ FetchFacts(p)
  BY AliveShrinks DEF FetchMatches, FetchMatched, FetchFacts, BothLive
<1>2. CASE UNCHANGED vars
  BY <1>1, <1>2, FetchFrame DEF vars, FetchVars
<1>3. CASE Next
  <2>1. PICK q \in Proc :
          \/ \E which \in Page \cup {-1} : Command(q, which)
          \/ Exit(q)
          \/ Internal(q)
    BY <1>3 DEF Next
  <2>2. q = p \/ q = Peer(p)
    BY DEF Proc, Peer
  <2>7. ~Exit(q) /\ ~Broken(q) /\ ~Reset(q)
    BY <2>2 DEF Exit, Broken, Reset, Gone, BothLive, TypeOK
  <2>3. CASE \/ \E which \in Page \cup {-1} : Command(q, which)
             \/ MainStep(q) /\ ~(q = p /\ SendInvalidate(q))
             \/ ServerStep(q) /\ q = p
             \/ HandlerStep(q) /\ q # p
    BY <1>1, <2>3, <2>7, FetchUntouched, FetchFrame
  <2>4. CASE q = p /\ SendInvalidate(q)
    BY <1>1, <2>4, FetchSendInvalidate
  <2>5. CASE q = Peer(p) /\ ServerStep(q)
    BY <1>1, <2>5, <2>7, FetchServer
  <2>6. CASE q = p /\ HandlerStep(q)
    BY <1>1, <2>6, FetchHandler
  <2> QED
    BY <2>1, <2>2, <2>3, <2>4, <2>5, <2>6, <2>7 DEF Internal
<1> QED
  BY <1>2, <1>3

\* Replies carry no page number, yet every reply answers the fetch its reader
\* waits for, whatever the users and the invalidations do meanwhile.
THEOREM FetchesMatched == Spec => []FetchMatches
<1>1. Init => FetchMatches
  BY PeerType DEF Init, FetchMatches, FetchMatched, FetchOnce, FetchAwaited,
                  PageAwaited, ReplyAwaited, FetchAt, Answers
<1> QED
  BY <1>1, FetchNext, TypeCorrect, PTL DEF Spec

-----------------------------------------------------------------------------
(***************************************************************************)
(* Part 2. S2dsmTurns: the entries of msi_array agree, the copies agree,   *)
(* and an entry says what the page table says.                             *)
(*                                                                         *)
(* The argument is made one page at a time. Of all variables only a view   *)
(* of page x matters to what is said about x; most steps leave the view of *)
(* most pages alone.                                                       *)
(***************************************************************************)

-----------------------------------------------------------------------------
(* The view of page x                                                      *)

\* A request of p about x is on its way.
Has(p, type, x) ==
  \E i \in 1 .. Len(req[p]) : req[p][i].type = type /\ req[p][i].page = x

\* What p's server, handler and main are doing with x.
ServerOn(p, x) == IF spg[p] = x THEN spc[p] ELSE "read"
HandlerOn(p, x) == IF fpg[p] = x THEN fpc[p] ELSE "poll"
Marking(p, x) == mpc[p] = "mark" /\ job[p].page = x
Writing(p, x) == mpc[p] \in {"echo", "send"} /\ job[p].op = "w" /\ job[p].page = x

\* The handler waits for an answer about x; what it has of it; the text it is
\* about to install.
Waiting(p, x) == HandlerOn(p, x) \in {"await", "awaitpage"}
Got(p, x) == IF Waiting(p, x) THEN resp[p] ELSE <<>>
Staged(p, x) == IF HandlerOn(p, x) = "copy" THEN buf[p] ELSE Zero

SameHandler(p, x) ==
  /\ HandlerOn(p, x)' = HandlerOn(p, x)
  /\ Staged(p, x)' = Staged(p, x)
  /\ Got(p, x)' = Got(p, x)

SameMain(p, x) ==
  /\ Covers(p, x)' <=> Covers(p, x)
  /\ Marking(p, x)' <=> Marking(p, x)
  /\ Writing(p, x)' <=> Writing(p, x)

SameNet(p, x) ==
  /\ Has(p, "F", x)' <=> Has(p, "F", x)
  /\ Has(p, "I", x)' <=> Has(p, "I", x)

SamePage(p, x) == msi'[p][x] = msi[p][x] /\ mem'[p][x] = mem[p][x]
SameServer(p, x) == ServerOn(p, x)' = ServerOn(p, x)

SameView(p, x) ==
  SamePage(p, x) /\ SameServer(p, x) /\ SameHandler(p, x) /\ SameMain(p, x) /\ SameNet(p, x)

-----------------------------------------------------------------------------
(* Requests on their way                                                   *)

\* What is left of the requests when the first is taken.
LEMMA HasTail ==
  ASSUME TypeOK, NEW p \in Proc, NEW x \in Page, NEW type \in {"F", "I"},
         req[p] # <<>>, req'[p] = Tail(req[p])
  PROVE  /\ Has(p, type, x)' => Has(p, type, x)
         /\ Has(p, type, x) =>
              Has(p, type, x)' \/ (Head(req[p]).type = type /\ Head(req[p]).page = x)
         /\ Has(p, Head(req[p]).type, Head(req[p]).page)
<1>1. /\ Tail(req[p]) \in Seq(Request) /\ Len(Tail(req[p])) = Len(req[p]) - 1
      /\ \A i \in 1 .. Len(Tail(req[p])) : Tail(req[p])[i] = req[p][i + 1]
      /\ Len(req[p]) \in Nat \ {0} /\ Head(req[p]) = req[p][1]
  BY HeadTailProperties, EmptySeq DEF TypeOK
<1>2. ASSUME NEW i \in 1 .. Len(req[p]), req[p][i].type = type, req[p][i].page = x, i # 1
      PROVE  Has(p, type, x)'
  <2>1. i - 1 \in 1 .. Len(req'[p]) /\ req'[p][i - 1] = req[p][i]
    BY <1>1, <1>2
  <2> QED
    BY <1>2, <2>1 DEF Has
<1> QED
  BY <1>1, <1>2 DEF Has

\* What there is when one is added.
LEMMA HasAppend ==
  ASSUME TypeOK, NEW p \in Proc, NEW x \in Page, NEW type \in {"F", "I"},
         NEW r \in Request, req'[p] = Append(req[p], r)
  PROVE  Has(p, type, x)' <=> Has(p, type, x) \/ (r.type = type /\ r.page = x)
<1>1. /\ Len(req'[p]) = Len(req[p]) + 1 /\ Len(req[p]) \in Nat
      /\ req'[p][Len(req[p]) + 1] = r
      /\ \A i \in 1 .. Len(req[p]) : req'[p][i] = req[p][i]
  BY AppendProperties DEF TypeOK
<1> QED
  BY <1>1 DEF Has

\* What a view depends on.
LEMMA SameWhole ==
  ASSUME NEW p \in Proc, NEW x \in Page
  PROVE  /\ UNCHANGED <<mpc[p], job[p]>> => SameMain(p, x)
         /\ UNCHANGED <<fpc[p], fpg[p], buf[p], resp[p]>> => SameHandler(p, x)
         /\ UNCHANGED <<spc[p], spg[p]>> => SameServer(p, x)
         /\ UNCHANGED req[p] => SameNet(p, x)
         /\ UNCHANGED <<msi[p], mem[p]>> => SamePage(p, x)
  BY DEF SameMain, Covers, Marking, Writing, SameHandler, HandlerOn, Staged, Got,
         Waiting, SameServer, ServerOn, SameNet, Has, SamePage

-----------------------------------------------------------------------------
(* What each step does to the view of a page                               *)

\* A user's command covers the pages whose turn it is.
LEMMA ViewStart ==
  ASSUME TypeOK, NEW p \in Proc, NEW op \in {"r", "w"}, NEW which \in Page \cup {-1},
         NEW txt \in Values, Start(p, op, which, txt), NEW x \in Page
  PROVE  /\ SameView(Peer(p), x)
         /\ SamePage(p, x) /\ SameServer(p, x) /\ SameHandler(p, x) /\ SameNet(p, x)
         /\ ~Marking(p, x) /\ ~Marking(p, x)' /\ ~Writing(p, x) /\ ~Writing(p, x)'
         /\ ~Covers(p, x) /\ (Covers(p, x)' => x \in Pages(which))
<1> USE PeerType DEF msiVars, netVars, srvVars, hndVars
<1>1. /\ UNCHANGED <<msi, mem, req, resp, spc, spg, fpc, fpg, buf>>
      /\ UNCHANGED <<mpc[Peer(p)], job[Peer(p)]>>
  BY DEF Start, TypeOK
<1>2. mpc[p] = "prompt" /\ mpc'[p] \in {"load", "store"} /\ job'[p] = Typed(op, which, txt)
  BY DEF Start, TypeOK
<1>3. Covers(p, x)' => x \in Pages(which)
  BY <1>2 DEF Covers, Typed, Pages
<1> QED
  BY <1>1, <1>2, <1>3, SameWhole DEF SameView, Covers, Marking, Writing

\* A fault of main changes no view; a read, and the line after a write, only
\* give up pages.
LEMMA ViewRead ==
  ASSUME TypeOK, NEW p \in Proc, MainFault(p) \/ Load(p) \/ Echo(p), NEW x \in Page,
         mpc[p] = "load" => job[p].op = "r"
  PROVE  /\ SameView(Peer(p), x)
         /\ SamePage(p, x) /\ SameServer(p, x) /\ SameHandler(p, x) /\ SameNet(p, x)
         /\ (Marking(p, x)' <=> Marking(p, x)) /\ (Writing(p, x)' <=> Writing(p, x))
         /\ Covers(p, x)' => Covers(p, x)
<1> USE PeerType DEF msiVars, netVars, srvVars, hndVars, mainVars
<1>1. /\ UNCHANGED <<msi, mem, req, resp, spc, spg, fpc, fpg, buf>>
      /\ UNCHANGED <<mpc[Peer(p)], job[Peer(p)]>>
  BY DEF MainFault, Load, Echo, NextPage, TypeOK
<1>2. /\ (Marking(p, x)' <=> Marking(p, x)) /\ (Writing(p, x)' <=> Writing(p, x))
      /\ Covers(p, x)' => Covers(p, x)
  <2>1. CASE MainFault(p)
    BY <2>1 DEF MainFault, Marking, Writing, Covers
  <2>2. CASE Load(p)
    BY <2>2 DEF Load, NextPage, NoJob, TypeOK, Marking, Writing, Covers, Job, Page
  <2>3. CASE Echo(p)
    BY <2>3 DEF Echo, NextPage, NoJob, TypeOK, Marking, Writing, Covers, Job, Page
  <2> QED
    BY <2>1, <2>2, <2>3
<1> QED
  BY <1>1, <1>2, SameWhole DEF SameView

\* strncpy to the page.
LEMMA ViewStore ==
  ASSUME TypeOK, NEW p \in Proc, Store(p), NEW x \in Page
  PROVE  /\ SameView(Peer(p), x)
         /\ msi'[p][x] = msi[p][x]
         /\ SameServer(p, x) /\ SameHandler(p, x) /\ SameNet(p, x)
         /\ (Covers(p, x)' <=> Covers(p, x)) /\ ~Writing(p, x) /\ ~Writing(p, x)'
         /\ x # job[p].page => SameView(p, x)
         /\ x = job[p].page => /\ Resident(p, x) /\ mem'[p][x] = job[p].txt
                               /\ job[p].txt \in Values /\ Covers(p, x)
                               /\ ~Marking(p, x) /\ Marking(p, x)'
<1> USE PeerType DEF netVars, srvVars, hndVars
<1>1. /\ UNCHANGED <<msi, req, resp, spc, spg, fpc, fpg, buf, job>>
      /\ UNCHANGED <<mpc[Peer(p)], mem[Peer(p)]>>
  BY DEF Store, TypeOK
<1>2. /\ mpc[p] = "store" /\ mpc'[p] = "mark" /\ Resident(p, job[p].page)
      /\ \A y \in Page : mem'[p][y] = IF y = job[p].page THEN job[p].txt ELSE mem[p][y]
      /\ job[p].txt \in Values /\ job[p].page \in Page
  BY DEF Store, TypeOK, Job
<1> QED
  BY <1>1, <1>2, SameWhole DEF SameView, SameMain, SamePage, Covers, Marking, Writing

\* msi_array[i] = MODIFIED
LEMMA ViewMark ==
  ASSUME TypeOK, NEW p \in Proc, Mark(p), NEW x \in Page, job[p].op = "w"
  PROVE  /\ SameView(Peer(p), x)
         /\ mem'[p][x] = mem[p][x]
         /\ SameServer(p, x) /\ SameHandler(p, x) /\ SameNet(p, x)
         /\ Covers(p, x)' <=> Covers(p, x)
         /\ x # job[p].page => SameView(p, x)
         /\ x = job[p].page => /\ msi'[p][x] = "M" /\ Covers(p, x)
                               /\ Marking(p, x) /\ ~Marking(p, x)' /\ Writing(p, x)'
<1> USE PeerType DEF netVars, srvVars, hndVars
<1>1. /\ UNCHANGED <<mem, req, resp, spc, spg, fpc, fpg, buf, job>>
      /\ UNCHANGED <<mpc[Peer(p)], msi[Peer(p)]>>
  BY DEF Mark, TypeOK
<1>2. /\ mpc[p] = "mark" /\ mpc'[p] = "echo" /\ job[p].page \in Page
      /\ \A y \in Page : msi'[p][y] = IF y = job[p].page THEN "M" ELSE msi[p][y]
  BY DEF Mark, TypeOK, Job
<1> QED
  BY <1>1, <1>2, SameWhole DEF SameView, SameMain, SamePage, Covers, Marking, Writing

\* The invalidation leaves and the page is done with.
LEMMA ViewInvalidation ==
  ASSUME TypeOK, BothAlive, NEW p \in Proc, SendInvalidate(p), NEW x \in Page,
         job[p].op = "w"
  PROVE  /\ SameView(Peer(p), x)
         /\ SamePage(p, x) /\ SameServer(p, x) /\ SameHandler(p, x)
         /\ Has(p, "F", x)' <=> Has(p, "F", x)
         /\ ~Marking(p, x) /\ ~Marking(p, x)' /\ ~Writing(p, x)'
         /\ Covers(p, x)' => Covers(p, x)
         /\ x # job[p].page => ~Writing(p, x) /\ (Has(p, "I", x)' <=> Has(p, "I", x))
         /\ x = job[p].page => Writing(p, x) /\ Has(p, "I", x)' /\ Covers(p, x)
<1> USE PeerType DEF msiVars, srvVars, hndVars
<1>1. /\ UNCHANGED <<msi, mem, resp, spc, spg, fpc, fpg, buf>>
      /\ UNCHANGED <<mpc[Peer(p)], job[Peer(p)], req[Peer(p)]>>
  BY DEF SendInvalidate, NextPage, SentRequest, TypeOK
<1>2. /\ mpc[p] = "send" /\ mpc'[p] \in {"prompt", "load", "store"}
      /\ Covers(p, x)' => Covers(p, x)
  BY DEF SendInvalidate, NextPage, NoJob, TypeOK, Covers, Job, Page
<1>3. [type |-> "I", page |-> job[p].page] \in Request
  BY DEF Request, TypeOK, Job
<1>4. req'[p] = Append(req[p], [type |-> "I", page |-> job[p].page])
  BY DEF SendInvalidate, SentRequest, BothAlive, TypeOK
<1>5. /\ Has(p, "F", x)' <=> Has(p, "F", x)
      /\ Has(p, "I", x)' <=> Has(p, "I", x) \/ job[p].page = x
  BY <1>3, <1>4, HasAppend
<1> QED
  BY <1>1, <1>2, <1>5, SameWhole DEF SameView, Covers, Marking, Writing

\* The server takes a request: what it sees, and what is left of the queue.
LEMMA ViewTake ==
  ASSUME TypeOK, NEW p \in Proc, NEW type \in {"F", "I"}, Incoming(p, type), TakeRequest(p),
         NEW x \in Page
  PROVE  /\ SameNet(p, x) /\ spg'[p] \in Page
         /\ x # spg'[p] => SameNet(Peer(p), x)
         /\ x = spg'[p] => Has(Peer(p), type, x)
         /\ \A t \in {"F", "I"} : Has(Peer(p), t, x)' => Has(Peer(p), t, x)
         /\ \A t \in {"F", "I"} : t # type => (Has(Peer(p), t, x)' <=> Has(Peer(p), t, x))
         /\ ServerOn(p, x) = "read" /\ spg'[Peer(p)] = spg[Peer(p)]
<1> USE PeerType
<1>1. /\ req[Peer(p)] # <<>> /\ req'[Peer(p)] = Tail(req[Peer(p)]) /\ req'[p] = req[p]
      /\ spg'[p] = Head(req[Peer(p)]).page /\ Head(req[Peer(p)]).type = type
      /\ spc[p] = "read" /\ spg'[Peer(p)] = spg[Peer(p)]
  BY DEF TakeRequest, Incoming, TypeOK
<1>2. spg'[p] \in Page
  BY <1>1, TakeRequestType DEF TypeOK
<1>3. SameNet(p, x)
  BY <1>1, SameWhole
<1> QED
  BY <1>1, <1>2, <1>3, HasTail DEF SameNet, ServerOn

\* 'F': the first byte of the answer goes out.
LEMMA ViewServe ==
  ASSUME TypeOK, BothAlive, NEW p \in Proc, ServeInvalid(p) \/ ServeValid(p), NEW x \in Page
  PROVE  /\ SamePage(p, x) /\ SameMain(p, x) /\ SameHandler(p, x) /\ SameNet(p, x)
         /\ SamePage(Peer(p), x) /\ SameMain(Peer(p), x) /\ SameServer(Peer(p), x)
         /\ HandlerOn(Peer(p), x)' = HandlerOn(Peer(p), x)
         /\ Staged(Peer(p), x)' = Staged(Peer(p), x)
         /\ Has(Peer(p), "I", x)' <=> Has(Peer(p), "I", x)
         /\ Has(Peer(p), "F", x)' => Has(Peer(p), "F", x)
         /\ ServerOn(p, x) = "read" /\ spg'[p] \in Page
         /\ x # spg'[p] => SameServer(p, x) /\ SameNet(Peer(p), x)
         /\ x = spg'[p] => /\ Has(Peer(p), "F", x)
                           /\ \/ /\ msi[p][x] = "I" /\ ServerOn(p, x)' = "share"
                                 /\ resp'[Peer(p)] = Append(resp[Peer(p)], No)
                              \/ /\ msi[p][x] # "I" /\ ServerOn(p, x)' = "page"
                                 /\ resp'[Peer(p)] = Append(resp[Peer(p)], Yes)
<1> USE PeerType DEF msiVars, mainVars, hndVars
<1>1. /\ UNCHANGED <<msi, mem, mpc, job, fpc, fpg, buf>>
      /\ UNCHANGED <<resp[p], spc[Peer(p)]>>
      /\ spc'[p] # "read"
  BY DEF ServeInvalid, ServeValid, Answer, TypeOK
<1>2. Incoming(p, "F") /\ TakeRequest(p) /\ spg'[p] = Head(req[Peer(p)]).page
  BY DEF ServeInvalid, ServeValid, TakeRequest, TypeOK
<1>3. \/ /\ msi[p][spg'[p]] = "I" /\ spc'[p] = "share"
         /\ resp'[Peer(p)] = Append(resp[Peer(p)], No)
      \/ /\ msi[p][spg'[p]] # "I" /\ spc'[p] = "page"
         /\ resp'[Peer(p)] = Append(resp[Peer(p)], Yes)
  BY <1>2 DEF ServeInvalid, ServeValid, Answer, BothAlive, TypeOK
<1>4. /\ SamePage(p, x) /\ SameMain(p, x) /\ SameHandler(p, x)
      /\ SamePage(Peer(p), x) /\ SameMain(Peer(p), x)
  BY <1>1, SameWhole
<1>5. /\ HandlerOn(Peer(p), x)' = HandlerOn(Peer(p), x)
      /\ Staged(Peer(p), x)' = Staged(Peer(p), x)
  BY <1>1 DEF HandlerOn, Staged
<1>6. SameServer(Peer(p), x)
  BY <1>1, <1>2, ViewTake, SameWhole
<1> QED
  BY <1>1, <1>2, <1>3, <1>4, <1>5, <1>6, ViewTake DEF ServerOn, SameServer, SameNet

\* The page itself goes out.
LEMMA ViewSendPage ==
  ASSUME TypeOK, BothAlive, NEW p \in Proc, SendPage(p), NEW x \in Page
  PROVE  /\ SamePage(p, x) /\ SameMain(p, x) /\ SameHandler(p, x) /\ SameNet(p, x)
         /\ SamePage(Peer(p), x) /\ SameMain(Peer(p), x) /\ SameServer(Peer(p), x)
         /\ SameNet(Peer(p), x)
         /\ HandlerOn(Peer(p), x)' = HandlerOn(Peer(p), x)
         /\ Staged(Peer(p), x)' = Staged(Peer(p), x)
         /\ x # spg[p] => SameServer(p, x)
         /\ x = spg[p] => /\ ServerOn(p, x) = "page" /\ ServerOn(p, x)' = "share"
                          /\ mem[p][x] \in Values
                          /\ resp'[Peer(p)] = Append(resp[Peer(p)], Text(mem[p][x]))
<1> USE PeerType DEF msiVars, mainVars, hndVars
<1>1. /\ UNCHANGED <<msi, mem, mpc, job, fpc, fpg, buf, req, spg>>
      /\ UNCHANGED <<resp[p], spc[Peer(p)]>>
      /\ spc[p] = "page" /\ spc'[p] = "share"
      /\ resp'[Peer(p)] = Append(resp[Peer(p)], Text(mem[p][spg[p]]))
      /\ mem[p][spg[p]] \in Values
  BY DEF SendPage, Answer, TypeOK, BothAlive, Resident
<1> QED
  BY <1>1, SameWhole DEF HandlerOn, Staged, ServerOn, SameServer

\* msi_array[request.which_page] = SHARED, or INVALID.
LEMMA ViewServed ==
  ASSUME TypeOK, NEW p \in Proc, Share(p) \/ Invalidate(p), NEW x \in Page
  PROVE  /\ SameView(Peer(p), x)
         /\ mem'[p][x] = mem[p][x]
         /\ SameMain(p, x) /\ SameHandler(p, x) /\ SameNet(p, x)
         /\ ServerOn(p, x)' = "read"
         /\ x # spg[p] => ServerOn(p, x) = "read" /\ msi'[p][x] = msi[p][x]
         /\ x = spg[p] => \/ ServerOn(p, x) = "share" /\ msi'[p][x] = "S"
                          \/ ServerOn(p, x) = "inval" /\ msi'[p][x] = "I"
<1> USE PeerType DEF netVars, mainVars, hndVars
<1>1. /\ UNCHANGED <<mem, mpc, job, fpc, fpg, buf, req, resp>>
      /\ UNCHANGED <<msi[Peer(p)], spc[Peer(p)], spg[Peer(p)]>>
      /\ spc'[p] = "read"
  BY DEF Share, Invalidate, NextRequest, TypeOK
<1>2. \/ spc[p] = "share" /\ \A y \in Page : msi'[p][y] = IF y = spg[p] THEN "S" ELSE msi[p][y]
      \/ spc[p] = "inval" /\ \A y \in Page : msi'[p][y] = IF y = spg[p] THEN "I" ELSE msi[p][y]
  BY DEF Share, Invalidate, TypeOK
<1> QED
  BY <1>1, <1>2, SameWhole DEF SameView, ServerOn

\* 'I': the page is dropped.
LEMMA ViewDrop ==
  ASSUME TypeOK, NEW p \in Proc, Drop(p), NEW x \in Page
  PROVE  /\ SamePage(Peer(p), x) /\ SameMain(Peer(p), x) /\ SameServer(Peer(p), x)
         /\ SameHandler(Peer(p), x)
         /\ Has(Peer(p), "F", x)' <=> Has(Peer(p), "F", x)
         /\ Has(Peer(p), "I", x)' => Has(Peer(p), "I", x)
         /\ SameMain(p, x) /\ SameHandler(p, x) /\ SameNet(p, x)
         /\ msi'[p][x] = msi[p][x] /\ ServerOn(p, x) = "read"
         /\ x # spg'[p] => SameView(p, x) /\ SameView(Peer(p), x)
         /\ x = spg'[p] => /\ Has(Peer(p), "I", x) /\ ServerOn(p, x)' = "inval"
                           /\ mem'[p][x] = Absent
<1> USE PeerType DEF mainVars, hndVars
<1>1. /\ UNCHANGED <<msi, mpc, job, fpc, fpg, buf, resp>>
      /\ UNCHANGED <<mem[Peer(p)], spc[Peer(p)]>>
      /\ Incoming(p, "I") /\ TakeRequest(p) /\ spc'[p] = "inval"
      /\ spg'[p] = Head(req[Peer(p)]).page
  BY DEF Drop, TakeRequest, TypeOK
<1>2. \A y \in Page : mem'[p][y] = IF y = spg'[p] THEN Absent ELSE mem[p][y]
  BY <1>1 DEF Drop, TypeOK
<1> QED
  BY <1>1, <1>2, SameWhole, ViewTake DEF SameView, SamePage, SameNet, ServerOn, SameServer

\* The handler takes up main's fault.
LEMMA ViewTakeFault ==
  ASSUME TypeOK, NEW p \in Proc, TakeFault(p, "main"), NEW x \in Page, buf[p] = Zero
  PROVE  /\ SameView(Peer(p), x)
         /\ SamePage(p, x) /\ SameServer(p, x) /\ SameMain(p, x) /\ SameNet(p, x)
         /\ Staged(p, x)' = Staged(p, x)
         /\ HandlerOn(p, x) = "poll" /\ Got(p, x) = <<>> /\ Got(p, x)' = <<>>
         /\ HandlerOn(p, x)' = IF x # job[p].page THEN "poll"
                               ELSE IF msi[p][x] = "I" THEN "fetch" ELSE "copy"
<1> USE PeerType DEF msiVars, netVars, mainVars, srvVars
<1>1. /\ UNCHANGED <<msi, mem, req, resp, mpc, job, spc, spg, buf>>
      /\ UNCHANGED <<fpc[Peer(p)], fpg[Peer(p)]>>
      /\ fpc[p] = "poll" /\ fpg'[p] = job[p].page
      /\ fpc'[p] = IF msi[p][job[p].page] = "I" THEN "fetch" ELSE "copy"
  BY DEF TakeFault, PageOf, TypeOK
<1> QED
  BY <1>1, SameWhole DEF SameView, HandlerOn, Staged, Got, Waiting

\* sent_request('F', page_faulted)
LEMMA ViewFetch ==
  ASSUME TypeOK, BothAlive, NEW p \in Proc, SendFetch(p), NEW x \in Page
  PROVE  /\ SameView(Peer(p), x)
         /\ SamePage(p, x) /\ SameServer(p, x) /\ SameMain(p, x)
         /\ Staged(p, x)' = Staged(p, x)
         /\ Has(p, "I", x)' <=> Has(p, "I", x)
         /\ x # fpg[p] => SameView(p, x)
         /\ x = fpg[p] => /\ HandlerOn(p, x) = "fetch" /\ HandlerOn(p, x)' = "await"
                          /\ Got(p, x)' = resp[p]
<1> USE PeerType DEF msiVars, mainVars, srvVars
<1>1. /\ UNCHANGED <<msi, mem, resp, mpc, job, spc, spg, buf, fpg>>
      /\ UNCHANGED <<fpc[Peer(p)], req[Peer(p)]>>
      /\ fpc[p] = "fetch" /\ fpc'[p] = "await" /\ fpg[p] \in Page
      /\ req'[p] = Append(req[p], [type |-> "F", page |-> fpg[p]])
  BY DEF SendFetch, SentRequest, BothAlive, TypeOK
<1>2. [type |-> "F", page |-> fpg[p]] \in Request
  BY <1>1 DEF Request
<1>3. /\ Has(p, "I", x)' <=> Has(p, "I", x)
      /\ x # fpg[p] => SameNet(p, x)
  BY <1>1, <1>2, HasAppend DEF SameNet
<1> QED
  BY <1>1, <1>3, SameWhole DEF SameView, HandlerOn, Staged, Got, Waiting, SameHandler

\* An answer, or its first byte, is read.
LEMMA ViewGet ==
  ASSUME TypeOK, NEW p \in Proc, GetInvalid(p) \/ GetValid(p) \/ GetPage(p), NEW x \in Page
  PROVE  /\ SameView(Peer(p), x)
         /\ mem'[p][x] = mem[p][x]
         /\ SameServer(p, x) /\ SameMain(p, x) /\ SameNet(p, x)
         /\ x # fpg[p] => SameView(p, x)
         /\ x = fpg[p] =>
              /\ Waiting(p, x) /\ Got(p, x) = resp[p] /\ resp[p] # <<>>
              /\ resp'[p] = Tail(resp[p])
              /\ \/ /\ GetInvalid(p) /\ HandlerOn(p, x) = "await" /\ Head(resp[p]).kind = "0"
                    /\ HandlerOn(p, x)' = "copy" /\ msi'[p][x] = "S"
                    /\ Staged(p, x)' = buf[p] /\ Got(p, x)' = <<>>
                 \/ /\ GetValid(p) /\ HandlerOn(p, x) = "await" /\ Head(resp[p]).kind = "1"
                    /\ HandlerOn(p, x)' = "awaitpage" /\ msi'[p][x] = msi[p][x]
                    /\ Staged(p, x)' = Staged(p, x) /\ Got(p, x)' = Tail(resp[p])
                 \/ /\ GetPage(p) /\ HandlerOn(p, x) = "awaitpage" /\ msi'[p][x] = "S"
                    /\ HandlerOn(p, x)' = "copy"
                    /\ Staged(p, x)' = Head(resp[p]).text /\ Got(p, x)' = <<>>
<1> USE PeerType DEF mainVars, srvVars, msiVars
<1>1. /\ UNCHANGED <<mem, req, mpc, job, spc, spg, fpg>>
      /\ UNCHANGED <<fpc[Peer(p)], buf[Peer(p)], resp[Peer(p)], msi[Peer(p)]>>
      /\ fpg[p] \in Page /\ resp[p] # <<>> /\ resp'[p] = Tail(resp[p])
      /\ \A y \in Page : y # fpg[p] => msi'[p][y] = msi[p][y]
  BY DEF GetInvalid, GetValid, GetPage, Reading, TypeOK
<1>2. \/ /\ GetInvalid(p) /\ fpc[p] = "await" /\ Head(resp[p]).kind = "0"
         /\ fpc'[p] = "copy" /\ msi'[p][fpg[p]] = "S" /\ buf'[p] = buf[p]
      \/ /\ GetValid(p) /\ fpc[p] = "await" /\ Head(resp[p]).kind = "1"
         /\ fpc'[p] = "awaitpage" /\ msi' = msi /\ buf'[p] = buf[p]
      \/ /\ GetPage(p) /\ fpc[p] = "awaitpage" /\ msi'[p][fpg[p]] = "S"
         /\ fpc'[p] = "copy" /\ buf'[p] = Head(resp[p]).text
  BY DEF GetInvalid, GetValid, GetPage, Reading, TypeOK
<1>3. x # fpg[p] => SameHandler(p, x) /\ SamePage(p, x)
  BY <1>1 DEF SameHandler, HandlerOn, Staged, Got, Waiting, SamePage
<1> QED
  BY <1>1, <1>2, <1>3, SameWhole DEF SameView, HandlerOn, Staged, Got, Waiting

\* UFFDIO_COPY
LEMMA ViewCopy ==
  ASSUME TypeOK, NEW p \in Proc, Copy(p), NEW x \in Page
  PROVE  /\ SameView(Peer(p), x)
         /\ msi'[p][x] = msi[p][x]
         /\ SameServer(p, x) /\ SameMain(p, x) /\ SameNet(p, x)
         /\ HandlerOn(p, x)' = "poll" /\ Got(p, x)' = Got(p, x)
         /\ Staged(p, x)' = Zero
         /\ x # fpg[p] => SameView(p, x)
         /\ x = fpg[p] => HandlerOn(p, x) = "copy" /\ mem'[p][x] = Staged(p, x)
<1> USE PeerType DEF mainVars, srvVars, netVars
<1>1. /\ UNCHANGED <<msi, req, resp, mpc, job, spc, spg>>
      /\ UNCHANGED <<fpc[Peer(p)], fpg[Peer(p)], buf[Peer(p)], mem[Peer(p)]>>
      /\ fpc[p] = "copy" /\ fpc'[p] = "poll" /\ fpg[p] \in Page
      /\ \A y \in Page : mem'[p][y] = IF y = fpg[p] THEN buf[p] ELSE mem[p][y]
  BY DEF Copy, TypeOK
<1>2. /\ HandlerOn(p, x)' = "poll" /\ Got(p, x)' = <<>> /\ Got(p, x) = <<>>
      /\ Staged(p, x)' = Zero
      /\ x # fpg[p] => HandlerOn(p, x) = "poll" /\ Staged(p, x) = Zero
      /\ x = fpg[p] => HandlerOn(p, x) = "copy" /\ Staged(p, x) = buf[p]
  BY <1>1 DEF HandlerOn, Staged, Got, Waiting
<1> QED
  BY <1>1, <1>2, SameWhole DEF SameView, SamePage, SameHandler

-----------------------------------------------------------------------------
(***************************************************************************)
(* The inductive invariant, for a page x and a process p, its peer q.      *)
(***************************************************************************)

\* Something is done with x on behalf of p's user.  The discipline gives the
\* page to one user at a time.
Turn(p, x) ==
  Covers(p, x) \/ Has(p, "F", x) \/ Has(p, "I", x) \/ ServerOn(Peer(p), x) # "read"

Exclusive(p, x) == Turn(p, x) => ~Turn(Peer(p), x)

\* An INVALID page is absent; a MODIFIED one is resident until its server has
\* dropped it; what a server sends is MODIFIED.
EntryFits(p, x) ==
  /\ msi[p][x] = "I" => ~Resident(p, x)
  /\ msi[p][x] = "M" => Resident(p, x) \/ ServerOn(p, x) = "inval"
  /\ ServerOn(p, x) = "inval" => ~Resident(p, x)
  /\ ServerOn(p, x) = "page" => msi[p][x] = "M"
  /\ Marking(p, x) => Resident(p, x)

\* The handler asks the peer for INVALID pages and installs others.
HandlerFits(p, x) ==
  /\ HandlerOn(p, x) = "copy" => msi[p][x] # "I"
  /\ HandlerOn(p, x) \in {"fetch", "await", "awaitpage"} => msi[p][x] = "I"

\* An invalidation of p is about to be sent, on its way or being carried out.
Invalidating(p, x) == Writing(p, x) \/ Has(p, "I", x) \/ ServerOn(Peer(p), x) = "inval"

InvalidationFits(p, x) == Invalidating(p, x) => msi[p][x] = "M"

\* A MODIFIED entry is alone, or it is about to be demoted, or the other one
\* is about to become INVALID.
Owner(p, x) ==
  msi[p][x] = "M" =>
    \/ ServerOn(p, x) = "share"
    \/ Invalidating(p, x)
    \/ msi[Peer(p)][x] = "I" /\ ServerOn(Peer(p), x) # "share"

\* A SHARED entry has a SHARED partner, or will have one, or is about to
\* become INVALID.
Partner(p, x) ==
  msi[p][x] = "S" =>
    \/ msi[Peer(p)][x] = "S" \/ ServerOn(Peer(p), x) = "share"
    \/ Invalidating(Peer(p), x) \/ Waiting(Peer(p), x)

\* A page that p asks for is not SHARED at its peer, nor about to be.
Asking(p, x) == HandlerOn(p, x) = "fetch" \/ Has(p, "F", x)

AskFits(p, x) == Asking(p, x) => msi[Peer(p)][x] # "S" /\ ServerOn(Peer(p), x) # "share"

\* A server that shares has a peer that has, or waits for, its answer.
ShareFits(p, x) ==
  ServerOn(p, x) = "share" => msi[Peer(p)][x] # "I" \/ Waiting(Peer(p), x)

\* What an answer says is still so: its sender is sharing or has shared.
Shares(p, x) == ServerOn(p, x) = "share" \/ msi[p][x] = "S"

AnswerFits(p, x) ==
  /\ Got(p, x) = <<No>> => Shares(Peer(p), x) /\ ~Resident(Peer(p), x)
  /\ \A v \in Values : Got(p, x) \in {<<Yes, Text(v)>>, <<Text(v)>>} =>
       Shares(Peer(p), x) /\ mem[Peer(p)][x] = v

\* The texts of two copies are the same from the moment the answer is read.
TextFits(p, x) ==
  msi[p][x] = "S" /\ Shares(Peer(p), x) /\ ~Marking(p, x) /\ ~Marking(Peer(p), x)
    => Sees(p, x) = Sees(Peer(p), x)

PageFits(p, x) ==
  /\ Exclusive(p, x) /\ EntryFits(p, x) /\ HandlerFits(p, x) /\ InvalidationFits(p, x)
  /\ Owner(p, x) /\ Partner(p, x) /\ AskFits(p, x) /\ ShareFits(p, x)
  /\ AnswerFits(p, x) /\ TextFits(p, x)

\* What is said of p alone: its server sleeps in no fault, its commands are at
\* the points they belong to, and its staging page is clear between faults.
ProcFits(p) ==
  /\ fault[p]["server"] = "none"
  /\ mpc[p] = "load" => job[p].op = "r"
  /\ mpc[p] \in {"store", "mark", "send"} => job[p].op = "w"
  /\ fpc[p] # "copy" => buf[p] = Zero

Coherent == BothAlive => \A p \in Proc : ProcFits(p) /\ \A x \in Page : PageFits(p, x)

\* What part 1 says of the view: the handler works for main, on an absent
\* page; fetches and answers match.
HandlerKnown(p, x) == HandlerOn(p, x) # "poll" => Covers(p, x) /\ ~Resident(p, x)

FetchKnown(p, x) ==
  /\ Has(p, "F", x) =>
       HandlerOn(p, x) = "await" /\ Got(p, x) = <<>> /\ ServerOn(Peer(p), x) # "page"
  /\ ServerOn(Peer(p), x) = "page" =>
       \/ HandlerOn(p, x) = "await" /\ Got(p, x) = <<Yes>>
       \/ HandlerOn(p, x) = "awaitpage" /\ Got(p, x) = <<>>
  /\ Waiting(p, x) => Got(p, x) \in Answers(HandlerOn(p, x))

ViewKnown(p, x) == HandlerKnown(p, x) /\ FetchKnown(p, x)

Base == TypeOK /\ FetchMatches /\ \A p \in Proc : FaultInv(p)

\* The view of a page as part 1 knows it.
LEMMA Viewed ==
  ASSUME Base, BothAlive, NEW p \in Proc, ProcFits(p), NEW x \in Page
  PROVE  ViewKnown(p, x)
<1> USE PeerType
<1>1. HandlerKnown(p, x)
  <2> SUFFICES ASSUME HandlerOn(p, x) # "poll" PROVE Covers(p, x) /\ ~Resident(p, x)
    BY DEF HandlerKnown
  <2>1. fpc[p] # "poll" /\ fpg[p] = x
    BY DEF HandlerOn
  <2>2. ~Resident(p, x) /\ fault[p]["main"] = "read"
    BY <2>1 DEF Base, FaultInv, HandlerOnAbsentPage, ProcFits, Thread
  <2>3. fpg[p] = job[p].page /\ mpc[p] \in {"load", "store", "echo"}
    BY <2>2 DEF Base, FaultInv, SleeperAccounted, Parked, PageOf
  <2> QED
    BY <2>1, <2>2, <2>3 DEF Covers
<1>2. FetchKnown(p, x)
  <2>1. FetchAwaited(p) /\ PageAwaited(p) /\ ReplyAwaited(p)
    BY DEF Base, FetchMatches, FetchMatched, BothAlive
  <2>2. Has(p, "F", x) =>
          HandlerOn(p, x) = "await" /\ Got(p, x) = <<>> /\ ServerOn(Peer(p), x) # "page"
    BY <2>1 DEF Has, FetchAwaited, FetchAt, HandlerOn, Got, Waiting, ServerOn
  <2>3. ServerOn(Peer(p), x) = "page" =>
       \/ HandlerOn(p, x) = "await" /\ Got(p, x) = <<Yes>>
       \/ HandlerOn(p, x) = "awaitpage" /\ Got(p, x) = <<>>
    BY <2>1 DEF PageAwaited, HandlerOn, Got, Waiting, ServerOn
  <2>4. Waiting(p, x) => Got(p, x) \in Answers(HandlerOn(p, x))
    BY <2>1 DEF ReplyAwaited, HandlerOn, Got, Waiting
  <2> QED
    BY <2>2, <2>3, <2>4 DEF FetchKnown
<1> QED
  BY <1>1, <1>2 DEF ViewKnown

-----------------------------------------------------------------------------
(* Each step keeps the facts about a page, and those about its process     *)

\* Everything but the turn.
SameButTurn(p, x) ==
  /\ SamePage(p, x) /\ SameServer(p, x) /\ SameHandler(p, x)
  /\ Has(p, "F", x)' <=> Has(p, "F", x)
  /\ Marking(p, x)' <=> Marking(p, x)
  /\ Invalidating(p, x)' <=> Invalidating(p, x)

\* A step that leaves the view of a page alone, but for whose turn it is.
LEMMA PageFrame ==
  ASSUME NEW p \in Proc, NEW x \in Page, PageFits(p, x),
         SameButTurn(p, x), SameButTurn(Peer(p), x), Exclusive(p, x)'
  PROVE  PageFits(p, x)'
<1> USE PeerType
<1>1. /\ Resident(p, x)' <=> Resident(p, x)
      /\ Resident(Peer(p), x)' <=> Resident(Peer(p), x)
      /\ Sees(p, x)' = Sees(p, x) /\ Sees(Peer(p), x)' = Sees(Peer(p), x)
      /\ Shares(Peer(p), x)' <=> Shares(Peer(p), x)
  BY DEF SameButTurn, SamePage, SameServer, SameHandler,
         Resident, Sees, Staged, HandlerOn, Shares
<1> QED
  BY <1>1 DEF PageFits, EntryFits, HandlerFits, InvalidationFits, Owner, Partner,
       AskFits, ShareFits, AnswerFits, TextFits, SameButTurn, SamePage, SameServer,
       SameHandler, Asking, Waiting

\* A turn that is not taken up is kept or given up.
LEMMA TurnFrame ==
  ASSUME NEW p \in Proc, NEW x \in Page, Exclusive(p, x),
         Turn(p, x)' => Turn(p, x), Turn(Peer(p), x)' => Turn(Peer(p), x)
  PROVE  Exclusive(p, x)' /\ Exclusive(Peer(p), x)'
  BY PeerType DEF Exclusive

\* A request on its way is what the discipline calls pending.
LEMMA PendingHas ==
  ASSUME TypeOK, NEW p \in Proc, NEW x \in Page
  PROVE  Has(p, "F", x) \/ Has(p, "I", x) => Pending(p, x)
  BY DEF Pending, Has

\* A command starts on pages that are free for its user.
LEMMA StartFits ==
  ASSUME TypeOK, NEW p \in Proc, NEW op \in {"r", "w"}, NEW which \in Page \cup {-1},
         NEW txt \in Values, Start(p, op, which, txt), NEW x \in Page,
         \A y \in Pages(which) : Calm(p, y),
         PageFits(p, x), PageFits(Peer(p), x)
  PROVE  PageFits(p, x)' /\ PageFits(Peer(p), x)'
<1> USE PeerType, ViewStart
<1>1. Exclusive(p, x)' /\ Exclusive(Peer(p), x)'
  <2>2. Calm(p, x) => ~Turn(Peer(p), x)
    BY PendingHas DEF Calm, Serving, Turn, ServerOn
  <2>3. Turn(p, x)' => Turn(p, x) \/ x \in Pages(which)
    BY DEF Turn, SameView, SameNet, SameServer
  <2>4. Turn(Peer(p), x)' => Turn(Peer(p), x)
    BY DEF Turn, SameView, SameNet, SameServer, SameMain
  <2> QED
    BY <2>2, <2>3, <2>4 DEF PageFits, Exclusive
<1>2. SameButTurn(p, x) /\ SameButTurn(Peer(p), x)
  BY DEF SameButTurn, SameView, SameMain, SameServer, SameNet, Invalidating
<1> QED
  BY <1>1, <1>2, PageFrame

\* Reading steps of main only give turns up.
LEMMA ReadFits ==
  ASSUME TypeOK, NEW p \in Proc, MainFault(p) \/ Load(p) \/ Echo(p), NEW x \in Page,
         ProcFits(p), PageFits(p, x), PageFits(Peer(p), x)
  PROVE  PageFits(p, x)' /\ PageFits(Peer(p), x)'
<1> USE PeerType, ViewRead DEF ProcFits
<1>1. SameButTurn(p, x) /\ SameButTurn(Peer(p), x)
  BY DEF SameButTurn, SameView, SameMain, SameServer, SameNet, Invalidating
<1>2. (Turn(p, x)' => Turn(p, x)) /\ (Turn(Peer(p), x)' => Turn(Peer(p), x))
  BY DEF Turn, SameView, SameNet, SameServer, SameMain
<1> QED
  BY <1>1, <1>2, PageFrame, TurnFrame DEF PageFits

\* A step about another page.
LEMMA SameFits ==
  ASSUME NEW p \in Proc, NEW x \in Page, SameView(p, x), SameView(Peer(p), x),
         PageFits(p, x), PageFits(Peer(p), x)
  PROVE  PageFits(p, x)' /\ PageFits(Peer(p), x)'
<1> USE PeerType
<1>1. SameButTurn(p, x) /\ SameButTurn(Peer(p), x)
  BY DEF SameButTurn, SameView, SameMain, SameServer, SameNet, Invalidating
<1>2. (Turn(p, x)' => Turn(p, x)) /\ (Turn(Peer(p), x)' => Turn(Peer(p), x))
  BY DEF Turn, SameView, SameNet, SameServer, SameMain
<1> QED
  BY <1>1, <1>2, PageFrame, TurnFrame DEF PageFits

\* strncpy: until the entry is MODIFIED the texts may differ.
LEMMA StoreFits ==
  ASSUME TypeOK, NEW p \in Proc, Store(p), NEW x \in Page,
         PageFits(p, x), PageFits(Peer(p), x), ViewKnown(p, x), ViewKnown(Peer(p), x)
  PROVE  PageFits(p, x)' /\ PageFits(Peer(p), x)'
<1> USE PeerType, ViewStore
<1> DEFINE q == Peer(p)
<1>1. CASE x # job[p].page
  BY <1>1, SameFits
<1>2. CASE x = job[p].page
  <2> USE <1>2
  <2> HIDE DEF q
  <2>1. Resident(p, x) /\ Resident(p, x)' /\ (Resident(q, x)' <=> Resident(q, x))
    BY AbsentAssumption DEF q, Resident, Values, SameView, SamePage
  <2>2. /\ Turn(p, x)' <=> Turn(p, x)
        /\ Turn(q, x)' <=> Turn(q, x)
        /\ Invalidating(p, x)' <=> Invalidating(p, x)
        /\ Invalidating(q, x)' <=> Invalidating(q, x)
    BY DEF q, Turn, Invalidating, SameView, SameMain, SameServer, SameNet
  <2>3. Turn(p, x) /\ ~Turn(q, x)
    BY DEF q, Turn, PageFits, Exclusive
  <2>4. Exclusive(p, x)' /\ Exclusive(q, x)'
    BY <2>2, TurnFrame DEF q, PageFits
  <2>5. EntryFits(p, x)' /\ EntryFits(q, x)'
    BY <2>1, <2>3 DEF q, Turn, PageFits, EntryFits, SameView, SamePage, SameServer, SameMain
  <2>6. /\ HandlerFits(p, x)' /\ HandlerFits(q, x)'
        /\ InvalidationFits(p, x)' /\ InvalidationFits(q, x)'
        /\ Owner(p, x)' /\ Owner(q, x)'
        /\ Partner(p, x)' /\ Partner(q, x)'
        /\ AskFits(p, x)' /\ AskFits(q, x)' /\ ShareFits(p, x)' /\ ShareFits(q, x)'
    BY <2>2 DEF q, PageFits, HandlerFits, InvalidationFits, Owner, Partner, AskFits, ShareFits,
                SameView, SamePage, SameServer, SameHandler, SameNet, Asking, Waiting
  <2>7. AnswerFits(p, x)' /\ AnswerFits(q, x)'
    BY <2>1, <2>3
       DEF q, PageFits, AnswerFits, ViewKnown, HandlerKnown, Turn, Got, Waiting, Shares,
             SameView, SamePage, SameServer, SameHandler
  <2>8. TextFits(p, x)' /\ TextFits(q, x)'
    BY DEF q, TextFits
  <2> QED
    BY <2>4, <2>5, <2>6, <2>7, <2>8 DEF q, PageFits
<1> QED
  BY <1>1, <1>2

\* The entry becomes MODIFIED; the invalidation is owed from here on.
LEMMA MarkFits ==
  ASSUME TypeOK, NEW p \in Proc, Mark(p), NEW x \in Page, ProcFits(p),
         PageFits(p, x), PageFits(Peer(p), x), ViewKnown(p, x), ViewKnown(Peer(p), x)
  PROVE  PageFits(p, x)' /\ PageFits(Peer(p), x)'
<1>0. job[p].op = "w"
  BY DEF Mark, ProcFits
<1> USE PeerType, ViewMark, <1>0
<1> DEFINE q == Peer(p)
<1>1. CASE x # job[p].page
  BY <1>1, SameFits
<1>2. CASE x = job[p].page
  <2> USE <1>2
  <2> HIDE DEF q
  <2>1. /\ Resident(p, x) /\ Resident(p, x)' /\ (Resident(q, x)' <=> Resident(q, x))
        /\ msi[p][x] # "I" /\ msi'[p][x] = "M" /\ msi'[q][x] = msi[q][x]
        /\ Sees(q, x)' = Sees(q, x)
    BY DEF q, Resident, SameView, SamePage, PageFits, EntryFits, SameHandler, Sees, Staged,
           HandlerOn
  <2>2. /\ Turn(p, x)' <=> Turn(p, x)
        /\ Turn(q, x)' <=> Turn(q, x)
        /\ Invalidating(p, x)'
        /\ Invalidating(q, x)' <=> Invalidating(q, x)
    BY DEF q, Turn, Invalidating, SameView, SameMain, SameServer, SameNet
  <2>3. Turn(p, x) /\ ~Turn(q, x) /\ ~Invalidating(q, x)
    BY DEF q, Turn, PageFits, Exclusive, Invalidating, Covers, Writing
  <2>4. Exclusive(p, x)' /\ Exclusive(q, x)'
    BY <2>2, TurnFrame DEF q, PageFits
  <2>5. EntryFits(p, x)' /\ EntryFits(q, x)'
    BY <2>1, <2>3 DEF q, Turn, PageFits, EntryFits, SameView, SamePage, SameServer, SameMain
  <2>6. /\ HandlerFits(p, x)' /\ HandlerFits(q, x)'
        /\ InvalidationFits(p, x)' /\ InvalidationFits(q, x)'
    BY <2>1, <2>2, <2>3 DEF q, PageFits, HandlerFits, InvalidationFits,
                SameView, SamePage, SameServer, SameHandler
  <2>7. Owner(p, x)' /\ Owner(q, x)'
    BY <2>1, <2>2, <2>3 DEF q, PageFits, Owner, SameView, SameServer
  <2>8. Partner(p, x)' /\ Partner(q, x)'
    BY <2>1, <2>2, <2>3 DEF q, PageFits, Partner
  <2>9. /\ AskFits(p, x)' /\ AskFits(q, x)' /\ ShareFits(p, x)' /\ ShareFits(q, x)'
    BY <2>1, <2>2, <2>3 DEF q, PageFits, AskFits, ShareFits,
                SameView, SamePage, SameServer, SameHandler, SameNet, Asking, Waiting
  <2>10. AnswerFits(p, x)' /\ AnswerFits(q, x)'
    <3>1. Got(q, x) = <<>> /\ Got(q, x)' = <<>> /\ Got(p, x)' = Got(p, x)
      BY <2>3 DEF q, SameView, SameHandler, ViewKnown, HandlerKnown, Turn, Got, Waiting
    <3>2. (Shares(q, x)' <=> Shares(q, x)) /\ mem'[q][x] = mem[q][x]
      BY <2>1 DEF q, Shares, SameServer, SameView, SamePage
    <3>3. <<>> # <<No>> /\ \A v \in Values : <<>> \notin {<<Yes, Text(v)>>, <<Text(v)>>}
      OBVIOUS
    <3> QED
      BY <2>1, <3>1, <3>2, <3>3 DEF q, PageFits, AnswerFits
  <2>11. TextFits(p, x)' /\ TextFits(q, x)'
    BY <2>1, <2>2, <2>3 DEF q, TextFits, Shares, SameServer, Turn, PageFits
  <2> QED
    BY <2>4, <2>5, <2>6, <2>7, <2>8, <2>9, <2>10, <2>11 DEF q, PageFits
<1> QED
  BY <1>1, <1>2

\* The invalidation is on its way.
LEMMA InvalidationSent ==
  ASSUME TypeOK, BothAlive, NEW p \in Proc, SendInvalidate(p), NEW x \in Page, ProcFits(p),
         PageFits(p, x), PageFits(Peer(p), x)
  PROVE  PageFits(p, x)' /\ PageFits(Peer(p), x)'
<1>0. job[p].op = "w"
  BY DEF SendInvalidate, ProcFits
<1> USE PeerType, ViewInvalidation, <1>0
<1>1. SameButTurn(p, x) /\ SameButTurn(Peer(p), x)
  BY DEF SameButTurn, SameView, SameMain, SameServer, SameNet, Invalidating
<1>2. /\ Turn(p, x)' => Turn(p, x)
      /\ Turn(Peer(p), x)' => Turn(Peer(p), x)
  BY DEF Turn, SameView, SameNet, SameServer, SameMain
<1> QED
  BY <1>1, <1>2, PageFrame, TurnFrame DEF PageFits

\* The sequences an answer may be are different.
LEMMA AnswersDiffer ==
  ASSUME NEW v \in Values, NEW w \in Values
  PROVE  /\ <<>> # <<No>> /\ <<>> # <<Yes>> /\ <<>> # <<Text(v)>> /\ <<>> # <<Yes, Text(v)>>
         /\ <<Yes>> # <<No>> /\ <<Yes>> # <<Text(v)>> /\ <<Yes>> # <<Yes, Text(v)>>
         /\ <<No>> # <<Text(v)>> /\ <<No>> # <<Yes, Text(v)>>
         /\ <<Text(v)>> # <<Yes, Text(w)>>
         /\ (<<Text(v)>> = <<Text(w)>> => v = w)
         /\ (<<Yes, Text(v)>> = <<Yes, Text(w)>> => v = w)
         /\ Append(<<>>, No) = <<No>> /\ Append(<<>>, Yes) = <<Yes>>
<1>1. /\ No \in Reply /\ Yes \in Reply /\ Text(v) \in Reply /\ Text(w) \in Reply
      /\ No.kind = "0" /\ Yes.kind = "1" /\ Text(v).kind = "page"
      /\ Text(v).text = v /\ Text(w).text = w
  BY ReplyShapes
<1>2. Append(<<>>, No) = <<No>> /\ Append(<<>>, Yes) = <<Yes>>
  BY <1>1, ShortQueues
<1>3. No # Yes /\ No # Text(v) /\ Yes # Text(v)
  BY <1>1
<1>4. Text(v) = Text(w) => v = w
  BY <1>1
<1> QED
  BY <1>2, <1>3, <1>4

\* The first byte of an answer: its reader is waiting, and has nothing yet.
LEMMA ServeFits ==
  ASSUME TypeOK, BothAlive, NEW p \in Proc, ServeInvalid(p) \/ ServeValid(p), NEW x \in Page,
         PageFits(p, x), PageFits(Peer(p), x), ViewKnown(p, x),
         \A y \in Page : ViewKnown(Peer(p), y), ViewKnown(Peer(p), x)'
  PROVE  PageFits(p, x)' /\ PageFits(Peer(p), x)'
<1> USE PeerType, ViewServe
<1> DEFINE q == Peer(p)
<1>0. \A y \in Page : y = spg'[p] => /\ Has(q, "F", y) /\ HandlerOn(q, y) = "await"
                                     /\ fpg[q] = y /\ resp[q] = <<>> /\ Got(q, y) = <<>>
  BY DEF ViewKnown, FetchKnown, HandlerOn, Got, Waiting
<1>1. CASE x # spg'[p]
  <2>1. fpg[q] # x
    BY <1>0, <1>1
  <2>2. Got(q, x) = <<>> /\ Got(q, x)' = <<>>
    <3>1. HandlerOn(q, x) = "poll"
      BY <2>1 DEF HandlerOn
    <3> QED
      BY <3>1 DEF Got, Waiting
  <2> QED
    BY <1>1, <2>2, SameFits DEF SameView, SameHandler
<1>2. CASE x = spg'[p]
  <2> USE <1>2
  <2> HIDE DEF q
  <2>1. /\ Has(q, "F", x) /\ Turn(q, x) /\ ~Turn(p, x)
        /\ HandlerOn(q, x) = "await" /\ HandlerOn(q, x)' = "await" /\ msi[q][x] = "I"
        /\ HandlerOn(p, x) = "poll" /\ HandlerOn(p, x)' = "poll"
        /\ ServerOn(p, x) = "read" /\ ServerOn(q, x) = "read" /\ ServerOn(q, x)' = "read"
        /\ msi[p][x] # "S" /\ ServerOn(p, x) # "share"
    BY <1>0 DEF q, Turn, PageFits, Exclusive, HandlerFits, AskFits, Asking, ViewKnown,
                HandlerKnown, SameHandler, SameServer
  <2>2. /\ msi'[p][x] = msi[p][x] /\ mem'[p][x] = mem[p][x]
        /\ msi'[q][x] = msi[q][x] /\ mem'[q][x] = mem[q][x]
        /\ Resident(p, x)' <=> Resident(p, x)
        /\ Resident(q, x)' <=> Resident(q, x)
        /\ Marking(p, x)' <=> Marking(p, x)
        /\ Marking(q, x)' <=> Marking(q, x)
    BY DEF q, SamePage, Resident, SameMain
  <2>3. /\ Turn(p, x)' <=> Turn(p, x)
        /\ Invalidating(p, x)' <=> Invalidating(p, x)
        /\ Invalidating(q, x)' <=> Invalidating(q, x)
    BY <2>1 DEF q, Turn, Invalidating, SameMain, SameServer, SameNet
  <2>4. \/ /\ msi[p][x] = "I" /\ ServerOn(p, x)' = "share" /\ Got(q, x)' = <<No>>
        \/ /\ msi[p][x] = "M" /\ ServerOn(p, x)' = "page" /\ Got(q, x)' = <<Yes>>
    <3>1. Got(q, x)' = resp'[q]
      BY <2>1 DEF Got, Waiting
    <3> QED
      BY <1>0, <2>1, <3>1, AnswersDiffer DEF q, TypeOK, Values
  <2>5. ~Asking(q, x)' /\ ~Asking(p, x) /\ ~Asking(p, x)'
    BY <2>1, <2>4, AnswersDiffer DEF q, Asking, ViewKnown, FetchKnown, Turn, SameNet, Values
  <2>6. Got(p, x)' = <<>>
    BY <2>1 DEF Got, Waiting
  <2>7. Exclusive(p, x)' /\ Exclusive(q, x)'
    BY <2>1, <2>3 DEF q, Exclusive
  <2>8. EntryFits(p, x)' /\ EntryFits(q, x)'
    BY <2>1, <2>2, <2>4 DEF q, PageFits, EntryFits
  <2>9. /\ HandlerFits(p, x)' /\ HandlerFits(q, x)'
        /\ InvalidationFits(p, x)' /\ InvalidationFits(q, x)'
    BY <2>1, <2>2, <2>3 DEF q, PageFits, HandlerFits, InvalidationFits
  <2>10. /\ Owner(p, x)' /\ Owner(q, x)' /\ Partner(p, x)' /\ Partner(q, x)'
    BY <2>1, <2>2, <2>3 DEF q, PageFits, Owner, Partner
  <2>11. /\ AskFits(p, x)' /\ AskFits(q, x)' /\ ShareFits(p, x)' /\ ShareFits(q, x)'
    BY <2>1, <2>2, <2>5 DEF q, AskFits, ShareFits, Waiting
  <2>12. AnswerFits(p, x)' /\ AnswerFits(q, x)'
    <3>1. Got(q, x)' = <<No>> => Shares(p, x)' /\ ~Resident(p, x)'
      BY <2>2, <2>4, AnswersDiffer DEF PageFits, EntryFits, Shares, Values
    <3>2. \A v \in Values : Got(q, x)' \notin {<<Yes, Text(v)>>, <<Text(v)>>}
      BY <2>4, AnswersDiffer
    <3> QED
      BY <2>6, <3>1, <3>2, AnswersDiffer DEF q, AnswerFits, Values
  <2>13. TextFits(p, x)' /\ TextFits(q, x)'
    BY <2>1, <2>2 DEF q, TextFits
  <2> QED
    BY <2>7, <2>8, <2>9, <2>10, <2>11, <2>12, <2>13 DEF q, PageFits
<1> QED
  BY <1>1, <1>2

\* The page itself; the server is about to share it.
LEMMA SendPageFits ==
  ASSUME TypeOK, BothAlive, NEW p \in Proc, SendPage(p), NEW x \in Page,
         PageFits(p, x), PageFits(Peer(p), x), ViewKnown(p, x),
         \A y \in Page : ViewKnown(Peer(p), y), ViewKnown(Peer(p), x)'
  PROVE  PageFits(p, x)' /\ PageFits(Peer(p), x)'
<1> USE PeerType, ViewSendPage
<1> DEFINE q == Peer(p)
<1>0. \A y \in Page : y = spg[p] =>
         /\ fpg[q] = y /\ Got(q, y) = resp[q]
         /\ \/ HandlerOn(q, y) = "await" /\ resp[q] = <<Yes>>
            \/ HandlerOn(q, y) = "awaitpage" /\ resp[q] = <<>>
  BY DEF ViewKnown, FetchKnown, HandlerOn, Got, Waiting
<1>1. CASE x # spg[p]
  <2>1. fpg[q] # x
    BY <1>0, <1>1 DEF TypeOK
  <2>2. Got(q, x) = <<>> /\ Got(q, x)' = <<>>
    <3>1. HandlerOn(q, x) = "poll"
      BY <2>1 DEF HandlerOn
    <3> QED
      BY <3>1 DEF Got, Waiting
  <2> QED
    BY <1>1, <2>2, SameFits DEF SameView, SameHandler
<1>2. CASE x = spg[p]
  <2> USE <1>2
  <2> HIDE DEF q
  <2>1. /\ Turn(q, x) /\ ~Turn(p, x) /\ msi[p][x] = "M"
        /\ Waiting(q, x) /\ Waiting(q, x)' /\ HandlerOn(q, x)' # "copy"
        /\ HandlerOn(q, x)' = HandlerOn(q, x) /\ msi[q][x] = "I"
        /\ HandlerOn(p, x) = "poll" /\ HandlerOn(p, x)' = "poll"
        /\ ServerOn(p, x) = "page" /\ ServerOn(p, x)' = "share"
        /\ ServerOn(q, x) = "read" /\ ServerOn(q, x)' = "read"
    BY <1>0 DEF q, Turn, PageFits, Exclusive, EntryFits, HandlerFits, ViewKnown,
                HandlerKnown, SameHandler, SameServer, Waiting
  <2>2. /\ msi'[p][x] = msi[p][x] /\ mem'[p][x] = mem[p][x]
        /\ msi'[q][x] = msi[q][x] /\ mem'[q][x] = mem[q][x]
        /\ Resident(p, x)' <=> Resident(p, x)
        /\ Resident(q, x)' <=> Resident(q, x)
        /\ Marking(p, x)' <=> Marking(p, x)
        /\ Marking(q, x)' <=> Marking(q, x)
    BY DEF q, SamePage, Resident, SameMain
  <2>3. /\ Turn(p, x)' <=> Turn(p, x)
        /\ Invalidating(p, x)' <=> Invalidating(p, x)
        /\ Invalidating(q, x)' <=> Invalidating(q, x)
    BY <2>1 DEF q, Turn, Invalidating, SameMain, SameServer, SameNet
  <2>4. /\ mem[p][x] \in Values
        /\ Got(q, x)' \in {<<Yes, Text(mem[p][x])>>, <<Text(mem[p][x])>>}
    <3>1. Got(q, x)' = resp'[q]
      BY <2>1 DEF Got
    <3>2. resp'[q] = Append(resp[q], Text(mem[p][x])) /\ mem[p][x] \in Values
      BY DEF q
    <3>3. PICK v \in Values : mem[p][x] = v
      BY <3>2
    <3>4. Append(<<>>, Text(v)) = <<Text(v)>> /\ Append(<<Yes>>, Text(v)) = <<Yes, Text(v)>>
      BY ReplyQueues
    <3>5. resp[q] = <<>> \/ resp[q] = <<Yes>>
      BY <1>0 DEF q
    <3> QED
      BY <3>1, <3>2, <3>3, <3>4, <3>5
  <2>5. ~Asking(q, x)' /\ ~Asking(p, x) /\ ~Asking(p, x)'
    BY <2>1, <2>4, AnswersDiffer DEF q, Asking, ViewKnown, FetchKnown, Turn, SameNet, Waiting
  <2>6. Got(p, x)' = <<>>
    BY <2>1 DEF Got, Waiting
  <2>7. Exclusive(p, x)' /\ Exclusive(q, x)'
    BY <2>1, <2>3 DEF q, Exclusive
  <2>8. EntryFits(p, x)' /\ EntryFits(q, x)'
    BY <2>1, <2>2 DEF q, PageFits, EntryFits
  <2>9. /\ HandlerFits(p, x)' /\ HandlerFits(q, x)'
        /\ InvalidationFits(p, x)' /\ InvalidationFits(q, x)'
    BY <2>1, <2>2, <2>3 DEF q, PageFits, HandlerFits, InvalidationFits, Waiting
  <2>10. /\ Owner(p, x)' /\ Owner(q, x)' /\ Partner(p, x)' /\ Partner(q, x)'
    BY <2>1, <2>2, <2>3 DEF q, PageFits, Owner, Partner
  <2>11. /\ AskFits(p, x)' /\ AskFits(q, x)' /\ ShareFits(p, x)' /\ ShareFits(q, x)'
    BY <2>1, <2>2, <2>5 DEF q, AskFits, ShareFits
  <2>12. AnswerFits(p, x)' /\ AnswerFits(q, x)'
    <3>1. Shares(p, x)' /\ mem'[p][x] = mem[p][x]
      BY <2>1, <2>2 DEF Shares
    <3>2. Got(q, x)' # <<No>>
      BY <2>4, AnswersDiffer
    <3>3. ASSUME NEW v \in Values, Got(q, x)' \in {<<Yes, Text(v)>>, <<Text(v)>>}
          PROVE  mem[p][x] = v
      BY <2>4, <3>3, AnswersDiffer
    <3> QED
      BY <2>6, <3>1, <3>2, <3>3, AnswersDiffer DEF q, AnswerFits, Values
  <2>13. TextFits(p, x)' /\ TextFits(q, x)'
    BY <2>1, <2>2 DEF q, TextFits
  <2> QED
    BY <2>7, <2>8, <2>9, <2>10, <2>11, <2>12, <2>13 DEF q, PageFits
<1> QED
  BY <1>1, <1>2

\* A page that is not p's turn is untouched by p's main and p's handler.
LEMMA IdleFacts ==
  ASSUME NEW p \in Proc, NEW x \in Page, ~Turn(p, x), ViewKnown(p, x)
  PROVE  /\ HandlerOn(p, x) = "poll" /\ Got(p, x) = <<>> /\ ~Waiting(p, x) /\ ~Asking(p, x)
         /\ ~Marking(p, x) /\ ServerOn(Peer(p), x) = "read" /\ ~Invalidating(p, x)
  BY DEF Turn, ViewKnown, HandlerKnown, Got, Waiting, Asking, Marking, Invalidating, Writing,
         Covers

\* The server writes the entry: SHARED after a fetch, INVALID after an invalidation.
LEMMA ServedFits ==
  ASSUME TypeOK, NEW p \in Proc, Share(p) \/ Invalidate(p), NEW x \in Page,
         PageFits(p, x), PageFits(Peer(p), x), ViewKnown(p, x), ViewKnown(Peer(p), x)
  PROVE  PageFits(p, x)' /\ PageFits(Peer(p), x)'
<1> USE PeerType, ViewServed
<1> DEFINE q == Peer(p)
<1>1. CASE x # spg[p]
  BY <1>1, SameFits DEF SameView, SamePage, SameServer
<1>2. CASE x = spg[p]
  <2> USE <1>2
  <2> HIDE DEF q
  <2>1. Turn(q, x) /\ ~Turn(p, x)
    BY DEF q, Turn, PageFits, Exclusive
  <2>2. /\ HandlerOn(p, x) = "poll" /\ Got(p, x) = <<>> /\ ~Waiting(p, x) /\ ~Asking(p, x)
        /\ ~Marking(p, x) /\ ServerOn(q, x) = "read" /\ ~Invalidating(p, x)
    BY <2>1, IdleFacts DEF q
  <2>3. /\ msi'[q][x] = msi[q][x]
        /\ HandlerOn(p, x)' = "poll" /\ HandlerOn(q, x)' = HandlerOn(q, x)
        /\ Got(p, x)' = <<>> /\ Got(q, x)' = Got(q, x)
        /\ ~Marking(p, x)' /\ (Marking(q, x)' <=> Marking(q, x))
        /\ ServerOn(p, x)' = "read" /\ ServerOn(q, x)' = "read"
        /\ mem'[p][x] = mem[p][x] /\ mem'[q][x] = mem[q][x]
        /\ ~Asking(p, x)' /\ (Asking(q, x)' <=> Asking(q, x))
        /\ ~Waiting(p, x)' /\ (Waiting(q, x)' <=> Waiting(q, x))
    BY <2>2
       DEF q, SameView, SamePage, SameHandler, SameServer, SameMain, SameNet, Asking,
           Waiting
  <2>4. /\ Resident(p, x)' <=> Resident(p, x)
        /\ Resident(q, x)' <=> Resident(q, x)
        /\ Sees(p, x)' = Sees(p, x) /\ Sees(q, x)' = Sees(q, x)
    BY <2>3 DEF q, Resident, Sees, SameView, SameHandler, Staged, HandlerOn
  <2>5. /\ ~Invalidating(p, x)'
        /\ Invalidating(q, x)' => Invalidating(q, x)
        /\ Invalidating(q, x) => Invalidating(q, x)' \/ ServerOn(p, x) = "inval"
        /\ Turn(p, x)' => Turn(p, x)
        /\ Turn(q, x)' => Turn(q, x)
    BY <2>2, <2>3 DEF q, Invalidating, Turn, SameView, SameMain, SameNet
  <2>6. Exclusive(p, x)' /\ Exclusive(q, x)'
    BY <2>5, TurnFrame DEF q, PageFits
  <2>7. AnswerFits(p, x)'
    BY <2>3, AnswersDiffer DEF AnswerFits, Values
  <2>8. CASE ServerOn(p, x) = "share" /\ msi'[p][x] = "S"
    <3>1. /\ msi[q][x] # "I" \/ Waiting(q, x)
          /\ msi[q][x] = "M" => Invalidating(q, x)
          /\ ~Asking(q, x)
      BY <2>2, <2>8 DEF q, PageFits, ShareFits, Owner, AskFits
    <3>2. EntryFits(p, x)' /\ EntryFits(q, x)'
      BY <2>2, <2>3, <2>4, <2>8 DEF q, PageFits, EntryFits
    <3>3. /\ HandlerFits(p, x)' /\ HandlerFits(q, x)'
          /\ InvalidationFits(p, x)' /\ InvalidationFits(q, x)'
      BY <2>3, <2>5 DEF q, PageFits, HandlerFits, InvalidationFits
    <3>4. Owner(p, x)' /\ Owner(q, x)' /\ Partner(p, x)' /\ Partner(q, x)'
      BY <2>3, <2>5, <2>8, <3>1 DEF q, TypeOK, Owner, Partner
    <3>5. /\ AskFits(p, x)' /\ AskFits(q, x)' /\ ShareFits(p, x)' /\ ShareFits(q, x)'
      BY <2>3, <3>1 DEF q, AskFits, ShareFits
    <3>6. AnswerFits(q, x)'
      BY <2>3, <2>4, <2>8 DEF q, PageFits, AnswerFits, Shares
    <3>7. TextFits(p, x)' /\ TextFits(q, x)'
      BY <2>2, <2>3, <2>4, <2>8 DEF q, PageFits, TextFits, Shares
    <3> QED
      BY <2>6, <2>7, <3>2, <3>3, <3>4, <3>5, <3>6, <3>7 DEF q, PageFits
  <2>9. CASE ServerOn(p, x) = "inval" /\ msi'[p][x] = "I"
    <3>1. msi[q][x] = "M" /\ ~Resident(p, x)
      BY <2>9 DEF q, PageFits, InvalidationFits, Invalidating, EntryFits
    <3>2. ~Waiting(q, x) /\ Got(q, x) = <<>>
      BY <3>1 DEF q, PageFits, HandlerFits, Waiting, Got
    <3>3. EntryFits(p, x)' /\ EntryFits(q, x)'
      BY <2>2, <2>3, <2>4, <2>9, <3>1 DEF q, PageFits, EntryFits
    <3>4. /\ HandlerFits(p, x)' /\ HandlerFits(q, x)'
          /\ InvalidationFits(p, x)' /\ InvalidationFits(q, x)'
      BY <2>3, <2>5 DEF q, PageFits, HandlerFits, InvalidationFits
    <3>5. Owner(p, x)' /\ Owner(q, x)' /\ Partner(p, x)' /\ Partner(q, x)'
      BY <2>3, <2>9, <3>1 DEF q, Owner, Partner
    <3>6. /\ AskFits(p, x)' /\ AskFits(q, x)' /\ ShareFits(p, x)' /\ ShareFits(q, x)'
      BY <2>3, <2>9 DEF q, AskFits, ShareFits
    <3>7. AnswerFits(q, x)'
      BY <2>3, <3>2, AnswersDiffer DEF q, AnswerFits, Values
    <3>8. TextFits(p, x)' /\ TextFits(q, x)'
      BY <2>3, <2>9, <3>1 DEF q, TextFits
    <3> QED
      BY <2>6, <2>7, <3>3, <3>4, <3>5, <3>6, <3>7, <3>8 DEF q, PageFits
  <2> QED
    BY <2>8, <2>9
<1> QED
  BY <1>1, <1>2

\* The page is dropped while its entry still stands.
LEMMA DropFits ==
  ASSUME TypeOK, NEW p \in Proc, Drop(p), NEW x \in Page,
         PageFits(p, x), PageFits(Peer(p), x), ViewKnown(p, x), ViewKnown(Peer(p), x)
  PROVE  PageFits(p, x)' /\ PageFits(Peer(p), x)'
<1> USE PeerType, ViewDrop
<1> DEFINE q == Peer(p)
<1>1. CASE x # spg'[p]
  BY <1>1, SameFits
<1>2. CASE x = spg'[p]
  <2> USE <1>2
  <2> HIDE DEF q
  <2>1. Turn(q, x) /\ ~Turn(p, x) /\ Invalidating(q, x) /\ msi[q][x] = "M"
    BY DEF q, Turn, PageFits, Exclusive, Invalidating, InvalidationFits
  <2>2. /\ HandlerOn(p, x) = "poll" /\ Got(p, x) = <<>> /\ ~Waiting(p, x) /\ ~Asking(p, x)
        /\ ~Marking(p, x) /\ ServerOn(q, x) = "read" /\ ~Invalidating(p, x)
    BY <2>1, IdleFacts DEF q
  <2>3. ~Waiting(q, x) /\ Got(q, x) = <<>> /\ ~Asking(q, x)
    BY <2>1 DEF q, PageFits, HandlerFits, Waiting, Got, Asking, ViewKnown, FetchKnown
  <2>4. /\ msi'[p][x] = msi[p][x] /\ msi'[q][x] = "M"
        /\ HandlerOn(p, x)' = "poll" /\ HandlerOn(q, x)' = HandlerOn(q, x)
        /\ Got(p, x)' = <<>> /\ Got(q, x)' = <<>>
        /\ ~Marking(p, x)' /\ (Marking(q, x)' <=> Marking(q, x))
        /\ ServerOn(p, x)' = "inval" /\ ServerOn(p, x) = "read" /\ ServerOn(q, x)' = "read"
        /\ mem'[p][x] = Absent /\ mem'[q][x] = mem[q][x]
        /\ ~Asking(p, x)' /\ ~Asking(q, x)' /\ ~Waiting(p, x)' /\ ~Waiting(q, x)'
    BY <2>1, <2>2, <2>3
       DEF q, SamePage, SameHandler, SameServer, SameMain, SameNet, Asking, Waiting
  <2>5. /\ ~Resident(p, x)' /\ (Resident(q, x)' <=> Resident(q, x))
        /\ ~Invalidating(p, x)' /\ Invalidating(q, x)' /\ ~Turn(p, x)' /\ msi[p][x] # "M"
    BY <2>1, <2>2, <2>4 DEF q, Resident, Invalidating, Turn, SameMain, SameNet, PageFits, Owner
  <2>6. Exclusive(p, x)' /\ Exclusive(q, x)'
    BY <2>5 DEF q, Exclusive
  <2>7. EntryFits(p, x)' /\ EntryFits(q, x)'
    BY <2>1, <2>2, <2>4, <2>5 DEF q, PageFits, EntryFits
  <2>8. /\ HandlerFits(p, x)' /\ HandlerFits(q, x)'
        /\ InvalidationFits(p, x)' /\ InvalidationFits(q, x)'
    BY <2>1, <2>4, <2>5 DEF q, PageFits, HandlerFits, InvalidationFits
  <2>9. Owner(p, x)' /\ Owner(q, x)' /\ Partner(p, x)' /\ Partner(q, x)'
    BY <2>4, <2>5 DEF q, Owner, Partner
  <2>10. /\ AskFits(p, x)' /\ AskFits(q, x)' /\ ShareFits(p, x)' /\ ShareFits(q, x)'
    BY <2>4 DEF q, AskFits, ShareFits
  <2>11. AnswerFits(p, x)' /\ AnswerFits(q, x)'
    BY <2>4, AnswersDiffer DEF q, AnswerFits, Values
  <2>12. TextFits(p, x)' /\ TextFits(q, x)'
    BY <2>4 DEF q, TextFits, Shares
  <2> QED
    BY <2>6, <2>7, <2>8, <2>9, <2>10, <2>11, <2>12 DEF q, PageFits
<1> QED
  BY <1>1, <1>2

\* A fault on an INVALID page: the peer's entry is not SHARED.
LEMMA TakeFaultFits ==
  ASSUME TypeOK, NEW p \in Proc, TakeFault(p, "main"), NEW x \in Page,
         ProcFits(p), FaultInv(p),
         PageFits(p, x), PageFits(Peer(p), x), ViewKnown(p, x), ViewKnown(Peer(p), x)
  PROVE  PageFits(p, x)' /\ PageFits(Peer(p), x)'
<1>0. fpc[p] = "poll" /\ buf[p] = Zero
  BY DEF TakeFault, ProcFits
<1> USE PeerType, ViewTakeFault, <1>0
<1> DEFINE q == Peer(p)
<1>1. CASE x # job[p].page
  BY <1>1, SameFits DEF SameView, SameHandler
<1>2. CASE x = job[p].page
  <2> USE <1>2
  <2> HIDE DEF q
  <2>1. Covers(p, x) /\ mpc[p] # "mark" /\ ~Resident(p, x)
    BY DEF TakeFault, FaultInv, Parked, SleeperAccounted, PageOf, Covers, ProcFits
  <2>2. Turn(p, x) /\ ~Turn(q, x) /\ ServerOn(p, x) = "read" /\ ~Marking(p, x)
    BY <2>1 DEF q, Turn, PageFits, Exclusive, Marking
  <2>3. /\ HandlerOn(q, x) = "poll" /\ ~Waiting(p, x) /\ ~Asking(q, x)
        /\ HandlerOn(p, x)' = IF msi[p][x] = "I" THEN "fetch" ELSE "copy"
    BY <2>2, IdleFacts DEF q, Waiting
  <2>4. /\ msi'[p][x] = msi[p][x] /\ msi'[q][x] = msi[q][x]
        /\ mem'[p][x] = mem[p][x] /\ mem'[q][x] = mem[q][x]
        /\ ServerOn(p, x)' = ServerOn(p, x) /\ ServerOn(q, x)' = ServerOn(q, x)
        /\ HandlerOn(q, x)' = HandlerOn(q, x)
        /\ Got(p, x)' = <<>> /\ Got(q, x)' = Got(q, x)
        /\ Marking(p, x)' <=> Marking(p, x)
        /\ Marking(q, x)' <=> Marking(q, x)
        /\ Asking(q, x)' <=> Asking(q, x)
        /\ Has(p, "F", x)' <=> Has(p, "F", x)
        /\ ~Waiting(p, x)' /\ (Waiting(q, x)' <=> Waiting(q, x))
    BY <2>3
       DEF q, SameView, SamePage, SameHandler, SameServer, SameMain, SameNet, Asking,
           Waiting
  <2>5. /\ Resident(p, x)' <=> Resident(p, x)
        /\ Resident(q, x)' <=> Resident(q, x)
        /\ Sees(p, x)' = Sees(p, x) /\ Sees(q, x)' = Sees(q, x)
    BY <2>3, <2>4 DEF q, Resident, Sees, SameView, SameHandler, Staged, HandlerOn
  <2>6. /\ Invalidating(p, x)' <=> Invalidating(p, x)
        /\ Invalidating(q, x)' <=> Invalidating(q, x)
        /\ Turn(p, x)' <=> Turn(p, x)
        /\ Turn(q, x)' <=> Turn(q, x)
    BY <2>4 DEF q, Invalidating, Turn, SameView, SameMain, SameNet
  <2>7. Exclusive(p, x)' /\ Exclusive(q, x)'
    BY <2>6, TurnFrame DEF q, PageFits
  <2>8. EntryFits(p, x)' /\ EntryFits(q, x)'
    BY <2>4, <2>5 DEF q, PageFits, EntryFits
  <2>9. /\ HandlerFits(p, x)' /\ HandlerFits(q, x)'
        /\ InvalidationFits(p, x)' /\ InvalidationFits(q, x)'
    BY <2>3, <2>4, <2>6 DEF q, PageFits, HandlerFits, InvalidationFits
  <2>10. Owner(p, x)' /\ Owner(q, x)' /\ Partner(p, x)' /\ Partner(q, x)'
    BY <2>3, <2>4, <2>6 DEF q, PageFits, Owner, Partner
  <2>11. AskFits(p, x)' /\ AskFits(q, x)'
    <3>1. msi[p][x] = "I" => msi[q][x] # "S" /\ ServerOn(q, x) # "share"
      BY <2>2, <2>3 DEF q, PageFits, Partner, ShareFits, InvalidationFits
    <3>2. Asking(p, x)' => msi[p][x] = "I" \/ Asking(p, x)
      BY <2>3, <2>4 DEF Asking
    <3> QED
      BY <2>4, <3>1, <3>2 DEF q, PageFits, AskFits
  <2>12. ShareFits(p, x)' /\ ShareFits(q, x)'
    BY <2>3, <2>4 DEF q, PageFits, ShareFits
  <2>13. AnswerFits(p, x)' /\ AnswerFits(q, x)'
    <3>1. Shares(p, x)' <=> Shares(p, x)
      BY <2>4 DEF Shares
    <3> QED
      BY <2>4, <2>5, <3>1, AnswersDiffer DEF q, PageFits, AnswerFits, Values
  <2>14. TextFits(p, x)' /\ TextFits(q, x)'
    BY <2>4, <2>5 DEF q, PageFits, TextFits, Shares
  <2> QED
    BY <2>7, <2>8, <2>9, <2>10, <2>11, <2>12, <2>13, <2>14 DEF q, PageFits
<1> QED
  BY <1>1, <1>2

\* The fetch is on its way, and nothing is read before its answer.
LEMMA FetchFits ==
  ASSUME TypeOK, BothAlive, FetchMatches, NEW p \in Proc, SendFetch(p), NEW x \in Page,
         PageFits(p, x), PageFits(Peer(p), x), ViewKnown(p, x), ViewKnown(Peer(p), x)
  PROVE  PageFits(p, x)' /\ PageFits(Peer(p), x)'
<1> USE PeerType, ViewFetch
<1> DEFINE q == Peer(p)
<1>0. resp[p] = <<>>
  BY AnswersOf DEF SendFetch, FetchMatches, FetchMatched, ReplyAwaited, BothAlive
<1>1. CASE x # fpg[p]
  BY <1>1, SameFits
<1>2. CASE x = fpg[p]
  <2> USE <1>2
  <2> HIDE DEF q
  <2>1. /\ HandlerOn(p, x) = "fetch" /\ HandlerOn(p, x)' = "await" /\ Got(p, x)' = <<>>
        /\ ~Waiting(p, x) /\ Waiting(p, x)' /\ Asking(p, x) /\ msi[p][x] = "I"
    BY <1>0 DEF Waiting, Asking, PageFits, HandlerFits
  <2>2. Turn(p, x) /\ ~Turn(q, x) /\ ServerOn(p, x) = "read" /\ Turn(p, x)'
    BY <2>1 DEF q, Turn, PageFits, Exclusive, ViewKnown, HandlerKnown, SameMain
  <2>3. /\ msi'[p][x] = msi[p][x] /\ msi'[q][x] = msi[q][x]
        /\ mem'[p][x] = mem[p][x] /\ mem'[q][x] = mem[q][x]
        /\ ServerOn(p, x)' = ServerOn(p, x) /\ ServerOn(q, x)' = ServerOn(q, x)
        /\ HandlerOn(q, x)' = HandlerOn(q, x) /\ Got(q, x)' = Got(q, x)
        /\ Marking(p, x)' <=> Marking(p, x)
        /\ Marking(q, x)' <=> Marking(q, x)
        /\ Asking(q, x)' <=> Asking(q, x)
        /\ Waiting(q, x)' <=> Waiting(q, x)
    BY DEF q, SameView, SamePage, SameHandler, SameServer, SameMain, SameNet, Asking, Waiting
  <2>4. /\ Resident(p, x)' <=> Resident(p, x)
        /\ Resident(q, x)' <=> Resident(q, x)
        /\ Sees(p, x)' = Sees(p, x) /\ Sees(q, x)' = Sees(q, x)
        /\ Shares(p, x)' <=> Shares(p, x)
    BY <2>1, <2>3 DEF q, Resident, Sees, SameView, SameHandler, Staged, HandlerOn, Shares
  <2>5. /\ Invalidating(p, x)' <=> Invalidating(p, x)
        /\ Invalidating(q, x)' <=> Invalidating(q, x)
        /\ Turn(q, x)' <=> Turn(q, x)
    BY <2>3 DEF q, Invalidating, Turn, SameView, SameMain, SameNet
  <2>6. Exclusive(p, x)' /\ Exclusive(q, x)'
    BY <2>2, <2>5 DEF q, Exclusive
  <2>7. EntryFits(p, x)' /\ EntryFits(q, x)'
    BY <2>3, <2>4 DEF q, PageFits, EntryFits
  <2>8. /\ HandlerFits(p, x)' /\ HandlerFits(q, x)'
        /\ InvalidationFits(p, x)' /\ InvalidationFits(q, x)'
    BY <2>1, <2>3, <2>5 DEF q, PageFits, HandlerFits, InvalidationFits
  <2>9. Owner(p, x)' /\ Owner(q, x)' /\ Partner(p, x)' /\ Partner(q, x)'
    BY <2>1, <2>3, <2>5 DEF q, PageFits, Owner, Partner
  <2>10. /\ AskFits(p, x)' /\ AskFits(q, x)' /\ ShareFits(p, x)' /\ ShareFits(q, x)'
    BY <2>1, <2>3 DEF q, PageFits, AskFits, ShareFits
  <2>11. AnswerFits(p, x)' /\ AnswerFits(q, x)'
    BY <2>1, <2>3, <2>4, AnswersDiffer DEF q, PageFits, AnswerFits, Values
  <2>12. TextFits(p, x)' /\ TextFits(q, x)'
    BY <2>3, <2>4 DEF q, PageFits, TextFits, Shares
  <2> QED
    BY <2>6, <2>7, <2>8, <2>9, <2>10, <2>11, <2>12 DEF q, PageFits
<1> QED
  BY <1>1, <1>2

\* The answer is read: the entry becomes SHARED and the text is staged.
LEMMA GetFits ==
  ASSUME TypeOK, NEW p \in Proc, GetInvalid(p) \/ GetValid(p) \/ GetPage(p), NEW x \in Page,
         ProcFits(p),
         PageFits(p, x), PageFits(Peer(p), x), ViewKnown(p, x), ViewKnown(Peer(p), x)
  PROVE  PageFits(p, x)' /\ PageFits(Peer(p), x)'
<1> USE PeerType, ViewGet
<1> DEFINE q == Peer(p)
<1>1. CASE x # fpg[p]
  BY <1>1, SameFits
<1>2. CASE x = fpg[p]
  <2> USE <1>2
  <2> HIDE DEF q
  <2>0. buf[p] = Zero
    BY DEF ProcFits, GetInvalid, GetValid, GetPage, Reading
  <2>1. /\ Waiting(p, x) /\ msi[p][x] = "I" /\ ~Resident(p, x)
        /\ Turn(p, x) /\ ~Turn(q, x) /\ ServerOn(p, x) = "read"
        /\ ~Has(p, "F", x) /\ ~Invalidating(p, x) /\ ~Marking(p, x)
    BY DEF q, Waiting, PageFits, HandlerFits, Turn, Exclusive, ViewKnown, HandlerKnown,
           FetchKnown, InvalidationFits, EntryFits
  <2>2. /\ HandlerOn(q, x) = "poll" /\ Got(q, x) = <<>> /\ ~Asking(q, x) /\ ~Waiting(q, x)
    BY <2>1, IdleFacts DEF q
  <2>3. /\ msi'[q][x] = msi[q][x]
        /\ mem'[p][x] = mem[p][x] /\ mem'[q][x] = mem[q][x]
        /\ ServerOn(p, x)' = "read" /\ ServerOn(q, x)' = ServerOn(q, x)
        /\ HandlerOn(q, x)' = "poll" /\ Got(q, x)' = <<>>
        /\ ~Marking(p, x)'
        /\ Marking(q, x)' <=> Marking(q, x)
        /\ ~Asking(q, x)' /\ ~Waiting(q, x)' /\ ~Has(p, "F", x)'
    BY <2>1, <2>2
       DEF q, SameView, SamePage, SameHandler, SameServer, SameMain, SameNet, Asking, Waiting
  <2>4. /\ ~Resident(p, x)'
        /\ Resident(q, x)' <=> Resident(q, x)
        /\ Sees(q, x)' = Sees(q, x) /\ Sees(p, x)' = Staged(p, x)'
        /\ Shares(q, x)' <=> Shares(q, x)
    BY <2>1, <2>3 DEF q, Resident, Sees, SameView, SameHandler, Staged, HandlerOn, Shares
  <2>5. /\ ~Invalidating(p, x)'
        /\ Invalidating(q, x)' <=> Invalidating(q, x)
        /\ Turn(p, x)' <=> Turn(p, x)
        /\ Turn(q, x)' <=> Turn(q, x)
    BY <2>1, <2>3 DEF q, Invalidating, Turn, SameView, SameMain, SameNet, SameServer
  <2>6. Exclusive(p, x)' /\ Exclusive(q, x)'
    BY <2>5, TurnFrame DEF q, PageFits
  <2>7. /\ EntryFits(q, x)' /\ HandlerFits(q, x)' /\ ShareFits(p, x)' /\ AnswerFits(q, x)'
        /\ InvalidationFits(p, x)' /\ InvalidationFits(q, x)' /\ AskFits(q, x)'
    BY <2>3, <2>4, <2>5, AnswersDiffer DEF q, PageFits, EntryFits, HandlerFits, ShareFits,
             AnswerFits, InvalidationFits, AskFits, Values
  <2>8. ASSUME HandlerOn(p, x)' = "copy", msi'[p][x] = "S", Got(p, x)' = <<>>,
               Shares(q, x), Staged(p, x)' = Sees(q, x)
        PROVE  PageFits(p, x)' /\ PageFits(q, x)'
    <3>1. EntryFits(p, x)' /\ HandlerFits(p, x)'
      BY <2>3, <2>8 DEF EntryFits, HandlerFits
    <3>2. Owner(p, x)' /\ Owner(q, x)' /\ Partner(p, x)' /\ Partner(q, x)'
      BY <2>3, <2>8 DEF q, Owner, Partner, Shares
    <3>3. AskFits(p, x)' /\ ShareFits(q, x)'
      BY <2>3, <2>8 DEF q, AskFits, ShareFits, Asking
    <3>4. AnswerFits(p, x)'
      BY <2>8, AnswersDiffer DEF AnswerFits, Values
    <3>5. TextFits(p, x)' /\ TextFits(q, x)'
      BY <2>4, <2>8 DEF q, TextFits
    <3> QED
      BY <2>6, <2>7, <3>1, <3>2, <3>3, <3>4, <3>5 DEF q, PageFits
  <2>9. CASE GetInvalid(p) /\ HandlerOn(p, x) = "await" /\ HandlerOn(p, x)' = "copy"
    <3>1. Got(p, x) = <<No>>
      <4>1. Got(p, x) \in {<<No>>, <<Yes>>} \cup {<<Yes, Text(v)>> : v \in Values}
        BY <2>1, <2>9, AnswersOf DEF ViewKnown, FetchKnown
      <4>2. Head(Got(p, x)).kind = "0"
        BY <2>9 DEF GetInvalid, Reading
      <4> QED
        BY <4>1, <4>2, ReplyQueues DEF Values
    <3>2. Shares(q, x) /\ ~Resident(q, x)
      BY <3>1 DEF q, PageFits, AnswerFits
    <3>3. Sees(q, x) = Zero
      BY <2>2, <3>2 DEF Sees, HandlerOn
    <3>4. msi'[p][x] = "S" /\ Got(p, x)' = <<>> /\ Staged(p, x)' = Zero
      BY <2>0, <2>9
    <3> QED
      BY <2>8, <2>9, <3>2, <3>3, <3>4 DEF q
  <2>10. CASE GetPage(p) /\ HandlerOn(p, x) = "awaitpage" /\ HandlerOn(p, x)' = "copy"
    <3>1. PICK v \in Values : Got(p, x) = <<Text(v)>>
      BY <2>1, <2>10, AnswersOf DEF ViewKnown, FetchKnown
    <3>2. Shares(q, x) /\ mem[q][x] = v
      BY <3>1 DEF q, PageFits, AnswerFits
    <3>3. Sees(q, x) = v
      BY <3>2, AbsentAssumption DEF Sees, Resident, Values
    <3>4. Head(Got(p, x)).text = v
      BY <3>1, ReplyShapes, ShortQueues
    <3>5. msi'[p][x] = "S" /\ Got(p, x)' = <<>> /\ Staged(p, x)' = Head(Got(p, x)).text
      BY <2>10
    <3> QED
      BY <2>8, <2>10, <3>2, <3>3, <3>4, <3>5 DEF q
  <2>11. CASE GetValid(p) /\ HandlerOn(p, x) = "await" /\ HandlerOn(p, x)' = "awaitpage"
    <3>1. msi'[p][x] = "I" /\ Got(p, x)' = Tail(Got(p, x)) /\ Waiting(p, x)'
      BY <2>1, <2>11 DEF Waiting
    <3>2. Got(p, x) \in {<<Yes>>} \cup {<<Yes, Text(v)>> : v \in Values}
      <4>1. Got(p, x) \in {<<No>>, <<Yes>>} \cup {<<Yes, Text(v)>> : v \in Values}
        BY <2>1, <2>11, AnswersOf DEF ViewKnown, FetchKnown
      <4>2. Head(Got(p, x)).kind = "1"
        BY <2>11 DEF GetValid, Reading
      <4> QED
        BY <4>1, <4>2, ReplyQueues DEF Values
    <3>3. EntryFits(p, x)' /\ HandlerFits(p, x)'
      BY <2>3, <2>4, <2>11, <3>1 DEF EntryFits, HandlerFits
    <3>4. Owner(p, x)' /\ Owner(q, x)' /\ Partner(p, x)' /\ Partner(q, x)'
      BY <2>1, <2>3, <2>5, <3>1 DEF q, PageFits, Owner, Partner
    <3>5. AskFits(p, x)' /\ ShareFits(q, x)'
      BY <2>3, <2>11, <3>1 DEF q, AskFits, ShareFits, Asking
    <3>6. AnswerFits(p, x)'
      <4>1. Got(p, x) = <<Yes>> => Got(p, x)' = <<>>
        BY <3>1, ReplyQueues DEF Values
      <4>2. ASSUME NEW v \in Values, Got(p, x) = <<Yes, Text(v)>>
            PROVE  Got(p, x)' = <<Text(v)>> /\ Shares(q, x) /\ mem[q][x] = v
        BY <3>1, <4>2, ReplyQueues DEF q, PageFits, AnswerFits
      <4>3. ASSUME NEW v \in Values, Got(p, x)' = <<Text(v)>>, Shares(q, x), mem[q][x] = v
            PROVE  AnswerFits(p, x)'
        BY <2>3, <2>4, <4>3, AnswersDiffer DEF q, AnswerFits
      <4> QED
        BY <3>2, <4>1, <4>2, <4>3, AnswersDiffer DEF AnswerFits, Values
    <3>7. TextFits(p, x)' /\ TextFits(q, x)'
      BY <2>3, <3>1 DEF q, TextFits, Shares
    <3> QED
      BY <2>6, <2>7, <3>3, <3>4, <3>5, <3>6, <3>7 DEF q, PageFits
  <2> QED
    BY <2>9, <2>10, <2>11 DEF q
<1> QED
  BY <1>1, <1>2

\* The staged text is mapped.
LEMMA CopyFits ==
  ASSUME TypeOK, NEW p \in Proc, Copy(p), NEW x \in Page,
         PageFits(p, x), PageFits(Peer(p), x), ViewKnown(p, x), ViewKnown(Peer(p), x)
  PROVE  PageFits(p, x)' /\ PageFits(Peer(p), x)'
<1> USE PeerType, ViewCopy
<1> DEFINE q == Peer(p)
<1>1. CASE x # fpg[p]
  BY <1>1, SameFits
<1>2. CASE x = fpg[p]
  <2> USE <1>2
  <2> HIDE DEF q
  <2>1. /\ HandlerOn(p, x) = "copy" /\ ~Waiting(p, x) /\ Got(p, x) = <<>>
        /\ msi[p][x] # "I" /\ ~Resident(p, x)
        /\ Turn(p, x) /\ ~Turn(q, x) /\ ServerOn(p, x) = "read"
        /\ ~Has(p, "F", x) /\ ~Marking(p, x)
    BY DEF q, Waiting, Got, PageFits, HandlerFits, Turn, Exclusive, ViewKnown, HandlerKnown,
           FetchKnown, EntryFits
  <2>2. Got(q, x) = <<>> /\ ~Asking(q, x) /\ ~Waiting(q, x)
    BY <2>1, IdleFacts DEF q
  <2>3. /\ msi'[p][x] = msi[p][x] /\ msi'[q][x] = msi[q][x] /\ mem'[q][x] = mem[q][x]
        /\ ServerOn(p, x)' = "read" /\ ServerOn(q, x)' = ServerOn(q, x)
        /\ HandlerOn(p, x)' = "poll" /\ HandlerOn(q, x)' = HandlerOn(q, x)
        /\ Got(p, x)' = <<>> /\ Got(q, x)' = <<>>
        /\ ~Marking(p, x)'
        /\ Marking(q, x)' <=> Marking(q, x)
        /\ ~Asking(p, x)' /\ ~Asking(q, x)' /\ ~Waiting(p, x)' /\ ~Waiting(q, x)'
    BY <2>1, <2>2
       DEF q, SameView, SamePage, SameHandler, SameServer, SameMain, SameNet, Asking, Waiting
  <2>4. /\ Resident(p, x)' /\ (Resident(q, x)' <=> Resident(q, x))
        /\ Sees(p, x)' = Sees(p, x) /\ Sees(q, x)' = Sees(q, x)
    <3>1. mem'[p][x] = buf[p] /\ fpc[p] = "copy" /\ buf[p] \in Values
      BY <2>1 DEF Staged, HandlerOn, TypeOK
    <3>2. Resident(p, x)' /\ Sees(p, x)' = Sees(p, x)
      BY <2>1, <3>1, AbsentAssumption DEF Resident, Sees, Values
    <3>3. (Resident(q, x)' <=> Resident(q, x)) /\ Sees(q, x)' = Sees(q, x)
      BY DEF q, Resident, Sees, SameView, SamePage, SameHandler, Staged, HandlerOn
    <3> QED
      BY <3>2, <3>3
  <2>5. /\ Invalidating(p, x)' <=> Invalidating(p, x)
        /\ Invalidating(q, x)' <=> Invalidating(q, x)
        /\ Turn(p, x)' <=> Turn(p, x)
        /\ Turn(q, x)' <=> Turn(q, x)
    BY <2>3 DEF q, Invalidating, Turn, SameView, SameMain, SameNet, SameServer
  <2>6. Exclusive(p, x)' /\ Exclusive(q, x)'
    BY <2>5, TurnFrame DEF q, PageFits
  <2>7. EntryFits(p, x)' /\ EntryFits(q, x)'
    BY <2>1, <2>3, <2>4 DEF q, PageFits, EntryFits
  <2>8. /\ HandlerFits(p, x)' /\ HandlerFits(q, x)'
        /\ InvalidationFits(p, x)' /\ InvalidationFits(q, x)'
    BY <2>3, <2>5 DEF q, PageFits, HandlerFits, InvalidationFits
  <2>9. Owner(p, x)' /\ Owner(q, x)' /\ Partner(p, x)' /\ Partner(q, x)'
    BY <2>1, <2>2, <2>3, <2>5 DEF q, PageFits, Owner, Partner
  <2>10. /\ AskFits(p, x)' /\ AskFits(q, x)' /\ ShareFits(p, x)' /\ ShareFits(q, x)'
    BY <2>1, <2>2, <2>3 DEF q, PageFits, AskFits, ShareFits
  <2>11. AnswerFits(p, x)' /\ AnswerFits(q, x)'
    BY <2>3, AnswersDiffer DEF q, AnswerFits, Values
  <2>12. TextFits(p, x)' /\ TextFits(q, x)'
    BY <2>1, <2>3, <2>4 DEF q, PageFits, TextFits, Shares
  <2> QED
    BY <2>6, <2>7, <2>8, <2>9, <2>10, <2>11, <2>12 DEF q, PageFits
<1> QED
  BY <1>1, <1>2

\* The steps a living process takes.
Step(p) ==
  \/ \E op \in {"r", "w"}, which \in Page \cup {-1}, txt \in Values :
       Start(p, op, which, txt) /\ \A x \in Pages(which) : Calm(p, x)
  \/ MainStep(p) \/ ServerStep(p) \/ HandlerStep(p)

\* A step of the other process.
LEMMA ProcOther ==
  ASSUME TypeOK, NEW p \in Proc, NEW q \in Proc, q # p, Step(q), ~Reset(q), ProcFits(p)
  PROVE  ProcFits(p)'
<1>1. UNCHANGED FaultVars(p)
  BY FaultOther DEF Step, Internal
<1>2. buf'[p] = buf[p]
  BY DEF Step, Start, MainStep, MainFault, Load, Store, Mark, Echo, SendInvalidate,
         ServerStep, ServeInvalid, ServeValid, ServerFault, SendPage, Share, Drop, Invalidate,
         HandlerStep, TakeFault, SendFetch, GetInvalid, GetValid, GetPage, GetNothing, Copy,
         hndVars, TypeOK
<1> QED
  BY <1>1, <1>2 DEF ProcFits, FaultVars

\* A server that sends a page finds it resident.
LEMMA ServerAwake ==
  ASSUME TypeOK, NEW p \in Proc, \A x \in Page : PageFits(p, x), ServerFault(p)
  PROVE  FALSE
<1>1. spg[p] \in Page /\ ServerOn(p, spg[p]) = "page"
  BY DEF TypeOK, ServerFault, ServerOn
<1>2. Resident(p, spg[p])
  BY <1>1 DEF PageFits, EntryFits
<1> QED
  BY <1>2 DEF ServerFault, PageFault, PageOf

\* A step of the process itself: its server is never put to sleep.
LEMMA ProcOwn ==
  ASSUME TypeOK, NEW p \in Proc, Step(p), ~Reset(p), alive[Peer(p)], ProcFits(p),
         \A x \in Page : PageFits(p, x)
  PROVE  ProcFits(p)'
<1> USE DEF hndVars, mainVars
<1>1. ASSUME NEW op \in {"r", "w"}, NEW which \in Page \cup {-1}, NEW txt \in Values,
             Start(p, op, which, txt)
      PROVE  ProcFits(p)'
  BY <1>1 DEF Start, Typed, ProcFits, TypeOK
<1>2. CASE MainStep(p)
  <2>1. UNCHANGED <<buf, fpc>> /\ fault'[p]["server"] = "none"
    BY <1>2 DEF MainStep, MainFault, PageFault, Load, Store, Mark, Echo, SendInvalidate,
                ProcFits, TypeOK, Thread
  <2>2. ASSUME NextPage(p)
        PROVE  /\ mpc'[p] = "load" => job'[p].op = "r"
               /\ mpc'[p] \in {"store", "mark", "send"} => job'[p].op = "w"
    BY <2>2 DEF NextPage, NoJob, TypeOK, Job
  <2>3. /\ mpc'[p] = "load" => job'[p].op = "r"
        /\ mpc'[p] \in {"store", "mark", "send"} => job'[p].op = "w"
    BY <1>2, <2>2 DEF MainStep, MainFault, Load, Store, Mark, Echo, SendInvalidate,
                      ProcFits, TypeOK, Job
  <2> QED
    BY <2>1, <2>3 DEF ProcFits
<1>3. CASE ServerStep(p)
  BY <1>3, ServerAwake DEF ServerStep, ServeInvalid, ServeValid, SendPage, Share, Drop,
                           Invalidate, ProcFits
<1>4. CASE HandlerStep(p)
  <2>1. mpc' = mpc /\ job' = job
    BY <1>4 DEF HandlerStep, TakeFault, SendFetch, GetInvalid, GetValid, GetPage, GetNothing,
                Copy
  <2>2. CASE Copy(p)
    BY <2>1, <2>2 DEF Copy, ProcFits, TypeOK, Thread
  <2>3. CASE \E t \in Thread : TakeFault(p, t)
    BY <2>1, <2>3 DEF TakeFault, ProcFits, TypeOK, Thread
  <2>4. CASE SendFetch(p) \/ GetInvalid(p) \/ GetValid(p) \/ GetPage(p) \/ GetNothing(p)
    <3>1. fault' = fault /\ fpc[p] # "copy" /\ (fpc'[p] # "copy" => buf' = buf)
      BY <2>4 DEF SendFetch, GetInvalid, GetValid, GetPage, GetNothing, Reading, TypeOK
    <3> QED
      BY <2>1, <3>1 DEF ProcFits
  <2> QED
    BY <1>4, <2>2, <2>3, <2>4 DEF HandlerStep
<1> QED
  BY <1>1, <1>2, <1>3, <1>4 DEF Step

-----------------------------------------------------------------------------
(* The invariant                                                           *)

\* The facts about the view hold before a step ...
LEMMA ViewedAll ==
  Base /\ BothAlive /\ (\A p \in Proc : ProcFits(p))
    => \A p \in Proc : \A x \in Page : ViewKnown(p, x)
  BY Viewed

\* ... and after it.
LEMMA ViewedAfter ==
  (Base /\ BothAlive /\ (\A p \in Proc : ProcFits(p)))'
    => (\A p \in Proc : \A x \in Page : ViewKnown(p, x))'
  BY ViewedAll, PTL

\* Every step of a process keeps what is said of a page.
LEMMA StepFits ==
  ASSUME Base, BothAlive, NEW p \in Proc, Step(p), ~Reset(p), NEW x \in Page,
         \A q \in Proc : ProcFits(q) /\ \A y \in Page : PageFits(q, y) /\ ViewKnown(q, y),
         ViewKnown(Peer(p), x)'
  PROVE  PageFits(p, x)' /\ PageFits(Peer(p), x)'
<1> USE PeerType DEF Base
<1>1. ASSUME NEW op \in {"r", "w"}, NEW which \in Page \cup {-1}, NEW txt \in Values,
             Start(p, op, which, txt), \A y \in Pages(which) : Calm(p, y)
      PROVE  PageFits(p, x)' /\ PageFits(Peer(p), x)'
  BY <1>1, StartFits
<1>2. CASE MainStep(p)
  BY <1>2, ReadFits, StoreFits, MarkFits, InvalidationSent DEF MainStep
<1>3. CASE ServerStep(p)
  BY <1>3, ServeFits, ServerAwake, SendPageFits, ServedFits, DropFits DEF ServerStep
<1>4. CASE HandlerStep(p)
  <2>1. ~TakeFault(p, "server")
    BY DEF TakeFault, ProcFits
  <2>2. ~GetNothing(p)
    BY DEF GetNothing, BothAlive
  <2> QED
    BY <1>4, <2>1, <2>2, TakeFaultFits, FetchFits, GetFits, CopyFits DEF HandlerStep, Thread
<1> QED
  BY <1>1, <1>2, <1>3, <1>4 DEF Step

\* A step under the discipline is a step of S2dsm.
LEMMA TurnsStep == TurnsNext => Next
  BY DEF TurnsNext, Next

\* Nothing is mapped, asked or answered at first.
LEMMA CoherentInit == Init => Coherent
<1> SUFFICES ASSUME Init, NEW p \in Proc, NEW x \in Page
             PROVE  ProcFits(p) /\ PageFits(p, x)
  BY PageZero DEF Coherent
<1> USE PeerType
<1>1. ProcFits(p)
  BY DEF Init, ProcFits, Thread
<1>2. ASSUME NEW q \in Proc
      PROVE  /\ msi[q][x] = "I" /\ ~Resident(q, x) /\ ServerOn(q, x) = "read"
             /\ HandlerOn(q, x) = "poll" /\ Got(q, x) = <<>> /\ ~Marking(q, x)
             /\ ~Has(q, "F", x) /\ ~Has(q, "I", x) /\ ~Writing(q, x) /\ ~Covers(q, x)
  BY DEF Init, Resident, ServerOn, HandlerOn, Got, Waiting, Marking, Has, Writing, Covers
<1>3. ~Turn(p, x) /\ ~Invalidating(p, x) /\ ~Asking(p, x)
  BY <1>2 DEF Turn, Invalidating, Asking
<1> QED
  BY <1>1, <1>2, <1>3, AnswersDiffer
     DEF PageFits, Exclusive, EntryFits, HandlerFits, InvalidationFits, Owner, Partner,
         AskFits, ShareFits, AnswerFits, TextFits, Values

\* The induction step: by the process that moves, then by its step.
LEMMA CoherentNext ==
  Base /\ Base' /\ Coherent /\ [TurnsNext]_vars => Coherent'
<1> SUFFICES ASSUME Base, Base', Coherent, [TurnsNext]_vars, BothAlive'
             PROVE  (\A p \in Proc : ProcFits(p) /\ \A x \in Page : PageFits(p, x))'
  BY DEF Coherent, BothAlive
<1> USE PeerType
<1>1. BothAlive
  BY TurnsStep, AliveShrinks DEF BothAlive, BothLive, Base
<1>2. \A p \in Proc : ProcFits(p) /\ \A x \in Page : PageFits(p, x)
  BY <1>1 DEF Coherent
<1>3. \A p \in Proc : \A x \in Page : ViewKnown(p, x)
  BY <1>1, <1>2, ViewedAll
<1>4. CASE UNCHANGED vars
  <2> SUFFICES ASSUME NEW p \in Proc, NEW x \in Page
               PROVE  ProcFits(p)' /\ PageFits(p, x)'
    BY PageZero DEF Proc, Page
  <2>1. ProcFits(p)'
    BY <1>2, <1>4 DEF ProcFits, vars
  <2>2. SameView(p, x) /\ SameView(Peer(p), x)
    BY <1>4, SameWhole DEF vars, SameView
  <2> QED
    BY <1>2, <2>1, <2>2, SameFits
<1>5. CASE TurnsNext
  <2>1. PICK q \in Proc : Step(q) \/ Exit(q) \/ Broken(q)
    BY <1>5 DEF TurnsNext, Command, Internal, Step, Values
  <2>2. ~Exit(q) /\ ~Broken(q) /\ ~Reset(q)
    BY DEF Exit, Broken, Reset, Gone, BothAlive, Base, TypeOK
  <2>3. \A p \in Proc : ProcFits(p)'
    BY <1>1, <1>2, <2>1, <2>2, ProcOwn, ProcOther DEF Base, BothAlive
  <2>4. (\A p \in Proc : \A x \in Page : ViewKnown(p, x))'
    BY <2>3, ViewedAfter
  <2>5. \A x \in Page : PageFits(q, x)' /\ PageFits(Peer(q), x)'
    BY <1>1, <1>2, <1>3, <2>1, <2>2, <2>4, StepFits
  <2>6. \A p \in Proc : p = q \/ p = Peer(q)
    BY DEF Proc, Peer
  <2> QED
    BY <2>3, <2>5, <2>6
<1> QED
  BY <1>4, <1>5

-----------------------------------------------------------------------------
(* What holds of every behaviour                                           *)

\* S2dsmTurns only restricts what S2dsm does, so it keeps its invariants.
LEMMA TurnsBase == TurnsSpec => Spec /\ []Base
<1>1. [TurnsNext]_vars => [Next]_vars
  BY TurnsStep
<1>2. TypeOK /\ FetchMatches /\ (\A p \in Proc : FaultInv(p)) => Base
  BY DEF Base
<1> QED
  BY <1>1, <1>2, TypeCorrect, FetchesMatched, FaultsInvariant, PTL DEF TurnsSpec, Spec

\* The inductive invariant holds.
LEMMA TurnsCoherent == TurnsSpec => [](Base /\ Coherent)
  BY TurnsBase, CoherentInit, CoherentNext, PTL DEF TurnsSpec

\* What the invariant says of a page while both processes live.
LEMMA CoherentFacts ==
  ASSUME Base, Coherent, BothAlive, NEW p \in Proc, NEW x \in Page
  PROVE  ProcFits(p) /\ PageFits(p, x) /\ ViewKnown(p, x)
  BY Viewed DEF Coherent

\* Once the handling of the operations on a page is complete the two entries of
\* msi_array agree, and two MODIFIED entries only ever mean that one server is
\* about to demote its own.
THEOREM EntriesAgree == TurnsSpec => []MsiAgreement
<1>1. Base /\ Coherent => MsiAgreement
  <2> SUFFICES ASSUME Base, Coherent, BothAlive, NEW x \in Page
               PROVE  (Quiet(x) => Agreed(x)) /\ SingleWriter(x)
    BY DEF MsiAgreement
  <2> USE PeerType
  <2>1. \A p \in Proc : PageFits(p, x) /\ ViewKnown(p, x)
    BY CoherentFacts
  <2>2. Quiet(x) => Agreed(x)
    <3>1. ASSUME Quiet(x), NEW p \in Proc
          PROVE  ~Invalidating(p, x) /\ ~Waiting(p, x) /\ ServerOn(p, x) = "read"
      <4>1. \A r \in Proc : ServerOn(r, x) = "read"
        BY <3>1 DEF Quiet, Serving, ServerOn
      <4>2. ~Has(p, "I", x) /\ ~Writing(p, x)
        BY <3>1, PendingHas DEF Quiet, Base, Writing, Covers
      <4>3. ~Waiting(p, x)
        BY <2>1, <3>1 DEF Quiet, ViewKnown, HandlerKnown, Waiting
      <4> QED
        BY <4>1, <4>2, <4>3 DEF Invalidating
    <3> QED
      BY <2>1, <3>1 DEF Agreed, PageFits, Owner, Partner
  <2>3. SingleWriter(x)
    <3>1. \A p \in Proc : Invalidating(p, x) => Turn(p, x)
      BY DEF Invalidating, Turn, Writing, Covers
    <3>2. \A p \in Proc : ~(Invalidating(p, x) /\ Invalidating(Peer(p), x))
      BY <2>1, <3>1 DEF PageFits, Exclusive
    <3>3. ASSUME \A p \in Proc : msi[p][x] = "M"
          PROVE  \E p \in Proc : ServerOn(p, x) = "share"
      BY <2>1, <3>2, <3>3 DEF PageFits, Owner, Proc
    <3> QED
      BY <3>3 DEF SingleWriter, ServerOn
  <2> QED
    BY <2>2, <2>3
<1> QED
  BY <1>1, TurnsCoherent, PTL

\* Two SHARED copies of a page hold the same text, except between a writer's
\* strncpy and its update of msi_array.
THEOREM CopiesSame == TurnsSpec => []CopiesAgree
<1>1. Base /\ Coherent => CopiesAgree
  <2> SUFFICES ASSUME Base, Coherent, BothAlive, NEW x \in Page,
                      \A p \in Proc : msi[p][x] = "S" /\ ~Marking(p, x)
               PROVE  Sees(0, x) = Sees(1, x)
    BY DEF CopiesAgree, Marking
  <2>1. 0 \in Proc /\ Peer(0) = 1 /\ 1 \in Proc
    BY DEF Proc, Peer
  <2> QED
    BY <2>1, CoherentFacts DEF PageFits, TextFits, Shares
<1> QED
  BY <1>1, TurnsCoherent, PTL

\* An INVALID page is never resident, so that no stale text is read without
\* asking the peer, and server_thread never sleeps in a page fault.
THEOREM HintsRight == TurnsSpec => []ResidencyAgrees
<1>1. Base /\ Coherent => ResidencyAgrees
  BY CoherentFacts, PageZero DEF ResidencyAgrees, PageFits, EntryFits, ProcFits
<1> QED
  BY <1>1, TurnsCoherent, PTL

-----------------------------------------------------------------------------
(* A command has its pages to itself, while both processes live and after  *)
(* the end of one of them                                                  *)

\* A page of p's command is nobody else's, as long as p lives.
Undisturbed(p) ==
  /\ ~alive[p] => mpc[p] = "prompt"
  /\ \A x \in Page : Covers(p, x) => ~Pending(Peer(p), x) /\ ~Serving(p, x)

\* A page is not pending when no request about it is on its way.
LEMMA HasPending ==
  ASSUME TypeOK, NEW p \in Proc, NEW x \in Page, Pending(p, x)
  PROVE  Has(p, "F", x) \/ Has(p, "I", x)
<1>1. PICK i \in 1 .. Len(req[p]) : req[p][i].page = x
  BY DEF Pending
<1>2. req[p] \in Seq(Request)
  BY DEF TypeOK
<1>3. req[p][i] \in Request
  BY <1>1, <1>2
<1>4. req[p][i].type \in {"F", "I"}
  BY <1>3 DEF Request
<1> QED
  BY <1>1, <1>4 DEF Has

\* While both processes live, the invariant says so.
LEMMA UndisturbedBoth ==
  Base /\ Coherent /\ BothAlive => \A p \in Proc : Undisturbed(p)
<1> SUFFICES ASSUME Base, Coherent, BothAlive, NEW p \in Proc, NEW x \in Page, Covers(p, x)
             PROVE  ~Pending(Peer(p), x) /\ ~Serving(p, x)
  BY DEF Undisturbed, BothAlive
<1>1. Turn(p, x) /\ ~Turn(Peer(p), x)
  BY CoherentFacts DEF PageFits, Exclusive, Turn
<1> QED
  BY <1>1, PeerType, HasPending DEF Turn, ServerOn, Serving, Base

\* ... and also after a step.
LEMMA UndisturbedAfter ==
  (Base /\ Coherent /\ BothAlive)' => (\A p \in Proc : Undisturbed(p))'
  BY UndisturbedBoth, PTL

\* A page stays in a command, or comes into one that the discipline allows.
LEMMA CoversNext ==
  ASSUME TypeOK, NEW p \in Proc, NEW x \in Page, Step(p), ~Reset(p), Covers(p, x)'
  PROVE  Covers(p, x) \/ Calm(p, x)
<1> USE DEF mainVars
<1>1. ASSUME NEW op \in {"r", "w"}, NEW which \in Page \cup {-1}, NEW txt \in Values,
             Start(p, op, which, txt), \A y \in Pages(which) : Calm(p, y)
      PROVE  Calm(p, x)
  BY <1>1 DEF Start, Typed, Covers, Pages, TypeOK
<1>2. ASSUME NextPage(p), mpc[p] # "prompt"
      PROVE  Covers(p, x)
  BY <1>2 DEF NextPage, Covers, NoJob, TypeOK, Job, Page
<1>3. CASE MainStep(p)
  <2>1. CASE UNCHANGED job /\ mpc[p] # "prompt"
    BY <2>1 DEF Covers
  <2> QED
    BY <1>2, <1>3, <2>1
       DEF MainStep, MainFault, Load, Store, Mark, Echo, SendInvalidate
<1>4. CASE ServerStep(p) \/ HandlerStep(p)
  <2>1. UNCHANGED <<mpc, job>>
    BY <1>4 DEF ServerStep, ServeInvalid, ServeValid, ServerFault, SendPage, Share, Drop,
                Invalidate, HandlerStep, TakeFault, SendFetch, GetInvalid, GetValid, GetPage,
                GetNothing, Copy
  <2> QED
    BY <2>1 DEF Covers
<1> QED
  BY <1>1, <1>3, <1>4 DEF Step

\* Without a peer no request comes; the server takes those that are pending.
LEMMA PendingNext ==
  ASSUME TypeOK, NEW p \in Proc, NEW x \in Page, Step(p), ~Reset(p), ~alive[Peer(p)]
  PROVE  /\ Pending(Peer(p), x)' => Pending(Peer(p), x)
         /\ Serving(p, x)' => Serving(p, x) \/ Pending(Peer(p), x)
<1> USE PeerType DEF netVars, srvVars
<1>1. CASE \E op \in {"r", "w"}, which \in Page \cup {-1}, txt \in Values :
             Start(p, op, which, txt)
  BY <1>1 DEF Start, Pending, Serving
<1>2. CASE MainStep(p) \/ HandlerStep(p)
  <2>1. UNCHANGED <<req, spc, spg>>
    BY <1>2 DEF MainStep, MainFault, Load, Store, Mark, Echo, SendInvalidate, SentRequest,
                HandlerStep, TakeFault, SendFetch, GetInvalid, GetValid, GetPage,
                GetNothing, Copy
  <2> QED
    BY <2>1 DEF Pending, Serving
<1>3. CASE ServerFault(p) \/ SendPage(p) \/ Share(p) \/ Invalidate(p)
  BY <1>3 DEF ServerFault, SendPage, Share, Invalidate, NextRequest, Pending, Serving, TypeOK
<1>4. CASE ServeInvalid(p) \/ ServeValid(p) \/ Drop(p)
  <2>1. req[Peer(p)] # <<>> /\ TakeRequest(p)
    BY <1>4 DEF ServeInvalid, ServeValid, Drop, Incoming
  <2>2. req[Peer(p)] \in Seq(Request)
    BY DEF TypeOK
  <2>3. /\ Head(req[Peer(p)]) = req[Peer(p)][1] /\ 1 \in 1 .. Len(req[Peer(p)])
        /\ \A i \in 1 .. Len(Tail(req[Peer(p)])) :
             i + 1 \in 1 .. Len(req[Peer(p)]) /\ Tail(req[Peer(p)])[i] = req[Peer(p)][i + 1]
    BY <2>1, <2>2, HeadTailProperties, LenProperties, EmptySeq
  <2>4. /\ req'[Peer(p)] = Tail(req[Peer(p)])
        /\ spg'[p] = Head(req[Peer(p)]).page
    BY <2>1 DEF TakeRequest, TypeOK
  <2> QED
    BY <2>3, <2>4 DEF Pending, Serving
<1> QED
  BY <1>1, <1>2, <1>3, <1>4 DEF Step, ServerStep

\* What Undisturbed depends on.
LEMMA UndisturbedFrame ==
  ASSUME NEW p \in Proc, Undisturbed(p),
         UNCHANGED <<alive[p], mpc[p], job[p], spc[p], spg[p], req[Peer(p)]>>
  PROVE  Undisturbed(p)'
  BY DEF Undisturbed, Covers, Pending, Serving

\* The end of a process leaves the other one alone.
LEMMA GoneOther ==
  ASSUME TypeOK, NEW p \in Proc, NEW q \in Proc, p # q, Gone(q)
  PROVE  /\ alive'[p] = alive[p] /\ mpc'[p] = mpc[p] /\ job'[p] = job[p]
         /\ spc'[p] = spc[p] /\ spg'[p] = spg[p] /\ req' = req
  BY DEF Gone, TypeOK

\* Every step keeps the pages of a command undisturbed, also after the end of
\* one of the processes.
LEMMA UndisturbedNext ==
  Base /\ Base' /\ Coherent /\ Coherent' /\ (\A p \in Proc : Undisturbed(p)) /\ [TurnsNext]_vars
    => (\A p \in Proc : Undisturbed(p))'
<1> SUFFICES ASSUME Base, Base', Coherent, Coherent', [TurnsNext]_vars, ~BothAlive',
                    \A p \in Proc : Undisturbed(p)
             PROVE  \A p \in Proc : Undisturbed(p)'
  BY UndisturbedAfter DEF Proc
<1> SUFFICES ASSUME NEW p \in Proc PROVE Undisturbed(p)'
  OBVIOUS
<1> USE PeerType DEF Base
<1>1. CASE UNCHANGED vars
  BY <1>1, UndisturbedFrame DEF vars
<1>2. CASE TurnsNext
  <2>1. PICK q \in Proc : Step(q) \/ Exit(q) \/ Broken(q)
    BY <1>2 DEF TurnsNext, Command, Internal, Step, Values
  <2>2. CASE Gone(q)
    <3>1. CASE q = p
      BY <2>2, <3>1 DEF Gone, Undisturbed, Covers, TypeOK
    <3>2. CASE q # p
      <4>1. /\ alive'[p] = alive[p] /\ mpc'[p] = mpc[p] /\ job'[p] = job[p]
            /\ spc'[p] = spc[p] /\ spg'[p] = spg[p] /\ req' = req
        BY <2>2, <3>2, GoneOther
      <4> QED
        BY <4>1, UndisturbedFrame
    <3> QED
      BY <3>1, <3>2
  <2>3. CASE Step(q) /\ ~Reset(q)
    <3>1. alive[q] /\ alive' = alive
      BY <2>3 DEF Step, Start, MainStep, MainFault, PageFault, Runs, Load, Store, Mark, Echo,
           SendInvalidate, ServerStep, ServeInvalid, ServeValid, Incoming, ServerFault, SendPage,
           Share, Drop, Invalidate, HandlerStep, TakeFault, SendFetch, Reading, GetInvalid,
           GetValid, GetPage, GetNothing, Copy
    <3>2. ~alive[Peer(q)] /\ (p = q \/ p = Peer(q))
      BY <3>1 DEF BothAlive, Proc, Peer
    <3>3. CASE p = q
      <4>1. ASSUME NEW x \in Page, Covers(p, x)'
            PROVE  ~Pending(Peer(p), x)' /\ ~Serving(p, x)'
        <5>1. Covers(p, x) \/ Calm(p, x)
          BY <2>3, <3>3, <4>1, CoversNext
        <5>2. ~Pending(Peer(p), x) /\ ~Serving(p, x)
          BY <5>1 DEF Undisturbed, Calm
        <5> QED
          BY <2>3, <3>2, <3>3, <5>2, PendingNext
      <4> QED
        BY <3>1, <3>3, <4>1 DEF Undisturbed
    <3>4. CASE p # q
      <4>1. ~alive[p] /\ mpc[p] = "prompt"
        BY <3>2, <3>4 DEF Undisturbed
      <4>2. mpc'[p] = mpc[p]
        BY <2>3, <3>4 DEF Step, Start, MainStep, MainFault, Load, Store, Mark, Echo,
           SendInvalidate, NextPage, ServerStep, ServeInvalid, ServeValid, ServerFault, SendPage,
           Share, Drop, Invalidate, HandlerStep, TakeFault, SendFetch, GetInvalid,
           GetValid, GetPage, GetNothing, Copy, mainVars, TypeOK
      <4> QED
        BY <4>1, <4>2 DEF Undisturbed, Covers
    <3> QED
      BY <3>3, <3>4
  <2> QED
    BY <2>1, <2>2, <2>3 DEF Exit, Broken, Reset
<1> QED
  BY <1>1, <1>2

\* The invariant of S2dsmTurns, for its refinements.
TurnsInv == Base /\ Coherent /\ \A p \in Proc : Undisturbed(p)

\* It holds at first ...
LEMMA TurnsInvInit == Init => TurnsInv
<1> SUFFICES ASSUME Init PROVE Base /\ Coherent /\ \A p \in Proc : Undisturbed(p)
  BY DEF TurnsInv
<1>1. TypeOK /\ Coherent
  BY TypeInit, CoherentInit
<1>2. FetchMatches
  BY DEF Init, FetchMatches, FetchMatched, FetchOnce, FetchAwaited, PageAwaited, ReplyAwaited,
         Answers, Proc, Peer
<1>3. \A p \in Proc : FaultInv(p)
  BY DEF Init, FaultInv, Parked, HandlerOnAbsentPage, SleeperAccounted, Thread
<1>4. BothAlive
  BY DEF Init, BothAlive
<1> QED
  BY <1>1, <1>2, <1>3, <1>4, UndisturbedBoth DEF Base

\* ... and every step keeps it.
LEMMA TurnsInvNext == TurnsInv /\ [TurnsNext]_vars => TurnsInv'
<1> SUFFICES ASSUME TurnsInv, [TurnsNext]_vars PROVE TurnsInv'
  OBVIOUS
<1>1. Base /\ Coherent /\ [Next]_vars
  BY TurnsStep DEF TurnsInv
<1>2. TypeOK /\ FetchMatches /\ \A p \in Proc : FaultInv(p)
  BY <1>1 DEF Base
<1>3. TypeOK' /\ FetchMatches'
  BY <1>1, <1>2, TypeNext, FetchNext
<1>4. \A p \in Proc : FaultInv(p)'
  BY <1>1, <1>2, FaultNext
<1>5. Base'
  BY <1>3, <1>4 DEF Base, Proc
<1>6. Coherent'
  BY <1>1, <1>5, CoherentNext
<1> QED
  BY <1>1, <1>5, <1>6, UndisturbedNext DEF TurnsInv

-----------------------------------------------------------------------------
(***************************************************************************)
(* Part 3. S2dsmTurns implements SharedMemory: initial states map to       *)
(* initial states and every step maps to a step or leaves the memory       *)
(* alone. First the text of one page (Current), then the writes that are   *)
(* still to be made and the lines printed.                                 *)
(***************************************************************************)

-----------------------------------------------------------------------------
(* Where the current text of a page is                                     *)

\* p's copy holds the current text of x.
Source(p, x) == Owns(p, x) \/ (Holds(p, x) /\ ~Owns(Peer(p), x))

CurrentKnown(x) ==
  /\ \A p \in Proc : Source(p, x) => Current(x) = mem[p][x]
  /\ (\A p \in Proc : ~Source(p, x)) => Current(x) = Zero

\* The invariant as a fact about both processes and a page.
Fits(x) == \A p \in Proc : PageFits(p, x) /\ ViewKnown(p, x)

\* A page has at most one owner, and copies without an owner are the same.
LEMMA OneSource ==
  ASSUME TypeOK, NEW p \in Proc, NEW x \in Page, Fits(x)
  PROVE  /\ ~(Owns(p, x) /\ Owns(Peer(p), x))
         /\ Source(p, x) /\ Source(Peer(p), x) => mem[p][x] = mem[Peer(p)][x]
<1> USE PeerType
<1> DEFINE q == Peer(p)
<1>1. ASSUME NEW r \in Proc, Owns(r, x) PROVE ~Owns(Peer(r), x)
  <2> SUFFICES ASSUME Owns(Peer(r), x) PROVE FALSE
    OBVIOUS
  <2>1. PageFits(r, x) /\ PageFits(Peer(r), x)
    BY DEF Fits
  <2>2. \A s \in Proc : /\ Marking(s, x) => Turn(s, x) /\ ServerOn(s, x) # "page"
                        /\ Invalidating(s, x) => Turn(s, x)
    BY DEF Marking, Turn, Invalidating, Writing, Covers, Fits, PageFits, Exclusive
  <2>3. \A s \in Proc : Owns(s, x) =>
           Marking(s, x) \/ (msi[s][x] = "M" /\ ServerOn(s, x) # "share")
    BY DEF Owns, Marking, ServerOn
  <2>4. \A s \in Proc : Owns(s, x) => msi[s][x] # "I"
    BY DEF Owns, Fits, PageFits, EntryFits
  <2>5. \A s \in Proc : Marking(s, x) => ~Owns(Peer(s), x)
    <3> SUFFICES ASSUME NEW s \in Proc, Marking(s, x), Owns(Peer(s), x) PROVE FALSE
      OBVIOUS
    <3>1. ~Turn(Peer(s), x) /\ msi[s][x] # "I"
      BY <2>2 DEF Fits, PageFits, Exclusive, EntryFits
    <3>2. msi[Peer(s)][x] = "M" /\ ServerOn(Peer(s), x) # "share" /\ ~Invalidating(Peer(s), x)
      BY <2>2, <2>3, <3>1
    <3> QED
      BY <3>1, <3>2 DEF Fits, PageFits, Owner
  <2>6. ~Marking(r, x) /\ ~Marking(Peer(r), x)
    BY <1>1, <2>5
  <2>7. Invalidating(r, x) /\ Invalidating(Peer(r), x)
    BY <1>1, <2>1, <2>3, <2>4, <2>6 DEF PageFits, Owner
  <2> QED
    BY <2>1, <2>2, <2>7 DEF PageFits, Exclusive
<1>2. ASSUME Source(p, x), Source(q, x)
      PROVE  mem[p][x] = mem[q][x]
  <2>1. Holds(p, x) /\ Holds(q, x) /\ ~Owns(p, x) /\ ~Owns(q, x)
    BY <1>1, <1>2 DEF Source
  <2>2. ASSUME NEW r \in Proc, Holds(r, x), ~Owns(r, x)
        PROVE  Shares(r, x) /\ ~Marking(r, x) /\ Sees(r, x) = mem[r][x]
               /\ (ServerOn(r, x) = "share" => Turn(Peer(r), x))
    BY <2>2 DEF Holds, Owns, Shares, Marking, ServerOn, Sees, Turn, TypeOK, Fits, PageFits,
                EntryFits
  <2>3. msi[p][x] = "S" \/ msi[q][x] = "S"
    BY <2>1, <2>2 DEF Shares, Fits, PageFits, Exclusive
  <2>4. Sees(p, x) = Sees(q, x)
    BY <2>1, <2>2, <2>3 DEF Fits, PageFits, TextFits
  <2> QED
    BY <2>1, <2>2, <2>4
<1> QED
  BY <1>1, <1>2

\* Current picks a source if there is one.
LEMMA CurrentIs ==
  ASSUME TypeOK, NEW x \in Page, Fits(x)
  PROVE  CurrentKnown(x)
<1>1. 0 \in Proc /\ 1 \in Proc /\ Peer(0) = 1 /\ Peer(1) = 0 /\ \A p \in Proc : p = 0 \/ p = 1
  BY DEF Proc, Peer
<1>2. ~(Owns(0, x) /\ Owns(1, x))
  BY <1>1, OneSource
<1>3. Source(0, x) /\ Source(1, x) => mem[0][x] = mem[1][x]
  BY <1>1, OneSource
<1>4. /\ Source(0, x) <=> Owns(0, x) \/ (Holds(0, x) /\ ~Owns(1, x))
      /\ Source(1, x) <=> Owns(1, x) \/ (Holds(1, x) /\ ~Owns(0, x))
      /\ Owns(0, x) => Source(0, x)
  BY <1>1 DEF Source
<1>5. CASE Owns(0, x)
  BY <1>1, <1>2, <1>3, <1>4, <1>5 DEF CurrentKnown, Current
<1>6. CASE ~Owns(0, x) /\ Owns(1, x)
  BY <1>1, <1>2, <1>3, <1>4, <1>6 DEF CurrentKnown, Current
<1>7. CASE ~Owns(0, x) /\ ~Owns(1, x)
  <2>1. Current(x) = IF Holds(0, x) THEN mem[0][x]
                     ELSE IF Holds(1, x) THEN mem[1][x] ELSE Zero
    BY <1>7 DEF Current
  <2> QED
    BY <1>1, <1>3, <1>4, <1>7, <2>1 DEF CurrentKnown
<1> QED
  BY <1>5, <1>6, <1>7

\* Before a step, and after it.
LEMMA CurrentAll ==
  Base /\ Coherent /\ BothAlive => \A x \in Page : Fits(x) /\ CurrentKnown(x)
  BY CoherentFacts, CurrentIs DEF Fits, Base

\* ... and after it.
LEMMA CurrentAfter ==
  (Base /\ Coherent /\ BothAlive)' => (\A x \in Page : Fits(x) /\ CurrentKnown(x))'
  BY CurrentAll, PTL

\* A text is kept when a source of it is still one and is untouched.
LEMMA SourceKept ==
  ASSUME NEW p \in Proc, NEW x \in Page, CurrentKnown(x), CurrentKnown(x)',
         Source(p, x), Source(p, x)', mem'[p][x] = mem[p][x]
  PROVE  Current(x)' = Current(x)
  BY DEF CurrentKnown

\* ... or when nothing that decides about the sources changes.
SameOwner(p, x) ==
  /\ Owns(p, x)' <=> Owns(p, x)
  /\ Holds(p, x)' <=> Holds(p, x)
  /\ Holds(p, x) => mem'[p][x] = mem[p][x]

\* ... or when nothing that decides about the sources changes.
LEMMA SourcesSame ==
  ASSUME NEW x \in Page, Fits(x), CurrentKnown(x), CurrentKnown(x)',
         \A p \in Proc : SameOwner(p, x)
  PROVE  Current(x)' = Current(x)
<1> USE PeerType
<1>1. \A p \in Proc : (Source(p, x)' <=> Source(p, x))
  BY DEF Source, SameOwner
<1>2. \A p \in Proc : Owns(p, x) => Holds(p, x)
  BY DEF Owns, Holds, Fits, PageFits, EntryFits
<1>3. \A p \in Proc : Source(p, x) => mem'[p][x] = mem[p][x]
  BY <1>2 DEF Source, SameOwner
<1>4. CASE \E p \in Proc : Source(p, x)
  BY <1>1, <1>3, <1>4, SourceKept
<1>5. CASE \A p \in Proc : ~Source(p, x)
  BY <1>1, <1>5 DEF CurrentKnown, Proc
<1> QED
  BY <1>4, <1>5

-----------------------------------------------------------------------------
(* What each step does to the text of a page                               *)

\* What Owns and Holds say in terms of the view.
LEMMA OwnerView ==
  ASSUME NEW p \in Proc, NEW x \in Page
  PROVE  /\ Owns(p, x) <=> /\ Resident(p, x)
                          /\ (Marking(p, x) \/ (msi[p][x] = "M" /\ ServerOn(p, x) # "share"))
         /\ Holds(p, x) <=> Resident(p, x) /\ msi[p][x] # "I"
  BY DEF Owns, Holds, Marking, ServerOn

\* The same after a step.
LEMMA OwnerViewAfter ==
  ASSUME NEW p \in Proc, NEW x \in Page
  PROVE  /\ Owns(p, x)' <=> /\ Resident(p, x)'
                           /\ \/ Marking(p, x)'
                              \/ msi'[p][x] = "M" /\ ServerOn(p, x)' # "share"
         /\ Holds(p, x)' <=> Resident(p, x)' /\ msi'[p][x] # "I"
  BY DEF Owns, Holds, Marking, ServerOn, Resident

\* Steps that touch neither the page nor its entry.
LEMMA OwnerFrame ==
  ASSUME NEW p \in Proc, NEW x \in Page, SamePage(p, x), SameServer(p, x),
         Marking(p, x)' <=> Marking(p, x)
  PROVE  SameOwner(p, x)
  BY OwnerView, OwnerViewAfter DEF SameOwner, SamePage, SameServer, Resident

\* Steps of a user and of main, but for a store.
LEMMA TextOfMain ==
  ASSUME TypeOK, BothAlive, NEW p \in Proc, ProcFits(p), NEW x \in Page, Fits(x),
         CurrentKnown(x), CurrentKnown(x)',
         \/ \E op \in {"r", "w"}, which \in Page \cup {-1}, txt \in Values :
              Start(p, op, which, txt)
         \/ MainStep(p) /\ ~(Store(p) /\ x = job[p].page)
  PROVE  Current(x)' = Current(x)
<1> USE PeerType
<1> DEFINE q == Peer(p)
<1>0. \A r \in Proc : r = p \/ r = q
  BY DEF Proc, Peer
<1>1. CASE \E op \in {"r", "w"}, which \in Page \cup {-1}, txt \in Values : Start(p, op, which, txt)
  BY <1>0, <1>1, ViewStart, OwnerFrame, SourcesSame DEF SameView, SameMain
<1>2. CASE MainFault(p) \/ Load(p) \/ Echo(p)
  BY <1>0, <1>2, ViewRead, OwnerFrame, SourcesSame DEF SameView, SameMain, ProcFits
<1>3. CASE Store(p) /\ x # job[p].page
  BY <1>0, <1>3, ViewStore, OwnerFrame, SourcesSame DEF SameView, SameMain
<1>4. CASE Mark(p)
  <2>1. job[p].op = "w"
    BY <1>4 DEF Mark, ProcFits
  <2>2. CASE x # job[p].page
    BY <1>0, <1>4, <2>1, <2>2, ViewMark, OwnerFrame, SourcesSame DEF SameView, SameMain
  <2>3. CASE x = job[p].page
    <3>1. /\ Marking(p, x) /\ msi'[p][x] = "M" /\ mem'[p][x] = mem[p][x]
          /\ ServerOn(p, x)' = ServerOn(p, x) /\ Covers(p, x)
      BY <1>4, <2>1, <2>3, ViewMark DEF SameServer
    <3>2. ServerOn(p, x) = "read" /\ Resident(p, x)
      BY <3>1 DEF Fits, PageFits, Exclusive, Turn, EntryFits
    <3>3. Source(p, x) /\ Source(p, x)'
      BY <3>1, <3>2, OwnerView, OwnerViewAfter DEF Source, Resident
    <3> QED
      BY <3>1, <3>3, SourceKept
  <2> QED
    BY <2>2, <2>3
<1>5. CASE SendInvalidate(p)
  <2>1. job[p].op = "w"
    BY <1>5 DEF SendInvalidate, ProcFits
  <2> QED
    BY <1>0, <1>5, <2>1, ViewInvalidation, OwnerFrame, SourcesSame DEF SameView, SameMain
<1> QED
  BY <1>1, <1>2, <1>3, <1>4, <1>5 DEF MainStep

\* Steps of the server: a page that stops being owned is still held.
LEMMA TextOfServer ==
  ASSUME TypeOK, BothAlive, NEW p \in Proc, NEW x \in Page, Fits(x), Fits(x)',
         CurrentKnown(x), CurrentKnown(x)',
         \/ ServeInvalid(p) \/ ServeValid(p) \/ SendPage(p) \/ Share(p) \/ Drop(p)
         \/ Invalidate(p)
  PROVE  Current(x)' = Current(x)
<1> USE PeerType
<1> DEFINE q == Peer(p)
<1>0. \A r \in Proc : r = p \/ r = q
  BY DEF Proc, Peer
<1> HIDE DEF q
<1>1. CASE ServeInvalid(p) \/ ServeValid(p)
  <2>1. SameOwner(q, x)
    BY <1>1, ViewServe, OwnerFrame DEF q, SameMain
  <2>2. SameOwner(p, x)
    <3>1. CASE x # spg'[p]
      BY <1>1, <3>1, ViewServe, OwnerFrame DEF SameMain
    <3>2. CASE x = spg'[p]
      <4>1. /\ SamePage(p, x) /\ (Marking(p, x)' <=> Marking(p, x)) /\ ServerOn(p, x) = "read"
            /\ \/ msi[p][x] = "I" /\ ServerOn(p, x)' = "share"
               \/ ServerOn(p, x)' = "page"
        BY <1>1, <3>2, ViewServe DEF SameMain
      <4> QED
        BY <4>1, OwnerView, OwnerViewAfter DEF SamePage, SameOwner, Resident
    <3> QED
      BY <3>1, <3>2
  <2> QED
    BY <1>0, <2>1, <2>2, SourcesSame
<1>2. CASE SendPage(p)
  <2>1. SameOwner(q, x)
    BY <1>2, ViewSendPage, OwnerFrame DEF q, SameMain
  <2>2. CASE x # spg[p]
    <3>1. SameOwner(p, x)
      BY <1>2, <2>2, ViewSendPage, OwnerFrame DEF SameMain
    <3> QED
      BY <1>0, <2>1, <3>1, SourcesSame
  <2>3. CASE x = spg[p]
    <3>1. ServerOn(p, x) = "page" /\ msi[p][x] = "M" /\ Resident(p, x) /\ SamePage(p, x)
      BY <1>2, <2>3, ViewSendPage, AbsentAssumption DEF Fits, PageFits, EntryFits
    <3>2. Owns(p, x) /\ Holds(p, x)'
      BY <3>1, OwnerView, OwnerViewAfter DEF SamePage, Resident
    <3>3. Source(p, x) /\ Source(p, x)'
      BY <2>1, <3>2, OneSource DEF q, Source, SameOwner
    <3> QED
      BY <3>1, <3>3, SourceKept DEF SamePage
  <2> QED
    BY <2>2, <2>3
<1>3. CASE Share(p) \/ Invalidate(p)
  <2>1. SameOwner(q, x)
    BY <1>3, ViewServed, OwnerFrame DEF q, SameView, SameMain
  <2>2. /\ (Marking(p, x)' <=> Marking(p, x)) /\ mem'[p][x] = mem[p][x]
        /\ ServerOn(p, x)' = "read"
    BY <1>3, ViewServed DEF SameMain
  <2>3. CASE x # spg[p]
    <3>1. SameOwner(p, x)
      BY <1>3, <2>2, <2>3, ViewServed, OwnerFrame DEF SamePage, SameServer
    <3> QED
      BY <1>0, <2>1, <3>1, SourcesSame
  <2>4. CASE x = spg[p]
    <3>1. ServerOn(p, x) # "read" /\ ~Turn(p, x) /\ ~Marking(p, x)
      BY <1>3, <2>4, ViewServed DEF Turn, Fits, PageFits, Exclusive, Marking, Covers
    <3>2. \/ ServerOn(p, x) = "share" /\ msi'[p][x] = "S"
          \/ ServerOn(p, x) = "inval" /\ msi'[p][x] = "I" /\ ~Resident(p, x)
      BY <1>3, <2>4, ViewServed DEF Fits, PageFits, EntryFits
    <3>3. Resident(p, x) => msi[p][x] # "I"
      BY DEF Fits, PageFits, EntryFits
    <3>4. SameOwner(p, x)
      BY <2>2, <3>1, <3>2, <3>3, OwnerView, OwnerViewAfter DEF SameOwner, Resident
    <3> QED
      BY <1>0, <2>1, <3>4, SourcesSame
  <2> QED
    BY <2>3, <2>4
<1>4. CASE Drop(p)
  <2>1. SameOwner(q, x)
    BY <1>4, ViewDrop, OwnerFrame DEF q, SameMain
  <2>2. CASE x # spg'[p]
    <3>1. SameOwner(p, x)
      BY <1>4, <2>2, ViewDrop, OwnerFrame DEF SameView, SameMain
    <3> QED
      BY <1>0, <2>1, <3>1, SourcesSame
  <2>3. CASE x = spg'[p]
    <3>1. Has(q, "I", x) /\ SamePage(q, x)
      BY <1>4, <2>3, ViewDrop DEF q
    <3>2. Turn(q, x) /\ ~Turn(p, x) /\ msi[q][x] = "M" /\ ServerOn(q, x) = "read"
      BY <3>1 DEF q, Fits, PageFits, Exclusive, Turn, InvalidationFits, Invalidating
    <3>3. Owns(q, x)
      BY <3>2, OwnerView DEF q, Fits, PageFits, EntryFits
    <3>4. Source(q, x) /\ Source(q, x)'
      BY <2>1, <3>3 DEF Source, SameOwner
    <3> QED
      BY <3>1, <3>4, SourceKept DEF q, SamePage
  <2> QED
    BY <2>2, <2>3
<1> QED
  BY <1>1, <1>2, <1>3, <1>4

\* Steps of the handler: what is mapped is what is current.
LEMMA TextOfHandler ==
  ASSUME TypeOK, BothAlive, NEW p \in Proc, NEW x \in Page, Fits(x), Fits(x)',
         CurrentKnown(x), CurrentKnown(x)', ProcFits(p),
         \/ TakeFault(p, "main") \/ SendFetch(p) \/ GetInvalid(p) \/ GetValid(p) \/ GetPage(p)
         \/ Copy(p)
  PROVE  Current(x)' = Current(x)
<1> USE PeerType
<1> DEFINE q == Peer(p)
<1>0. \A r \in Proc : r = p \/ r = q
  BY DEF Proc, Peer
<1> HIDE DEF q
<1>1. CASE TakeFault(p, "main")
  <2>1. buf[p] = Zero
    BY <1>1 DEF TakeFault, ProcFits
  <2> QED
    BY <1>0, <1>1, <2>1, ViewTakeFault, OwnerFrame, SourcesSame DEF q, SameView, SameMain
<1>2. CASE SendFetch(p)
  BY <1>0, <1>2, ViewFetch, OwnerFrame, SourcesSame DEF q, SameView, SameMain
<1>3. CASE GetInvalid(p) \/ GetValid(p) \/ GetPage(p)
  <2>1. SameOwner(q, x)
    BY <1>3, ViewGet, OwnerFrame DEF q, SameView, SameMain
  <2>2. SameOwner(p, x)
    <3>1. CASE x # fpg[p]
      BY <1>3, <3>1, ViewGet, OwnerFrame DEF SameView, SameMain
    <3>2. CASE x = fpg[p]
      <4>1. Waiting(p, x) /\ mem'[p][x] = mem[p][x]
        BY <1>3, <3>2, ViewGet
      <4>2. ~Resident(p, x) /\ ~Resident(p, x)'
        BY <4>1 DEF Waiting, Fits, ViewKnown, HandlerKnown, Resident
      <4> QED
        BY <4>2, OwnerView, OwnerViewAfter DEF SameOwner
    <3> QED
      BY <3>1, <3>2
  <2> QED
    BY <1>0, <2>1, <2>2, SourcesSame
<1>4. CASE Copy(p)
  <2>1. SameOwner(q, x)
    BY <1>4, ViewCopy, OwnerFrame DEF q, SameView, SameMain
  <2>2. CASE x # fpg[p]
    <3>1. SameOwner(p, x)
      BY <1>4, <2>2, ViewCopy, OwnerFrame DEF SameView, SameMain
    <3> QED
      BY <1>0, <2>1, <3>1, SourcesSame
  <2>3. CASE x = fpg[p]
    <3>1. /\ HandlerOn(p, x) = "copy" /\ mem'[p][x] = Staged(p, x) /\ Staged(p, x) = buf[p]
          /\ msi'[p][x] = msi[p][x]
      BY <1>4, <2>3, ViewCopy DEF Staged
    <3>2. /\ ~Resident(p, x) /\ msi[p][x] # "I" /\ Turn(p, x) /\ ~Turn(q, x) /\ ~Marking(p, x)
      BY <3>1 DEF q, Fits, ViewKnown, HandlerKnown, PageFits, HandlerFits, EntryFits,
                  Exclusive, Turn
    <3>3. /\ ~Marking(q, x) /\ ~Invalidating(q, x) /\ ~Waiting(q, x)
          /\ HandlerOn(q, x) = "poll" /\ ServerOn(p, x) = "read"
      BY <3>2, IdleFacts DEF q, Fits
    <3>4. msi[p][x] = "S"
      BY <3>2, <3>3 DEF Fits, PageFits, EntryFits, TypeOK
    <3>5. Shares(q, x)
      BY <3>3, <3>4 DEF q, Fits, PageFits, Partner, Shares
    <3>6. Sees(p, x) = Sees(q, x)
      BY <3>2, <3>3, <3>4, <3>5 DEF q, Fits, PageFits, TextFits
    <3>7. Sees(p, x) = buf[p] /\ mem'[p][x] = buf[p] /\ Resident(p, x)'
      BY <3>1, <3>2, AbsentAssumption DEF Sees, HandlerOn, TypeOK, Values, Resident
    <3>8. ~Owns(q, x) /\ ~Owns(q, x)' /\ ~Source(p, x) /\ Source(p, x)'
      <4>1. ~Owns(q, x)
        BY <3>3, <3>5, OwnerView DEF q, Shares
      <4>2. ~Owns(q, x)' /\ Holds(p, x)' /\ ~Owns(p, x) /\ ~Holds(p, x)
        BY <2>1, <3>1, <3>2, <3>7, <4>1, OwnerView, OwnerViewAfter DEF SameOwner
      <4> QED
        BY <4>1, <4>2 DEF q, Source
    <3>9. Current(x)' = buf[p]
      BY <3>7, <3>8 DEF CurrentKnown
    <3>10. Current(x) = Sees(q, x)
      <4>1. CASE Resident(q, x)
        <5>1. Source(q, x)
          BY <3>2, <3>8, <4>1, OwnerView DEF q, Source, Fits, PageFits, EntryFits
        <5> QED
          BY <4>1, <5>1 DEF q, CurrentKnown, Sees
      <4>2. CASE ~Resident(q, x)
        <5>1. ~Source(q, x) /\ Sees(q, x) = Zero
          BY <3>3, <4>2, OwnerView DEF q, Source, Sees, HandlerOn
        <5> QED
          BY <1>0, <3>8, <5>1 DEF CurrentKnown
      <4> QED
        BY <4>1, <4>2
    <3> QED
      BY <3>6, <3>7, <3>9, <3>10
  <2> QED
    BY <2>2, <2>3
<1> QED
  BY <1>1, <1>2, <1>3, <1>4

\* strncpy to the page makes the text current.
LEMMA TextStored ==
  ASSUME TypeOK, NEW p \in Proc, Store(p), CurrentKnown(job[p].page)'
  PROVE  Current(job[p].page)' = job[p].txt
<1>1. job[p].page \in Page /\ job' = job
  BY DEF TypeOK, Job, Store
<1>2. PICK x \in Page : x = job[p].page
  BY <1>1
<1>3. Marking(p, x)' /\ mem'[p][x] = job[p].txt /\ job[p].txt \in Values
  BY <1>2, ViewStore
<1>4. Source(p, x)'
  BY <1>3, OwnerViewAfter, AbsentAssumption DEF Source, Resident, Values
<1>5. Current(x)' = mem'[p][x]
  BY <1>1, <1>2, <1>4 DEF CurrentKnown
<1> QED
  BY <1>1, <1>2, <1>3, <1>5

\* What main reads from its page is current.
LEMMA TextRead ==
  ASSUME TypeOK, NEW p \in Proc, NEW x \in Page, Fits(x), CurrentKnown(x),
         Covers(p, x), Resident(p, x)
  PROVE  mem[p][x] = Current(x)
<1> USE PeerType
<1>1. Turn(p, x) /\ ~Turn(Peer(p), x)
  BY DEF Turn, Fits, PageFits, Exclusive
<1>2. ~Marking(Peer(p), x) /\ ~Invalidating(Peer(p), x)
  BY <1>1, IdleFacts DEF Fits
<1>3. msi[p][x] # "I"
  BY DEF Fits, PageFits, EntryFits
<1>4. ~Owns(Peer(p), x)
  BY <1>2, <1>3, OwnerView DEF Fits, PageFits, Owner
<1>5. Source(p, x)
  BY <1>3, <1>4, OwnerView DEF Source
<1> QED
  BY <1>5 DEF CurrentKnown

-----------------------------------------------------------------------------
(* What is still to be written                                             *)

\* The writes p's user waits for.
Asked(p) == {[page |-> x, text |-> job[p].txt] : x \in ToWrite(p)}

\* A user of a command asks for its pages.
LEMMA AskedStart ==
  ASSUME TypeOK, NEW p \in Proc, NEW op \in {"r", "w"}, NEW which \in Page \cup {-1},
         NEW txt \in Values, Start(p, op, which, txt)
  PROVE  /\ Asked(p) = {} /\ Asked(Peer(p))' = Asked(Peer(p))
         /\ op = "r" => Asked(p)' = {}
         /\ op = "w" => Asked(p)' = {[page |-> x, text |-> txt] : x \in Pages(which)}
<1> USE PeerType
<1>1. /\ mpc[p] = "prompt" /\ mpc'[p] = IF op = "r" THEN "load" ELSE "store"
      /\ job'[p] = Typed(op, which, txt)
      /\ mpc'[Peer(p)] = mpc[Peer(p)] /\ job'[Peer(p)] = job[Peer(p)]
  BY DEF Start, TypeOK
<1>2. ToWrite(p) = {} /\ (op = "r" => ToWrite(p)' = {}) /\ ToWrite(Peer(p))' = ToWrite(Peer(p))
  BY <1>1 DEF ToWrite, Covers, Typed
<1>3. op = "w" => ToWrite(p)' = Pages(which)
  BY <1>1 DEF ToWrite, Covers, Typed, Pages, Page
<1>4. job'[p].txt = txt
  BY <1>1 DEF Typed
<1> QED
  BY <1>1, <1>2, <1>3, <1>4 DEF Asked

\* A store makes one of them.
LEMMA AskedStore ==
  ASSUME TypeOK, NEW p \in Proc, Store(p), ProcFits(p)
  PROVE  LET w == [page |-> job[p].page, text |-> job[p].txt]
         IN  w \in Asked(p) /\ Asked(p)' = Asked(p) \ {w} /\ Asked(Peer(p))' = Asked(Peer(p))
<1> USE PeerType
<1>1. /\ mpc[p] = "store" /\ mpc'[p] = "mark" /\ job' = job /\ job[p].op = "w"
      /\ mpc'[Peer(p)] = mpc[Peer(p)] /\ job[p].page \in Page
  BY DEF Store, TypeOK, ProcFits, Job
<1>2. /\ job[p].page \in ToWrite(p)
      /\ ToWrite(p)' = ToWrite(p) \ {job[p].page}
      /\ ToWrite(Peer(p))' = ToWrite(Peer(p))
  BY <1>1 DEF ToWrite, Covers
<1> QED
  BY <1>1, <1>2 DEF Asked

\* Going on to the next page of a command asks nothing new.
LEMMA NextPageAsked ==
  ASSUME TypeOK, NEW p \in Proc, NextPage(p), ProcFits(p),
         mpc[p] \in {"send", "load", "echo"}, mpc[p] = "echo" => job[p].op = "r"
  PROVE  ToWrite(p)' = ToWrite(p) /\ (job'[p].txt = job[p].txt \/ ToWrite(p) = {})
<1>1. CASE job[p].scope = "all" /\ job[p].page + 1 < NumPages
  <2>1. /\ job'[p] = [job[p] EXCEPT !.page = job[p].page + 1]
        /\ mpc'[p] = IF job[p].op = "r" THEN "load" ELSE "store"
    BY <1>1 DEF NextPage, TypeOK
  <2>2. /\ job'[p].page = job[p].page + 1 /\ job'[p].op = job[p].op
        /\ job'[p].scope = "all" /\ job'[p].txt = job[p].txt /\ job[p].page \in Int
    BY <1>1, <2>1 DEF TypeOK, Job, Page
  <2> QED
    BY <1>1, <2>1, <2>2 DEF ToWrite, Covers, ProcFits, Page
<1>2. CASE ~(job[p].scope = "all" /\ job[p].page + 1 < NumPages)
  <2>1. mpc'[p] = "prompt"
    BY <1>2 DEF NextPage, TypeOK
  <2>2. ToWrite(p) = {}
    <3>1. \A x \in Page : job[p].scope = "all" => ~(x > job[p].page)
      BY <1>2, NumPagesAssumption DEF TypeOK, Job, Page
    <3> QED
      BY <3>1 DEF ToWrite, Covers, ProcFits
  <2> QED
    BY <2>1, <2>2 DEF ToWrite, Covers
<1> QED
  BY <1>1, <1>2

\* No other step changes what is asked.
LEMMA AskedSame ==
  ASSUME TypeOK, NEW p \in Proc, ProcFits(p),
         (MainStep(p) /\ ~Store(p)) \/ (ServerStep(p) /\ ~Reset(p)) \/ HandlerStep(p),
         NEW r \in Proc
  PROVE  Asked(r)' = Asked(r)
<1> SUFFICES ToWrite(r)' = ToWrite(r) /\ (job'[r].txt = job[r].txt \/ ToWrite(r) = {})
  BY DEF Asked
<1>1. CASE UNCHANGED <<mpc[r], job[r]>>
  BY <1>1 DEF ToWrite, Covers
<1>2. CASE r # p \/ (ServerStep(p) /\ ~Reset(p)) \/ HandlerStep(p) \/ MainFault(p)
  <2>1. CASE r # p
    <3>1. UNCHANGED FaultVars(r)
      BY <2>1, FaultOther DEF Internal
    <3> QED
      BY <1>1, <3>1 DEF FaultVars
  <2>2. CASE ServerStep(p) /\ ~Reset(p)
    <3>1. UNCHANGED mainVars
      BY <2>2 DEF ServerStep, ServeInvalid, ServeValid, ServerFault, SendPage, Share, Drop,
                  Invalidate
    <3> QED
      BY <1>1, <3>1 DEF mainVars
  <2>3. CASE HandlerStep(p) \/ MainFault(p)
    <3>1. UNCHANGED mainVars
      BY <2>3 DEF HandlerStep, TakeFault, SendFetch, GetInvalid, GetValid, GetPage,
                  GetNothing, Copy, MainFault
    <3> QED
      BY <1>1, <3>1 DEF mainVars
  <2> QED
    BY <1>2, <2>1, <2>2, <2>3
<1>3. CASE r = p /\ (Load(p) \/ Mark(p) \/ Echo(p) \/ SendInvalidate(p))
  <2>1. \/ NextPage(p) /\ mpc[p] \in {"send", "load", "echo"}
           /\ (mpc[p] = "echo" => job[p].op = "r")
        \/ mpc[p] \in {"load", "mark", "echo"} /\ mpc'[p] \in {"echo", "send"} /\ job' = job
           /\ (mpc[p] = "load" => job[p].op = "r")
    BY <1>3 DEF Load, Mark, Echo, SendInvalidate, TypeOK, ProcFits
  <2>2. CASE NextPage(p) /\ mpc[p] \in {"send", "load", "echo"}
             /\ (mpc[p] = "echo" => job[p].op = "r")
    BY <1>3, <2>2, NextPageAsked
  <2>3. CASE mpc[p] \in {"load", "mark", "echo"} /\ mpc'[p] \in {"echo", "send"} /\ job' = job
             /\ (mpc[p] = "load" => job[p].op = "r")
    BY <1>3, <2>3 DEF ToWrite, Covers
  <2> QED
    BY <2>1, <2>2, <2>3
<1> QED
  BY <1>2, <1>3 DEF MainStep

-----------------------------------------------------------------------------
(* The refinement                                                          *)

\* The first states of the two processes are those of the memory.
LEMMA MemoryInit == Init => Memory!Init
<1> SUFFICES ASSUME Init PROVE Memory!Init
  OBVIOUS
<1>1. BothAlive /\ line = NoLine
  BY DEF Init, BothAlive
<1>2. \A x \in Page : Current(x) = Zero
  BY DEF Init, Current, Owns, Holds, Resident, Proc
<1>3. \A p \in Proc : ToWrite(p) = {}
  BY DEF Init, ToWrite, Covers
<1> QED
  BY <1>1, <1>2, <1>3 DEF Memory!Init

\* A step that changes no text, nothing asked and no line is none of the memory.
LEMMA MemoryIdle ==
  ASSUME BothAlive, BothAlive', \A x \in Page : Current(x)' = Current(x),
         \A p \in Proc : Asked(p)' = Asked(p), line' = line
  PROVE  UNCHANGED Memory!vars
<1>1. [x \in Page |-> IF BothAlive THEN Current(x) ELSE Zero]'
        = [x \in Page |-> IF BothAlive THEN Current(x) ELSE Zero]
  BY DEF Page
<1>2. [p \in Proc |-> IF BothAlive THEN {[page |-> x, text |-> job[p].txt] : x \in ToWrite(p)}
                      ELSE {}]'
        = [p \in Proc |-> IF BothAlive THEN {[page |-> x, text |-> job[p].txt] : x \in ToWrite(p)}
                          ELSE {}]
  BY DEF Asked, Proc
<1> QED
  BY <1>1, <1>2 DEF Memory!vars

\* A printed line is the current text.
LEMMA MemoryOutput ==
  ASSUME BothAlive, BothAlive', \A x \in Page : Current(x)' = Current(x),
         \A p \in Proc : Asked(p)' = Asked(p),
         NEW p \in Proc, NEW x \in Page,
         line' = [proc |-> p, page |-> x, text |-> Current(x)]
  PROVE  Memory!Output(p, x)
<1>1. [y \in Page |-> IF BothAlive THEN Current(y) ELSE Zero]'
        = [y \in Page |-> IF BothAlive THEN Current(y) ELSE Zero]
  BY DEF Page
<1>2. [r \in Proc |-> IF BothAlive THEN {[page |-> y, text |-> job[r].txt] : y \in ToWrite(r)}
                      ELSE {}]'
        = [r \in Proc |-> IF BothAlive THEN {[page |-> y, text |-> job[r].txt] : y \in ToWrite(r)}
                          ELSE {}]
  BY DEF Asked, Proc
<1> QED
  BY <1>1, <1>2 DEF Memory!Output

\* A text asked for becomes current.
LEMMA MemoryWrite ==
  ASSUME BothAlive, BothAlive', NEW p \in Proc, NEW x \in Page, NEW v,
         \A y \in Page : Current(y)' = IF y = x THEN v ELSE Current(y),
         Asked(p)' = Asked(p) \ {[page |-> x, text |-> v]},
         \A r \in Proc : r # p => Asked(r)' = Asked(r), line' = line
  PROVE  Memory!Write(p, [page |-> x, text |-> v])
<1>1. [y \in Page |-> IF BothAlive THEN Current(y) ELSE Zero]'
        = [[y \in Page |-> IF BothAlive THEN Current(y) ELSE Zero] EXCEPT ![x] = v]
  BY DEF Page
<1>2. [r \in Proc |-> IF BothAlive THEN {[page |-> y, text |-> job[r].txt] : y \in ToWrite(r)}
                      ELSE {}]'
        = [[r \in Proc |-> IF BothAlive THEN {[page |-> y, text |-> job[r].txt] : y \in ToWrite(r)}
                           ELSE {}]
            EXCEPT ![p] = @ \ {[page |-> x, text |-> v]}]
  BY DEF Asked, Proc
<1> QED
  BY <1>1, <1>2 DEF Memory!Write

\* The same for what a user asks.
LEMMA MemoryAsk ==
  ASSUME BothAlive, BothAlive', NEW p \in Proc, NEW pages \in SUBSET Page, NEW v,
         \A y \in Page : Current(y)' = Current(y), Asked(p) = {},
         Asked(p)' = {[page |-> y, text |-> v] : y \in pages},
         \A r \in Proc : r # p => Asked(r)' = Asked(r), line' = line
  PROVE  Memory!Ask(p, pages, v)
<1>1. [y \in Page |-> IF BothAlive THEN Current(y) ELSE Zero]'
        = [y \in Page |-> IF BothAlive THEN Current(y) ELSE Zero]
  BY DEF Page
<1>2. [r \in Proc |-> IF BothAlive THEN {[page |-> y, text |-> job[r].txt] : y \in ToWrite(r)}
                      ELSE {}]'
        = [[r \in Proc |-> IF BothAlive THEN {[page |-> y, text |-> job[r].txt] : y \in ToWrite(r)}
                           ELSE {}]
            EXCEPT ![p] = {[page |-> y, text |-> v] : y \in pages}]
  BY DEF Asked, Proc
<1>3. [r \in Proc |-> IF BothAlive THEN {[page |-> y, text |-> job[r].txt] : y \in ToWrite(r)}
                      ELSE {}][p] = {}
  BY DEF Asked
<1> QED
  BY <1>1, <1>2, <1>3 DEF Memory!Ask

\* When a process ends the memory does, and nothing follows.
LEMMA MemoryEnd ==
  ASSUME ~BothAlive'
  PROVE  [Memory!Next]_(Memory!vars)
<1>1. [y \in Page |-> IF BothAlive THEN Current(y) ELSE Zero]' = [y \in Page |-> Zero]
  BY DEF Page
<1>2. [r \in Proc |-> IF BothAlive THEN {[page |-> y, text |-> job[r].txt] : y \in ToWrite(r)}
                      ELSE {}]' = [r \in Proc |-> {}]
  BY DEF Proc
<1>3. CASE BothAlive
  BY <1>1, <1>2, <1>3 DEF Memory!Next, Memory!End
<1>4. CASE ~BothAlive
  <2>1. /\ [y \in Page |-> IF BothAlive THEN Current(y) ELSE Zero] = [y \in Page |-> Zero]
        /\ [r \in Proc |-> IF BothAlive
                           THEN {[page |-> y, text |-> job[r].txt] : y \in ToWrite(r)}
                           ELSE {}] = [r \in Proc |-> {}]
    BY <1>4
  <2>2. BothAlive' = BothAlive
    BY <1>4 DEF BothAlive
  <2> QED
    BY <1>1, <1>2, <1>4, <2>1, <2>2 DEF Memory!vars
<1> QED
  BY <1>3, <1>4

\* Every step of the two processes is one of the memory, or none.
LEMMA MemoryNext ==
  Base /\ Base' /\ Coherent /\ Coherent' /\ [TurnsNext]_vars => [Memory!Next]_(Memory!vars)
<1> SUFFICES ASSUME Base, Base', Coherent, Coherent', [TurnsNext]_vars, BothAlive'
             PROVE  [Memory!Next]_(Memory!vars)
  BY MemoryEnd
<1> USE PeerType
<1>1. BothAlive /\ TypeOK
  BY TurnsStep, AliveShrinks DEF BothAlive, BothLive, Base
<1>2. /\ \A x \in Page : Fits(x) /\ CurrentKnown(x)
      /\ \A p \in Proc : ProcFits(p)
  BY <1>1, CurrentAll, PageZero DEF Coherent
<1>3. (\A x \in Page : Fits(x) /\ CurrentKnown(x))'
  BY CurrentAfter
<1>4. \A x \in Page : Fits(x)' /\ CurrentKnown(x)'
  BY <1>3
<1>5. CASE UNCHANGED vars
  <2>1. \A x \in Page : Current(x)' = Current(x)
    BY <1>5 DEF vars, Current, Owns, Holds, Resident
  <2>2. \A p \in Proc : Asked(p)' = Asked(p)
    BY <1>5 DEF vars, Asked, ToWrite, Covers
  <2> QED
    BY <1>1, <1>5, <2>1, <2>2, MemoryIdle DEF vars
<1>6. CASE TurnsNext
  <2>1. PICK p \in Proc : Step(p) \/ Exit(p) \/ Broken(p)
    BY <1>6 DEF TurnsNext, Command, Internal, Step, Values
  <2>2. ~Exit(p) /\ ~Broken(p) /\ ~Reset(p)
    BY <1>1 DEF Exit, Broken, Reset, Gone, BothAlive, TypeOK
  <2>3. \A r \in Proc : r = p \/ r = Peer(p)
    BY DEF Proc, Peer
  <2>4. ASSUME NEW op \in {"r", "w"}, NEW which \in Page \cup {-1}, NEW txt \in Values,
               Start(p, op, which, txt)
        PROVE  [Memory!Next]_(Memory!vars)
    <3>1. \A x \in Page : Current(x)' = Current(x)
      BY <1>1, <1>2, <1>4, <2>4, TextOfMain
    <3>2. line' = line /\ Pages(which) \in SUBSET Page
      BY <2>4 DEF Start, Pages
    <3>3. CASE op = "r"
      BY <1>1, <2>3, <2>4, <3>1, <3>2, <3>3, AskedStart, MemoryIdle
    <3>4. CASE op = "w"
      <4>1. Memory!Ask(p, Pages(which), txt)
        BY <1>1, <2>3, <2>4, <3>1, <3>2, <3>4, AskedStart, MemoryAsk
      <4> QED
        BY <3>2, <4>1 DEF Memory!Next
    <3> QED
      BY <3>3, <3>4
  <2>5. CASE Store(p)
    <3>1. job[p].page \in Page /\ line' = line /\ job' = job
      BY <1>1, <2>5 DEF Store, TypeOK, Job
    <3>2. \A x \in Page : Current(x)' = IF x = job[p].page THEN job[p].txt ELSE Current(x)
      <4>1. SUFFICES ASSUME NEW x \in Page
                     PROVE  Current(x)' = IF x = job[p].page THEN job[p].txt ELSE Current(x)
        OBVIOUS
      <4>2. CASE x # job[p].page
        BY <1>1, <1>2, <1>4, <2>5, <4>2, TextOfMain DEF MainStep
      <4>3. CASE x = job[p].page
        BY <1>1, <1>3, <1>4, <2>5, <3>1, <4>3, TextStored
      <4> QED
        BY <4>2, <4>3
    <3>3. PICK x \in Page, v \in Values : x = job[p].page /\ v = job[p].txt
      BY <1>1, <3>1 DEF TypeOK, Job
    <3> DEFINE w == [page |-> x, text |-> v]
    <3>4. w \in Asked(p) /\ Asked(p)' = Asked(p) \ {w} /\ Asked(Peer(p))' = Asked(Peer(p))
      BY <1>1, <1>2, <2>5, <3>3, AskedStore
    <3>5. \A y \in Page : Current(y)' = IF y = x THEN v ELSE Current(y)
      BY <3>2, <3>3
    <3>6. Memory!Write(p, w)
      <4>1. \A r \in Proc : r # p => Asked(r)' = Asked(r)
        BY <2>3, <3>4
      <4> QED
        BY <1>1, <3>1, <3>4, <3>5, <4>1, MemoryWrite
    <3>7. w \in [r \in Proc |-> IF BothAlive
                               THEN {[page |-> y, text |-> job[r].txt] : y \in ToWrite(r)}
                               ELSE {}][p]
      BY <1>1, <3>4 DEF Asked
    <3> HIDE DEF w
    <3> QED
      BY <3>6, <3>7 DEF Memory!Next
  <2>6. CASE (MainStep(p) /\ ~Store(p)) \/ ServerStep(p) \/ HandlerStep(p)
    <3>1. \A r \in Proc : Asked(r)' = Asked(r)
      BY <1>1, <1>2, <2>2, <2>6, AskedSame
    <3>2. \A x \in Page : Current(x)' = Current(x)
      <4>1. CASE MainStep(p) /\ ~Store(p)
        BY <1>1, <1>2, <1>4, <4>1, TextOfMain
      <4>2. CASE ServerStep(p)
        <5>1. ~ServerFault(p)
          BY <1>1, <1>2, ServerAwake DEF Fits
        <5> QED
          BY <1>1, <1>2, <1>4, <2>2, <4>2, <5>1, TextOfServer DEF ServerStep
      <4>3. CASE HandlerStep(p)
        <5>1. ~GetNothing(p) /\ ~TakeFault(p, "server")
          BY <1>1, <1>2 DEF GetNothing, BothAlive, TakeFault, ProcFits
        <5> QED
          BY <1>1, <1>2, <1>4, <4>3, <5>1, TextOfHandler DEF HandlerStep, Thread
      <4> QED
        BY <2>6, <4>1, <4>2, <4>3
    <3>3. CASE line' = line
      BY <1>1, <3>1, <3>2, <3>3, MemoryIdle
    <3>4. CASE Show(p, job[p].page) /\ (Load(p) \/ Echo(p))
      <4>1. job[p].page \in Page /\ Covers(p, job[p].page) /\ Resident(p, job[p].page)
        BY <1>1, <3>4 DEF Load, Echo, Covers, TypeOK, Job
      <4>2. line' = [proc |-> p, page |-> job[p].page, text |-> Current(job[p].page)]
        BY <1>1, <1>2, <3>4, <4>1, TextRead DEF Show
      <4>3. Memory!Output(p, job[p].page)
        BY <1>1, <3>1, <3>2, <4>1, <4>2, MemoryOutput
      <4> QED
        BY <4>1, <4>3 DEF Memory!Next
    <3>5. line' = line \/ (Show(p, job[p].page) /\ (Load(p) \/ Echo(p)))
      BY <2>2, <2>6
         DEF MainStep, MainFault, Load, Store, Mark, Echo, SendInvalidate,
             ServerStep, ServeInvalid, ServeValid, ServerFault, SendPage, Share, Drop, Invalidate,
             HandlerStep, TakeFault, SendFetch, GetInvalid, GetValid, GetPage, GetNothing, Copy
    <3> QED
      BY <3>3, <3>4, <3>5
  <2> QED
    BY <2>1, <2>2, <2>4, <2>5, <2>6 DEF Step, MainStep
<1> QED
  BY <1>5, <1>6

\* Until a process ends, the two processes implement one memory: a text changes
\* only when a user's write to it is carried out, once, whatever is fetched,
\* shared and invalidated meanwhile, and every line printed is the current text.
THEOREM MemoryImplemented == TurnsSpec => MemorySpec
  BY MemoryInit, MemoryNext, TurnsCoherent, PTL DEF TurnsSpec, MemorySpec, Memory!Spec
=============================================================================
