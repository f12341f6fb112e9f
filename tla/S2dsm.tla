------------------------------- MODULE S2dsm -------------------------------
(***************************************************************************)
(* The two-process distributed shared memory of HW3P2/s2dsm_P2.c, from     *)
(* the moment both processes have mapped the region and run their three    *)
(* threads: the command loop of main, server_thread, and                   *)
(* fault_handler_thread.                                                   *)
(*                                                                         *)
(* Page p of a process is resident (mem holds its text) or not (Absent):   *)
(* the region is registered with userfaultfd in MISSING mode, so a thread  *)
(* that touches an Absent page sleeps until the fault handler installs a   *)
(* page with UFFDIO_COPY.  msi_array is a separate array of hints, written *)
(* by all three threads without a lock.  Each process owns one connection  *)
(* (connect_socket) on which its main thread and its fault handler send    *)
(* requests and its fault handler reads replies; the peer's server_thread  *)
(* reads and answers on the other end (accepted_socket).                   *)
(*                                                                         *)
(* A page's 4096 bytes are one value, and strncpy to or from a page is one *)
(* step once the page is resident.  Every write to msi_array, every        *)
(* message and every change of residency is a step of its own wherever     *)
(* another thread can see the difference.                                  *)
(***************************************************************************)
EXTENDS Integers, Sequences

CONSTANTS
  NumPages,   \* pages in the region (len / page_size)
  Msgs,       \* the texts a user may type
  Zero,       \* a page of zero bytes: what memset leaves, and the empty text
  Absent,     \* the content of a page that is not resident
  SockCap     \* requests a connection buffers before sent_request blocks

ASSUME NumPagesAssumption == NumPages \in Nat \ {0}
ASSUME SockCapAssumption == SockCap \in Nat \ {0}
ASSUME AbsentAssumption == Absent \notin Msgs \cup {Zero}

Proc == {0, 1}
Peer(p) == 1 - p
Page == 0 .. NumPages - 1
Values == Msgs \cup {Zero}
Thread == {"main", "server"}      \* the threads that touch the region

VARIABLES
  msi,     \* msi[p][x]: msi_array of p
  mem,     \* mem[p][x]: text of p's page x, Absent when not resident
  req,     \* req[p]: requests p has sent that the peer's server has not read
  resp,    \* resp[p]: replies the peer's server has written, unread by p
  alive,   \* alive[p]: the process exists
  mpc,     \* mpc[p]: where main is in the command loop
  job,     \* job[p]: the command main is executing
  spc,     \* spc[p]: where server_thread is
  spg,     \* spg[p]: request.which_page (0 between requests)
  fpc,     \* fpc[p]: where fault_handler_thread is
  fpg,     \* fpg[p]: page_faulted (0 between faults)
  buf,     \* buf[p]: the handler's staging page
  fault,   \* fault[p][t]: state of thread t's message in p's userfaultfd
  line     \* history: the last page text either process printed

msiVars  == <<msi, mem>>
netVars  == <<req, resp>>
mainVars == <<mpc, job>>
srvVars  == <<spc, spg>>
hndVars  == <<fpc, fpg, buf>>
vars == <<msi, mem, req, resp, alive, mpc, job, spc, spg, fpc, fpg, buf,
          fault, line>>

NoJob == [op |-> "r", page |-> 0, scope |-> "one", txt |-> Zero]
NoLine == [proc |-> 0, page |-> 0, text |-> Absent]

Request == [type : {"F", "I"}, page : Page]
Job == [op : {"r", "w"}, page : Page, scope : {"one", "all"}, txt : Values]
Line == [proc : Proc, page : Page, text : Values \cup {Absent}]

\* A reply is the byte '0' or '1', or the page that follows a '1'.
Reply == [kind : {"0", "1"}] \cup [kind : {"page"}, text : Values]
No == [kind |-> "0"]
Yes == [kind |-> "1"]
Text(v) == [kind |-> "page", text |-> v]

(***************************************************************************)
(* Both processes have mapped the region, set every entry of msi_array to  *)
(* INVALID and started their threads; nothing is resident.                 *)
(***************************************************************************)
Init ==
  /\ msi = [p \in Proc |-> [x \in Page |-> "I"]]
  /\ mem = [p \in Proc |-> [x \in Page |-> Absent]]
  /\ req = [p \in Proc |-> <<>>]
  /\ resp = [p \in Proc |-> <<>>]
  /\ alive = [p \in Proc |-> TRUE]
  /\ mpc = [p \in Proc |-> "prompt"]
  /\ job = [p \in Proc |-> NoJob]
  /\ spc = [p \in Proc |-> "read"]
  /\ spg = [p \in Proc |-> 0]
  /\ fpc = [p \in Proc |-> "poll"]
  /\ fpg = [p \in Proc |-> 0]
  /\ buf = [p \in Proc |-> Zero]
  /\ fault = [p \in Proc |-> [t \in Thread |-> "none"]]
  /\ line = NoLine

-----------------------------------------------------------------------------
(* Helpers shared by the threads                                           *)

\* Thread t of p runs: the process exists and t does not sleep in a fault.
Runs(p, t) == alive[p] /\ fault[p][t] = "none"

Resident(p, x) == mem[p][x] # Absent

\* The page thread t is working on.
PageOf(p, t) == IF t = "main" THEN job[p].page ELSE spg[p]

\* sent_request: blocks while the connection is full; bytes written to a
\* peer that is gone reach nobody.
SentRequest(p, type, x) ==
  IF alive[Peer(p)]
  THEN /\ Len(req[p]) < SockCap
       /\ req' = [req EXCEPT ![p] = Append(@, [type |-> type, page |-> x])]
  ELSE UNCHANGED req

\* server_thread's write to the peer's fault handler.
Answer(p, reply) ==
  resp' = IF alive[Peer(p)]
          THEN [resp EXCEPT ![Peer(p)] = Append(@, reply)]
          ELSE resp

\* Touching a page that is not resident puts the thread to sleep with a
\* message queued on the process's userfaultfd.
PageFault(p, t) ==
  /\ Runs(p, t)
  /\ ~Resident(p, PageOf(p, t))
  /\ fault' = [fault EXCEPT ![p][t] = "queued"]

\* The process ends: its memory and its threads are gone, and with them the
\* replies nobody has read.  What it has sent stays on its way to the peer.
Gone(p) ==
  /\ alive' = [alive EXCEPT ![p] = FALSE]
  /\ msi' = [msi EXCEPT ![p] = [x \in Page |-> "I"]]
  /\ mem' = [mem EXCEPT ![p] = [x \in Page |-> Absent]]
  /\ resp' = [resp EXCEPT ![p] = <<>>]
  /\ mpc' = [mpc EXCEPT ![p] = "prompt"]
  /\ job' = [job EXCEPT ![p] = NoJob]
  /\ spc' = [spc EXCEPT ![p] = "read"]
  /\ spg' = [spg EXCEPT ![p] = 0]
  /\ fpc' = [fpc EXCEPT ![p] = "poll"]
  /\ fpg' = [fpg EXCEPT ![p] = 0]
  /\ buf' = [buf EXCEPT ![p] = Zero]
  /\ fault' = [fault EXCEPT ![p] = [t \in Thread |-> "none"]]
  /\ UNCHANGED <<req, line>>

Show(p, x) == line' = [proc |-> p, page |-> x, text |-> mem[p][x]]

-----------------------------------------------------------------------------
(* main: the command loop                                                  *)

\* The pages the rest of main's command still touches.
Covers(p, x) ==
  /\ mpc[p] # "prompt"
  /\ x = job[p].page \/ (job[p].scope = "all" /\ x > job[p].page)

\* Faulty variant of NextPage: the bound of the page loop is off by one.
NextPageOffByOne(p) ==
  IF job[p].scope = "all" /\ job[p].page + 1 <= NumPages
  THEN /\ job' = [job EXCEPT ![p].page = @ + 1]
       /\ mpc' = [mpc EXCEPT ![p] = IF job[p].op = "r" THEN "load" ELSE "store"]
  ELSE /\ job' = [job EXCEPT ![p] = NoJob]
       /\ mpc' = [mpc EXCEPT ![p] = "prompt"]

\* End of one page of a command: the next page of a command on all pages,
\* else the prompt.
NextPage(p) ==
  IF job[p].scope = "all" /\ job[p].page + 1 < NumPages
  THEN /\ job' = [job EXCEPT ![p].page = @ + 1]
       /\ mpc' = [mpc EXCEPT ![p] = IF job[p].op = "r" THEN "load" ELSE "store"]
  ELSE /\ job' = [job EXCEPT ![p] = NoJob]
       /\ mpc' = [mpc EXCEPT ![p] = "prompt"]

\* The command for one page, or from the first page on for all (-1).
Typed(op, which, txt) ==
  [op |-> op, txt |-> txt,
   scope |-> IF which = -1 THEN "all" ELSE "one",
   page |-> IF which = -1 THEN 0 ELSE which]

\* The user types r or w, a text for w, and a page or -1 for all.  Commands
\* that are rejected, and v, which only prints msi_array, change nothing.
Start(p, op, which, txt) ==
  /\ alive[p]
  /\ mpc[p] = "prompt"
  /\ job' = [job EXCEPT ![p] = Typed(op, which, txt)]
  /\ mpc' = [mpc EXCEPT ![p] = IF op = "r" THEN "load" ELSE "store"]
  /\ UNCHANGED <<msiVars, netVars, alive, srvVars, hndVars, fault, line>>

\* End of input at a prompt: main returns.  The process may also be interrupted
\* or killed at any moment, whatever its threads are doing.
Exit(p) == alive[p] /\ Gone(p)

MainFault(p) ==
  /\ mpc[p] \in {"load", "store", "echo"}
  /\ PageFault(p, "main")
  /\ UNCHANGED <<msiVars, netVars, alive, mainVars, srvVars, hndVars, line>>

\* strncpy from the page.  A read of one page prints the private copy; a
\* read of all pages then prints from the page itself.
Load(p) ==
  /\ mpc[p] = "load"
  /\ Runs(p, "main")
  /\ Resident(p, job[p].page)
  /\ IF job[p].scope = "all"
     THEN /\ mpc' = [mpc EXCEPT ![p] = "echo"]
          /\ UNCHANGED <<job, line>>
     ELSE Show(p, job[p].page) /\ NextPage(p)
  /\ UNCHANGED <<msiVars, netVars, alive, srvVars, hndVars, fault>>

\* strncpy to the page.
Store(p) ==
  /\ mpc[p] = "store"
  /\ Runs(p, "main")
  /\ Resident(p, job[p].page)
  /\ mem' = [mem EXCEPT ![p][job[p].page] = job[p].txt]
  /\ mpc' = [mpc EXCEPT ![p] = "mark"]
  /\ UNCHANGED <<msi, netVars, alive, job, srvVars, hndVars, fault, line>>

\* msi_array[i] = MODIFIED
Mark(p) ==
  /\ mpc[p] = "mark"
  /\ alive[p]
  /\ msi' = [msi EXCEPT ![p][job[p].page] = "M"]
  /\ mpc' = [mpc EXCEPT ![p] = "echo"]
  /\ UNCHANGED <<mem, netVars, alive, job, srvVars, hndVars, fault, line>>

\* printf from the page: after a write, and in a read of all pages.
Echo(p) ==
  /\ mpc[p] = "echo"
  /\ Runs(p, "main")
  /\ Resident(p, job[p].page)
  /\ Show(p, job[p].page)
  /\ IF job[p].op = "r"
     THEN NextPage(p)
     ELSE mpc' = [mpc EXCEPT ![p] = "send"] /\ UNCHANGED job
  /\ UNCHANGED <<msiVars, netVars, alive, srvVars, hndVars, fault>>

\* sent_request('I', i)
SendInvalidate(p) ==
  /\ mpc[p] = "send"
  /\ alive[p]
  /\ SentRequest(p, "I", job[p].page)
  /\ NextPage(p)
  /\ UNCHANGED <<msiVars, resp, alive, srvVars, hndVars, fault, line>>

-----------------------------------------------------------------------------
(* server_thread                                                           *)

\* A request of the given type is at the head of the peer's connection.
Incoming(p, type) ==
  /\ alive[p]
  /\ spc[p] = "read"
  /\ req[Peer(p)] # <<>>
  /\ Head(req[Peer(p)]).type = type

TakeRequest(p) ==
  /\ spg' = [spg EXCEPT ![p] = Head(req[Peer(p)]).page]
  /\ req' = [req EXCEPT ![Peer(p)] = Tail(@)]

\* Back to read(); the request just handled is forgotten.
NextRequest(p) ==
  /\ spc' = [spc EXCEPT ![p] = "read"]
  /\ spg' = [spg EXCEPT ![p] = 0]

\* Faulty variant of ServeInvalid: the entry is left INVALID.
ServeInvalidUnshared(p) ==
  /\ Incoming(p, "F")
  /\ msi[p][Head(req[Peer(p)]).page] = "I"
  /\ req' = [req EXCEPT ![Peer(p)] = Tail(@)]
  /\ Answer(p, No)
  /\ UNCHANGED <<msiVars, alive, mainVars, srvVars, hndVars, fault, line>>

\* Faulty variant of ServeInvalid: nothing is answered.
ServeInvalidSilent(p) ==
  /\ Incoming(p, "F")
  /\ msi[p][Head(req[Peer(p)]).page] = "I"
  /\ TakeRequest(p)
  /\ spc' = [spc EXCEPT ![p] = "share"]
  /\ UNCHANGED <<msiVars, resp, alive, mainVars, hndVars, fault, line>>

\* 'F' while the page is INVALID here too: answer '0', then share.
ServeInvalid(p) ==
  /\ Incoming(p, "F")
  /\ msi[p][Head(req[Peer(p)]).page] = "I"
  /\ TakeRequest(p)
  /\ Answer(p, No)
  /\ spc' = [spc EXCEPT ![p] = "share"]
  /\ UNCHANGED <<msiVars, alive, mainVars, hndVars, fault, line>>

\* 'F' otherwise: answer '1'; the page follows.
ServeValid(p) ==
  /\ Incoming(p, "F")
  /\ msi[p][Head(req[Peer(p)]).page] # "I"
  /\ TakeRequest(p)
  /\ Answer(p, Yes)
  /\ spc' = [spc EXCEPT ![p] = "page"]
  /\ UNCHANGED <<msiVars, alive, mainVars, hndVars, fault, line>>

\* write() of the page touches it from the server thread.
ServerFault(p) ==
  /\ spc[p] = "page"
  /\ PageFault(p, "server")
  /\ UNCHANGED <<msiVars, netVars, alive, mainVars, srvVars, hndVars, line>>

SendPage(p) ==
  /\ spc[p] = "page"
  /\ Runs(p, "server")
  /\ Resident(p, spg[p])
  /\ Answer(p, Text(mem[p][spg[p]]))
  /\ spc' = [spc EXCEPT ![p] = "share"]
  /\ UNCHANGED <<msiVars, req, alive, mainVars, spg, hndVars, fault, line>>

\* msi_array[request.which_page] = SHARED
Share(p) ==
  /\ spc[p] = "share"
  /\ alive[p]
  /\ msi' = [msi EXCEPT ![p][spg[p]] = "S"]
  /\ NextRequest(p)
  /\ UNCHANGED <<mem, netVars, alive, mainVars, hndVars, fault, line>>

\* Faulty variant of Drop: the page stays mapped.
DropSkipped(p) ==
  /\ Incoming(p, "I")
  /\ TakeRequest(p)
  /\ spc' = [spc EXCEPT ![p] = "inval"]
  /\ UNCHANGED <<msiVars, resp, alive, mainVars, hndVars, fault, line>>

\* 'I': madvise(MADV_DONTNEED) drops the page ...
Drop(p) ==
  /\ Incoming(p, "I")
  /\ TakeRequest(p)
  /\ mem' = [mem EXCEPT ![p][Head(req[Peer(p)]).page] = Absent]
  /\ spc' = [spc EXCEPT ![p] = "inval"]
  /\ UNCHANGED <<msi, resp, alive, mainVars, hndVars, fault, line>>

\* Faulty variant of Invalidate: the entry keeps its state.
InvalidateForgotten(p) ==
  /\ spc[p] = "inval"
  /\ alive[p]
  /\ NextRequest(p)
  /\ UNCHANGED <<msiVars, netVars, alive, mainVars, hndVars, fault, line>>

\* ... and only then the entry becomes INVALID.
Invalidate(p) ==
  /\ spc[p] = "inval"
  /\ alive[p]
  /\ msi' = [msi EXCEPT ![p][spg[p]] = "I"]
  /\ NextRequest(p)
  /\ UNCHANGED <<mem, netVars, alive, mainVars, hndVars, fault, line>>

\* Faulty variant of Reset: the end of the connection is ignored.
ResetIgnored(p) ==
  /\ alive[p]
  /\ spc[p] = "read"
  /\ ~alive[Peer(p)]
  /\ req[Peer(p)] = <<>>
  /\ UNCHANGED vars

\* read() returns 0 once the peer is gone and its requests are consumed.
Reset(p) ==
  /\ alive[p]
  /\ spc[p] = "read"
  /\ ~alive[Peer(p)]
  /\ req[Peer(p)] = <<>>
  /\ Gone(p)

-----------------------------------------------------------------------------
(* fault_handler_thread                                                    *)

\* Read a queued message, clear the staging page, and decide by msi_array
\* whether the peer must be asked.  (The memset is taken at the end of the
\* previous round, in Copy: the page is not read in between.)
TakeFault(p, t) ==
  /\ alive[p]
  /\ fpc[p] = "poll"
  /\ fault[p][t] = "queued"
  /\ fault' = [fault EXCEPT ![p][t] = "read"]
  /\ fpg' = [fpg EXCEPT ![p] = PageOf(p, t)]
  /\ fpc' = [fpc EXCEPT ![p] = IF msi[p][PageOf(p, t)] = "I"
                               THEN "fetch" ELSE "copy"]
  /\ UNCHANGED <<msiVars, netVars, alive, mainVars, srvVars, buf, line>>

\* sent_request('F', page_faulted)
SendFetch(p) ==
  /\ fpc[p] = "fetch"
  /\ alive[p]
  /\ SentRequest(p, "F", fpg[p])
  /\ fpc' = [fpc EXCEPT ![p] = "await"]
  /\ UNCHANGED <<msiVars, resp, alive, mainVars, srvVars, fpg, buf, fault, line>>

\* The handler is at pc and a reply of the given kind is next to be read.
Reading(p, pc, kind) ==
  /\ alive[p]
  /\ fpc[p] = pc
  /\ resp[p] # <<>>
  /\ Head(resp[p]).kind = kind

\* '0': the peer has no copy either; the zero page becomes the shared one.
GetInvalid(p) ==
  /\ Reading(p, "await", "0")
  /\ resp' = [resp EXCEPT ![p] = Tail(@)]
  /\ msi' = [msi EXCEPT ![p][fpg[p]] = "S"]
  /\ fpc' = [fpc EXCEPT ![p] = "copy"]
  /\ UNCHANGED <<mem, req, alive, mainVars, srvVars, fpg, buf, fault, line>>

\* Faulty variant of GetValid: the page after the '1' is not read.
GetValidOnly(p) ==
  /\ Reading(p, "await", "1")
  /\ resp' = [resp EXCEPT ![p] = Tail(@)]
  /\ msi' = [msi EXCEPT ![p][fpg[p]] = "S"]
  /\ fpc' = [fpc EXCEPT ![p] = "copy"]
  /\ UNCHANGED <<mem, req, alive, mainVars, srvVars, fpg, buf, fault, line>>

\* '1': the page follows.
GetValid(p) ==
  /\ Reading(p, "await", "1")
  /\ resp' = [resp EXCEPT ![p] = Tail(@)]
  /\ fpc' = [fpc EXCEPT ![p] = "awaitpage"]
  /\ UNCHANGED <<msiVars, req, alive, mainVars, srvVars, fpg, buf, fault, line>>

\* Faulty variant of GetPage: the text does not reach the staging page.
GetPageLost(p) ==
  /\ Reading(p, "awaitpage", "page")
  /\ resp' = [resp EXCEPT ![p] = Tail(@)]
  /\ msi' = [msi EXCEPT ![p][fpg[p]] = "S"]
  /\ fpc' = [fpc EXCEPT ![p] = "copy"]
  /\ UNCHANGED <<mem, req, alive, mainVars, srvVars, fpg, buf, fault, line>>

\* The page itself; then the copy is SHARED.
GetPage(p) ==
  /\ Reading(p, "awaitpage", "page")
  /\ resp' = [resp EXCEPT ![p] = Tail(@)]
  /\ buf' = [buf EXCEPT ![p] = Head(resp[p]).text]
  /\ msi' = [msi EXCEPT ![p][fpg[p]] = "S"]
  /\ fpc' = [fpc EXCEPT ![p] = "copy"]
  /\ UNCHANGED <<mem, req, alive, mainVars, srvVars, fpg, fault, line>>

\* read() returns 0: the peer is gone.  response is then an uninitialised
\* char; '0' and '1' (followed by another empty read) make the page SHARED,
\* any other value leaves the entry alone.  The zero page is installed.
GetNothing(p) ==
  /\ alive[p]
  /\ fpc[p] \in {"await", "awaitpage"}
  /\ ~alive[Peer(p)]
  /\ resp[p] = <<>>
  /\ \/ msi' = [msi EXCEPT ![p][fpg[p]] = "S"]
     \/ fpc[p] = "await" /\ UNCHANGED msi
  /\ fpc' = [fpc EXCEPT ![p] = "copy"]
  /\ UNCHANGED <<mem, netVars, alive, mainVars, srvVars, fpg, buf, fault, line>>

\* Faulty variant of Copy: only the thread whose message was read wakes.
CopyWakesOne(p) ==
  /\ alive[p]
  /\ fpc[p] = "copy"
  /\ mem' = [mem EXCEPT ![p][fpg[p]] = buf[p]]
  /\ fault' = [fault EXCEPT ![p] =
                 [t \in Thread |-> IF @[t] = "read" THEN "none" ELSE @[t]]]
  /\ fpc' = [fpc EXCEPT ![p] = "poll"]
  /\ fpg' = [fpg EXCEPT ![p] = 0]
  /\ buf' = [buf EXCEPT ![p] = Zero]
  /\ UNCHANGED <<msi, netVars, alive, mainVars, srvVars, line>>

\* UFFDIO_COPY installs the staging page and wakes every thread that sleeps
\* on it, whether or not its own message was read.
Copy(p) ==
  /\ alive[p]
  /\ fpc[p] = "copy"
  /\ mem' = [mem EXCEPT ![p][fpg[p]] = buf[p]]
  /\ fault' = [fault EXCEPT ![p] =
                 [t \in Thread |-> IF PageOf(p, t) = fpg[p] THEN "none" ELSE @[t]]]
  /\ fpc' = [fpc EXCEPT ![p] = "poll"]
  /\ fpg' = [fpg EXCEPT ![p] = 0]
  /\ buf' = [buf EXCEPT ![p] = Zero]
  /\ UNCHANGED <<msi, netVars, alive, mainVars, srvVars, line>>

-----------------------------------------------------------------------------
\* A thread of p is about to write to a connection.
Writes(p) ==
  \/ mpc[p] = "send"
  \/ fpc[p] = "fetch"
  \/ spc[p] = "page" /\ Runs(p, "server") /\ Resident(p, spg[p])
  \/ Incoming(p, "F")

\* A connection the dead peer has reset fails: write raises SIGPIPE, and a
\* read of the reply takes errExit.  Either ends the process.
Broken(p) ==
  /\ alive[p]
  /\ ~alive[Peer(p)]
  /\ Writes(p) \/ (fpc[p] \in {"await", "awaitpage"} /\ resp[p] = <<>>)
  /\ Gone(p)

MainStep(p) ==
  \/ MainFault(p) \/ Load(p) \/ Store(p) \/ Mark(p) \/ Echo(p)
  \/ SendInvalidate(p)

ServerStep(p) ==
  \/ ServeInvalid(p) \/ ServeValid(p) \/ ServerFault(p) \/ SendPage(p)
  \/ Share(p) \/ Drop(p) \/ Invalidate(p) \/ Reset(p)

HandlerStep(p) ==
  \/ \E t \in Thread : TakeFault(p, t)
  \/ SendFetch(p) \/ GetInvalid(p) \/ GetValid(p) \/ GetPage(p)
  \/ GetNothing(p) \/ Copy(p)

\* What the process does without its user, and how it may end.
Internal(p) == MainStep(p) \/ ServerStep(p) \/ HandlerStep(p) \/ Broken(p)

Command(p, which) ==
  \/ Start(p, "r", which, Zero)
  \/ \E txt \in Msgs : Start(p, "w", which, txt)

\* Users who type whenever they like.
Next ==
  \E p \in Proc :
    \/ \E which \in Page \cup {-1} : Command(p, which)
    \/ Exit(p)
    \/ Internal(p)

\* Every thread is scheduled by the kernel; users need not type.
Fairness ==
  \A p \in Proc : /\ WF_vars(MainStep(p))
                  /\ WF_vars(ServerStep(p))
                  /\ WF_vars(HandlerStep(p))

Spec == Init /\ [][Next]_vars
FairSpec == Spec /\ Fairness

-----------------------------------------------------------------------------
(* Properties of every behaviour of Spec                                   *)

\* Every variable, program counter and message has its type.
TypeOK ==
  /\ msi \in [Proc -> [Page -> {"M", "S", "I"}]]
  /\ mem \in [Proc -> [Page -> Values \cup {Absent}]]
  /\ req \in [Proc -> Seq(Request)]
  /\ resp \in [Proc -> Seq(Reply)]
  /\ alive \in [Proc -> BOOLEAN]
  /\ mpc \in [Proc -> {"prompt", "load", "store", "mark", "echo", "send"}]
  /\ job \in [Proc -> Job]
  /\ spc \in [Proc -> {"read", "page", "share", "inval"}]
  /\ spg \in [Proc -> Page]
  /\ fpc \in [Proc -> {"poll", "fetch", "await", "awaitpage", "copy"}]
  /\ fpg \in [Proc -> Page]
  /\ buf \in [Proc -> Values]
  /\ fault \in [Proc -> [Thread -> {"none", "queued", "read"}]]
  /\ line \in Line

\* An 'F' of p that its peer's server has not read.
FetchAt(p, i) == i \in 1 .. Len(req[p]) /\ req[p][i].type = "F"

\* The replies a waiting handler may find on its connection.
Answers(pc) ==
  CASE pc = "await" -> {<<>>, <<No>>, <<Yes>>} \cup {<<Yes, Text(v)>> : v \in Values}
    [] pc = "awaitpage" -> {<<>>} \cup {<<Text(v)>> : v \in Values}
    [] OTHER -> {<<>>}

\* A reply carries no page number: the handler takes whatever comes next on
\* the connection as the answer to its fetch.  So, while both processes live,
\* at most one fetch of p is on its way and asks for the page the handler
\* waits for; while it is unread nothing has been answered; a server that is
\* sending a page sends that one; and the connection never holds a reply, or
\* a part of one, beyond what the handler is waiting for.
FetchOnce(p) == \A i, j \in 1 .. Len(req[p]) : FetchAt(p, i) /\ FetchAt(p, j) => i = j

FetchAwaited(p) ==
  \A i \in 1 .. Len(req[p]) : FetchAt(p, i) =>
    /\ fpc[p] = "await" /\ req[p][i].page = fpg[p]
    /\ resp[p] = <<>> /\ spc[Peer(p)] # "page"

PageAwaited(p) ==
  spc[Peer(p)] = "page" =>
    /\ spg[Peer(p)] = fpg[p]
    /\ \/ fpc[p] = "await" /\ resp[p] = <<Yes>>
       \/ fpc[p] = "awaitpage" /\ resp[p] = <<>>

ReplyAwaited(p) == resp[p] \in Answers(fpc[p])

FetchMatched(p) ==
  alive[p] /\ alive[Peer(p)] =>
    FetchOnce(p) /\ FetchAwaited(p) /\ PageAwaited(p) /\ ReplyAwaited(p)

FetchMatches == \A p \in Proc : FetchMatched(p)

\* A thread asleep on a page is never forgotten and the handler never
\* installs over a resident page (UFFDIO_COPY would fail with EEXIST and end
\* the process): a sleeping thread's page is absent, its message is queued or
\* the handler is working on exactly its page, and the page the handler
\* works on is absent, although the server may drop pages meanwhile and both
\* threads may sleep on one page.
SleeperAccounted(p, t) ==
  /\ fault[p][t] # "none" => ~Resident(p, PageOf(p, t))
  /\ fault[p][t] = "read" => fpc[p] # "poll" /\ fpg[p] = PageOf(p, t)

HandlerOnAbsentPage(p) ==
  fpc[p] # "poll" =>
    ~Resident(p, fpg[p]) /\ \E t \in Thread : fault[p][t] = "read"

FaultsAccounted ==
  \A p \in Proc : HandlerOnAbsentPage(p) /\ \A t \in Thread : SleeperAccounted(p, t)

\* Again and again both processes exist or neither does.  Since no process
\* comes back, this says that when one is gone the other ends too: its server
\* reads the end of the connection, whatever its threads were waiting for.
ExitPropagates == []<>(alive[0] = alive[1])

=============================================================================
