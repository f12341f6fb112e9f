---------------------------- MODULE LocalRegion ----------------------------
(***************************************************************************)
(* One process of HW3P1/s2dsm_P1c.c once its region is mapped, registered  *)
(* with userfaultfd and its fault handler runs.  The two processes of      *)
(* P1c do not talk any more: each has a private region in which a page     *)
(* that was never touched is filled with zeros by the handler.             *)
(***************************************************************************)
EXTENDS Integers

CONSTANTS
  NumPages,   \* pages in the region (max_page)
  Msgs,       \* the texts a user may type
  Zero,       \* a page of zero bytes, and the empty text
  Absent      \* the content of a page that is not resident

ASSUME LocalRegionAssumption ==
  NumPages \in Nat \ {0} /\ Absent \notin Msgs \cup {Zero}

Page == 0 .. NumPages - 1
Values == Msgs \cup {Zero}

VARIABLES
  mem,    \* mem[x]: text of page x, Absent when not resident
  alive,  \* the process exists
  mpc,    \* where main is in the command loop
  job,    \* the command main is executing
  hpc,    \* where fault_handler_thread is: "poll", "copy"
  line    \* history: the last page text printed

vars == <<mem, alive, mpc, job, hpc, line>>

NoJob == [op |-> "r", page |-> 0, scope |-> "one", txt |-> Zero]
NoLine == [proc |-> 0, page |-> 0, text |-> Absent]

Init ==
  /\ mem = [x \in Page |-> Absent]
  /\ alive = TRUE
  /\ mpc = "prompt"
  /\ job = NoJob
  /\ hpc = "poll"
  /\ line = NoLine

Typed(op, which, txt) ==
  [op |-> op, txt |-> txt,
   scope |-> IF which = -1 THEN "all" ELSE "one",
   page |-> IF which = -1 THEN 0 ELSE which]

\* The user types r or w, a text for w, and a page or -1 for all; a command
\* that is not accepted changes nothing.
Start(op, which, txt) ==
  /\ alive
  /\ mpc = "prompt"
  /\ job' = Typed(op, which, txt)
  /\ mpc' = IF op = "r" THEN "load" ELSE "store"
  /\ UNCHANGED <<mem, alive, hpc, line>>

\* The end of the input at any prompt.
Exit ==
  /\ alive
  /\ mpc = "prompt"
  /\ alive' = FALSE
  /\ UNCHANGED <<mem, mpc, job, hpc, line>>

\* Touching a page that is not resident puts main to sleep; the handler wakes
\* it with the page.  "faulted" stands for main asleep before the access.
Fault ==
  /\ alive
  /\ mpc \in {"load", "store"}
  /\ mem[job.page] = Absent
  /\ mpc' = "faulted"
  /\ UNCHANGED <<mem, alive, job, hpc, line>>

Show(x) == line' = [proc |-> 0, page |-> x, text |-> mem[x]]

Access == IF job.op = "r" THEN "load" ELSE "store"

\* Faulty variant of NextPage: the loop over all pages ends one page late.
NextPageOffByOne ==
  IF job.scope = "all" /\ job.page + 1 <= NumPages
  THEN job' = [job EXCEPT !.page = @ + 1] /\ mpc' = Access
  ELSE job' = NoJob /\ mpc' = "prompt"

NextPage ==
  IF job.scope = "all" /\ job.page + 1 < NumPages
  THEN job' = [job EXCEPT !.page = @ + 1] /\ mpc' = Access
  ELSE job' = NoJob /\ mpc' = "prompt"

\* strncpy from the page into a buffer, which is printed.
Load ==
  /\ alive
  /\ mpc = "load"
  /\ mem[job.page] # Absent
  /\ Show(job.page)
  /\ NextPage
  /\ UNCHANGED <<mem, alive, hpc>>

\* strcpy to the page ...
Store ==
  /\ alive
  /\ mpc = "store"
  /\ mem[job.page] # Absent
  /\ mem' = [mem EXCEPT ![job.page] = job.txt]
  /\ mpc' = "echo"
  /\ UNCHANGED <<alive, job, hpc, line>>

\* ... which is then printed.
Echo ==
  /\ alive
  /\ mpc = "echo"
  /\ Show(job.page)
  /\ NextPage
  /\ UNCHANGED <<mem, alive, hpc>>

\* poll and read give the message of the sleeping main.
TakeFault ==
  /\ alive
  /\ hpc = "poll" /\ mpc = "faulted"
  /\ hpc' = "copy"
  /\ UNCHANGED <<mem, alive, mpc, job, line>>

\* Faulty variants of Copy: the page number is left out of the destination;
\* the thread is not woken.
CopyFirstPage ==
  /\ alive
  /\ hpc = "copy"
  /\ mem' = [mem EXCEPT ![0] = Zero]
  /\ mpc' = Access
  /\ hpc' = "poll"
  /\ UNCHANGED <<alive, job, line>>

CopyNoWake ==
  /\ alive
  /\ hpc = "copy"
  /\ mem' = [mem EXCEPT ![job.page] = Zero]
  /\ hpc' = "poll"
  /\ UNCHANGED <<alive, mpc, job, line>>

\* UFFDIO_COPY of the handler's page of zeros.
Copy ==
  /\ alive
  /\ hpc = "copy"
  /\ mem' = [mem EXCEPT ![job.page] = Zero]
  /\ mpc' = Access
  /\ hpc' = "poll"
  /\ UNCHANGED <<alive, job, line>>

MainStep == Fault \/ Load \/ Store \/ Echo
HandlerStep == TakeFault \/ Copy

Next ==
  \/ \E which \in Page \cup {-1} :
       \/ Start("r", which, Zero)
       \/ \E txt \in Msgs : Start("w", which, txt)
  \/ Exit
  \/ MainStep
  \/ HandlerStep

Spec == Init /\ [][Next]_vars

\* Both threads are scheduled; the user need not type.
FairSpec == Spec /\ WF_vars(MainStep) /\ WF_vars(HandlerStep)

-----------------------------------------------------------------------------
TypeOK ==
  /\ mem \in [Page -> Values \cup {Absent}]
  /\ alive \in BOOLEAN
  /\ mpc \in {"prompt", "load", "store", "echo", "faulted"}
  /\ job \in [op : {"r", "w"}, page : Page, scope : {"one", "all"}, txt : Values]
  /\ hpc \in {"poll", "copy"}
  /\ line \in [proc : {0}, page : Page, text : Values \cup {Absent}]

\* The pages the user has asked to write and main has not written.
ToWrite ==
  {x \in Page : /\ mpc # "prompt" /\ job.op = "w"
                /\ \/ x = job.page /\ mpc # "echo"
                   \/ x > job.page /\ job.scope = "all"}

\* Refinement: the texts a reader would find, the writes to come, the line.
Contents == [x \in Page |-> IF alive /\ mem[x] # Absent THEN mem[x] ELSE Zero]
Asked ==
  [p \in {0} |-> IF alive THEN {[page |-> x, text |-> job.txt] : x \in ToWrite} ELSE {}]
Printed == IF alive THEN line ELSE NoLine

Memory == INSTANCE SharedMemory
  WITH Procs <- {0}, Addrs <- Page, Texts <- Values, Blank <- Zero,
       NoLine <- NoLine, up <- alive, store <- Contents, todo <- Asked, out <- Printed

\* The process alone implements the memory that P2 is to share: a page reads
\* as empty before it is first written, a write reaches every page asked for
\* once, the handler's zeros never reach a page that has a text, and every
\* line printed is the text last written.
LocalMemory == Memory!Spec

\* Every command completes, faults included.
CommandsEnd == mpc # "prompt" ~> mpc = "prompt"
=============================================================================
