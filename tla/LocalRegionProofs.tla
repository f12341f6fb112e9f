------------------------- MODULE LocalRegionProofs -------------------------
(***************************************************************************)
(* LocalRegion implements SharedMemory for every number of pages and every *)
(* set of texts.                                                           *)
(***************************************************************************)
EXTENDS LocalRegion, TLAPS

USE LocalRegionAssumption DEF Page, Values

\* Where main is tells what it does: a read loads, a write stores and echoes;
\* the handler works only while main sleeps, and main sleeps only on a page
\* that is absent and echoes only one that is resident.
Control ==
  /\ mpc = "load" => job.op = "r"
  /\ mpc \in {"store", "echo"} => job.op = "w"
  /\ hpc = "copy" => mpc = "faulted"
  /\ mpc = "faulted" => mem[job.page] = Absent
  /\ mpc = "echo" => mem[job.page] # Absent

IInv == TypeOK /\ Control

-----------------------------------------------------------------------------
(* The invariant                                                           *)

\* The typed command is a command.
LEMMA TypedType ==
  ASSUME NEW op \in {"r", "w"}, NEW which \in Page \cup {-1}, NEW txt \in Values
  PROVE  Typed(op, which, txt) \in
           [op : {"r", "w"}, page : Page, scope : {"one", "all"}, txt : Values]
  BY DEF Typed

\* Going on to the next page keeps the command typed, and its operation.
LEMMA NextPageType ==
  ASSUME TypeOK, NextPage
  PROVE  /\ job' \in [op : {"r", "w"}, page : Page, scope : {"one", "all"}, txt : Values]
         /\ \/ mpc' = "prompt"
            \/ mpc' = Access /\ job'.op = job.op
  BY DEF TypeOK, NextPage, NoJob, Access

LEMMA InitIInv == Init => IInv
  BY DEF Init, IInv, TypeOK, Control, NoJob, NoLine

LEMMA StepIInv == IInv /\ [Next]_vars => IInv'
<1> SUFFICES ASSUME IInv, [Next]_vars PROVE IInv'
  OBVIOUS
<1> USE DEF IInv
<1>1. ASSUME NEW op \in {"r", "w"}, NEW which \in Page \cup {-1}, NEW txt \in Values,
             Start(op, which, txt)
      PROVE  IInv'
  <2>1. job' \in [op : {"r", "w"}, page : Page, scope : {"one", "all"}, txt : Values]
    BY <1>1, TypedType DEF Start
  <2>2. job'.op = op
    BY <1>1 DEF Start, Typed
  <2> QED
    BY <1>1, <2>1, <2>2 DEF Start, TypeOK, Control
<1>2. CASE Exit
  BY <1>2 DEF Exit, TypeOK, Control
<1>3. CASE Fault
  BY <1>3 DEF Fault, TypeOK, Control
<1>4. CASE Load
  <2>1. line' \in [proc : {0}, page : Page, text : Values \cup {Absent}]
    BY <1>4 DEF Load, Show, TypeOK
  <2> QED
    BY <1>4, <2>1, NextPageType DEF Load, TypeOK, Control, Access
<1>5. CASE Store
  BY <1>5 DEF Store, TypeOK, Control
<1>6. CASE Echo
  <2>1. line' \in [proc : {0}, page : Page, text : Values \cup {Absent}]
    BY <1>6 DEF Echo, Show, TypeOK
  <2> QED
    BY <1>6, <2>1, NextPageType DEF Echo, TypeOK, Control, Access
<1>7. CASE TakeFault
  BY <1>7 DEF TakeFault, TypeOK, Control
<1>8. CASE Copy
  BY <1>8 DEF Copy, TypeOK, Control, Access
<1>9. CASE UNCHANGED vars
  BY <1>9 DEF vars, TypeOK, Control
<1> QED
  BY <1>1, <1>2, <1>3, <1>4, <1>5, <1>6, <1>7, <1>8, <1>9
     DEF Next, MainStep, HandlerStep

\* Every variable keeps its type: no command leaves the region, and the
\* handler is where it may be.
THEOREM TypeCorrect == Spec => []TypeOK
<1>1. Spec => []IInv
  BY InitIInv, StepIInv, PTL DEF Spec
<1>2. IInv => TypeOK
  BY DEF IInv
<1> QED
  BY <1>1, <1>2, PTL

-----------------------------------------------------------------------------
(* Refinement                                                              *)

\* Going on to the next page leaves what is still to be written.
LEMMA NextPageAsked ==
  ASSUME TypeOK, NextPage, alive' = alive,
         (mpc = "echo" /\ job.op = "w") \/ (mpc = "load" /\ job.op = "r")
  PROVE  Asked' = Asked
<1>1. CASE job.op = "r"
  <2>1. ToWrite = {}
    BY <1>1 DEF ToWrite
  <2>2. ToWrite' = {}
    BY <1>1 DEF ToWrite, NextPage, NoJob, TypeOK
  <2> QED
    BY <2>1, <2>2 DEF Asked
<1>2. CASE job.op = "w" /\ job.scope = "all" /\ job.page + 1 < NumPages
  <2>1. /\ job'.page = job.page + 1 /\ job'.op = "w" /\ job'.scope = "all"
        /\ job'.txt = job.txt /\ mpc' = "store"
    BY <1>2 DEF NextPage, TypeOK, Access
  <2>2. ToWrite' = ToWrite
    <3>1. ToWrite = {x \in Page : x > job.page}
      BY <1>2 DEF ToWrite, TypeOK
    <3>2. ToWrite' = {x \in Page : x = job.page + 1 \/ x > job.page + 1}
      BY <2>1 DEF ToWrite
    <3> QED
      BY <3>1, <3>2 DEF TypeOK
  <2> QED
    BY <2>1, <2>2 DEF Asked
<1>3. CASE job.op = "w" /\ ~(job.scope = "all" /\ job.page + 1 < NumPages)
  <2>1. ToWrite = {}
    BY <1>3 DEF ToWrite, TypeOK
  <2>2. ToWrite' = {}
    BY <1>3 DEF ToWrite, NextPage
  <2> QED
    BY <2>1, <2>2 DEF Asked
<1> QED
  BY <1>1, <1>2, <1>3 DEF TypeOK

\* Printing a resident page is an output of the abstract memory.
LEMMA ShowOutput ==
  ASSUME IInv, alive, UNCHANGED <<mem, alive>>, mem[job.page] # Absent,
         Show(job.page), Asked' = Asked
  PROVE  Memory!Output(0, job.page)
<1>1. Contents' = Contents
  BY DEF Contents
<1>2. Contents[job.page] = mem[job.page]
  BY DEF Contents, IInv, TypeOK
<1>3. Printed' = [proc |-> 0, page |-> job.page, text |-> Contents[job.page]]
  BY <1>2 DEF Printed, Show
<1> QED
  BY <1>1, <1>3 DEF Memory!Output

\* The state of the abstract memory depends on these variables only.
LEMMA Stutter ==
  ASSUME Contents' = Contents, Asked' = Asked, Printed' = Printed, alive' = alive
  PROVE  UNCHANGED Memory!vars
  BY DEF Memory!vars

LEMMA InitMemory == Init => Memory!Init
<1> SUFFICES ASSUME Init PROVE Memory!Init
  OBVIOUS
<1>1. Contents = [x \in Page |-> Zero]
  BY DEF Init, Contents
<1>2. ToWrite = {}
  BY DEF Init, ToWrite
<1>3. Asked = [p \in {0} |-> {}]
  BY <1>2 DEF Asked
<1> QED
  BY <1>1, <1>3 DEF Init, Memory!Init, Printed

LEMMA StepMemory == IInv /\ [Next]_vars => [Memory!Next]_(Memory!vars)
<1> SUFFICES ASSUME IInv, [Next]_vars PROVE Memory!Next \/ UNCHANGED Memory!vars
  OBVIOUS
<1> USE DEF IInv
<1>1. ASSUME NEW which \in Page \cup {-1}, Start("r", which, Zero)
      PROVE  UNCHANGED Memory!vars
  <2>1. ToWrite = {} /\ ToWrite' = {}
    BY <1>1 DEF Start, Typed, ToWrite
  <2>2. Asked' = Asked
    BY <1>1, <2>1 DEF Start, Asked
  <2>3. Contents' = Contents /\ Printed' = Printed
    BY <1>1 DEF Start, Contents, Printed
  <2> QED
    BY <1>1, <2>2, <2>3, Stutter DEF Start
<1>2. ASSUME NEW which \in Page \cup {-1}, NEW txt \in Msgs, Start("w", which, txt)
      PROVE  Memory!Next
  <2>1. ToWrite = {}
    BY <1>2 DEF Start, ToWrite
  <2>2. Asked[0] = {}
    BY <2>1 DEF Asked
  <2>3. job'.txt = txt
    BY <1>2 DEF Start, Typed
  <2>4. Asked' = [Asked EXCEPT ![0] = {[page |-> x, text |-> txt] : x \in ToWrite'}]
    BY <1>2, <2>3 DEF Start, Asked
  <2>5. Contents' = Contents /\ Printed' = Printed
    BY <1>2 DEF Start, Contents, Printed
  <2>6. Memory!Ask(0, ToWrite', txt)
    BY <1>2, <2>2, <2>4, <2>5 DEF Start, Memory!Ask
  <2>7. ToWrite' \in SUBSET Page
    BY DEF ToWrite
  <2> QED
    BY <2>6, <2>7 DEF Memory!Next
<1>3. CASE Exit
  <2>1. Contents' = [x \in Page |-> Zero] /\ Asked' = [p \in {0} |-> {}] /\ Printed' = NoLine
    BY <1>3 DEF Exit, Contents, Asked, Printed
  <2> QED
    BY <1>3, <2>1 DEF Exit, Memory!Next, Memory!End
<1>4. CASE Fault
  <2>1. ToWrite' = ToWrite
    BY <1>4 DEF Fault, ToWrite
  <2>2. Asked' = Asked
    BY <1>4, <2>1 DEF Fault, Asked
  <2>3. Contents' = Contents /\ Printed' = Printed
    BY <1>4 DEF Fault, Contents, Printed
  <2> QED
    BY <1>4, <2>2, <2>3, Stutter DEF Fault
<1>5. CASE Load
  <2>1. Asked' = Asked
    BY <1>5, NextPageAsked DEF Load, Control
  <2>2. Memory!Output(0, job.page)
    BY <1>5, <2>1, ShowOutput DEF Load
  <2> QED
    BY <2>2 DEF Memory!Next, TypeOK
<1>6. CASE Store
  <2> DEFINE w == [page |-> job.page, text |-> job.txt]
  <2>1. ToWrite' = ToWrite \ {job.page} /\ job.page \in ToWrite
    BY <1>6 DEF Store, ToWrite, TypeOK, Control
  <2>2. Asked' = [Asked EXCEPT ![0] = @ \ {w}]
    BY <1>6, <2>1 DEF Store, Asked
  <2>3. w \in Asked[0]
    BY <1>6, <2>1 DEF Store, Asked
  <2>4. Contents' = [Contents EXCEPT ![job.page] = job.txt]
    BY <1>6 DEF Store, Contents, TypeOK
  <2>5. Printed' = Printed
    BY <1>6 DEF Store, Printed
  <2>6. Memory!Write(0, w)
    BY <1>6, <2>2, <2>4, <2>5 DEF Store, Memory!Write
  <2> QED
    BY <2>3, <2>6 DEF Memory!Next
<1>7. CASE Echo
  <2>1. Asked' = Asked
    <3>1. mpc = "echo" /\ job.op = "w"
      BY <1>7 DEF Echo, Control
    <3>2. NextPage /\ alive' = alive
      BY <1>7 DEF Echo
    <3> QED
      BY <3>1, <3>2, NextPageAsked
  <2>2. Memory!Output(0, job.page)
    <3>1. /\ alive /\ UNCHANGED <<mem, alive>> /\ Show(job.page)
          /\ mpc = "echo"
      BY <1>7 DEF Echo
    <3>2. mem[job.page] # Absent
      BY <3>1 DEF Control
    <3> QED
      BY <2>1, <3>1, <3>2, ShowOutput
  <2> QED
    BY <2>2 DEF Memory!Next, TypeOK
<1>8. CASE TakeFault
  <2>1. Asked' = Asked
    BY <1>8 DEF TakeFault, Asked, ToWrite
  <2>2. Contents' = Contents /\ Printed' = Printed
    BY <1>8 DEF TakeFault, Contents, Printed
  <2> QED
    BY <1>8, <2>1, <2>2, Stutter DEF TakeFault
<1>9. CASE Copy
  <2>1. mpc = "faulted" /\ mem[job.page] = Absent
    BY <1>9 DEF Copy, Control
  <2>2. ToWrite' = ToWrite
    BY <1>9, <2>1 DEF Copy, ToWrite, Access, TypeOK
  <2>3. Asked' = Asked
    BY <1>9, <2>2 DEF Copy, Asked
  <2>4. Contents' = Contents
    BY <1>9, <2>1 DEF Copy, Contents, TypeOK
  <2>5. Printed' = Printed
    BY <1>9 DEF Copy, Printed
  <2> QED
    BY <1>9, <2>3, <2>4, <2>5, Stutter DEF Copy
<1>10. CASE UNCHANGED vars
  BY <1>10, Stutter DEF vars, Contents, Asked, ToWrite, Printed
<1> QED
  BY <1>1, <1>2, <1>3, <1>4, <1>5, <1>6, <1>7, <1>8, <1>9, <1>10
     DEF Next, MainStep, HandlerStep

\* A process of P1c implements the memory: each write its user asks for
\* reaches each of its pages once, however pages fault in between, and each
\* line printed is the text last written to its page.
THEOREM ImplementsMemory == Spec => LocalMemory
<1>1. Spec => []IInv
  BY InitIInv, StepIInv, PTL DEF Spec
<1> QED
  BY <1>1, InitMemory, StepMemory, PTL DEF Spec, LocalMemory, Memory!Spec
=============================================================================
