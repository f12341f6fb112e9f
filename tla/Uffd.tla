-------------------------------- MODULE Uffd --------------------------------
(***************************************************************************)
(* HW3P1/uffd/uffd.c: main walks eight times over a region registered with *)
(* userfaultfd, in steps of 1024 bytes; a second thread resolves its page  *)
(* faults with pages full of one letter each.  Loops 5 and 7 write, the    *)
(* others read; before loops 3 and 5 madvise drops all pages.  Addresses   *)
(* and the variable l count steps of 1024 bytes.                           *)
(***************************************************************************)
EXTENDS Integers, Sequences

CONSTANTS
  Sizes,    \* num-pages, as the user may give it
  Steps,    \* steps in a page (4)
  Letters,  \* letters before they repeat (20)
  IntMax,   \* greatest step an int can count
  At, Hat   \* '@' and '^'; a letter is its distance from 'A'

ASSUME UffdAssumption ==
  /\ Sizes \subseteq Nat
  /\ {Steps, Letters} \subseteq Nat \ {0} /\ IntMax \in Nat
  /\ At \notin Nat /\ Hat \notin Nat

VARIABLES
  pages,     \* len, in pages
  pc,        \* main: "start", "loop", "fault" (asleep), "exit"
  loop,      \* which of the eight loops
  l,         \* its variable
  mem,       \* page -> its bytes, one for each step: the resident pages
  hpc,       \* the handler: "poll", "fill", "copy"
  fault_cnt, \* pages filled so far
  page,      \* the handler's page: the letter it is full of
  out        \* out[k]: the characters loop k has printed

vars == <<pages, pc, loop, l, mem, hpc, fault_cnt, page, out>>
handlerVars == <<hpc, fault_cnt, page>>

Loops == 1 .. 8
Nothing == [x \in {} |-> 0]

Init ==
  /\ pages = 0
  /\ pc = "start"
  /\ loop = 1
  /\ l = 0
  /\ mem = Nothing
  /\ hpc = "poll"
  /\ fault_cnt = 0
  /\ page = 0
  /\ out = [k \in Loops |-> <<>>]

PageOf(x) == x \div Steps
Resident(x) == PageOf(x) \in DOMAIN mem

\* main maps and registers the region and creates the thread.
Map(n) ==
  /\ pc = "start"
  /\ n > 0
  /\ pages' = n
  /\ pc' = "loop"
  /\ UNCHANGED <<loop, l, mem, handlerVars, out>>

\* mmap refuses an empty region; or userfaultfd is not permitted.
MapFails ==
  /\ pc = "start"
  /\ pc' = "exit"
  /\ UNCHANGED <<pages, loop, l, mem, handlerVars, out>>

\* l < len compares as unsigned long: a negative l is greater than any len.
Inside == l >= 0 /\ l < pages * Steps

Fault ==
  /\ pc = "loop" /\ Inside
  /\ ~Resident(l)
  /\ pc' = "fault"
  /\ UNCHANGED <<pages, loop, l, mem, handlerVars, out>>

Written == CASE loop = 5 -> At [] loop = 7 -> Hat [] OTHER -> mem[PageOf(l)][1 + (l % Steps)]

\* l += 1024 beyond the greatest int is undefined: l wraps, or was kept in a
\* wider register.
Next1024 == IF l < IntMax THEN {l + 1} ELSE {l + 1, -1 - IntMax}

\* The body of a loop: memset in loops 5 and 7, and the character printed.
Visit ==
  /\ pc = "loop" /\ Inside
  /\ Resident(l)
  /\ mem' = [mem EXCEPT ![PageOf(l)][1 + (l % Steps)] = Written]
  /\ out' = [out EXCEPT ![loop] = Append(@, Written)]
  /\ l' \in Next1024
  /\ UNCHANGED <<pages, pc, loop, handlerVars>>

\* Faulty variant of Dropped: only the pages before the third loop go.
DroppedOnce == IF loop = 2 THEN Nothing ELSE mem

\* What the pages are after madvise, if the next loop begins with it.
Dropped == IF loop \in {2, 4} THEN Nothing ELSE mem

NextLoop ==
  /\ pc = "loop" /\ ~Inside
  /\ loop < 8
  /\ loop' = loop + 1
  /\ l' = 0
  /\ mem' = Dropped
  /\ UNCHANGED <<pages, pc, handlerVars, out>>

Exit ==
  /\ pc = "loop" /\ ~Inside
  /\ loop = 8
  /\ pc' = "exit"
  /\ UNCHANGED <<pages, loop, l, mem, handlerVars, out>>

\* poll and read give the message of the sleeping main, which comes once.
TakeFault ==
  /\ hpc = "poll" /\ pc = "fault"
  /\ ~Resident(l)
  /\ hpc' = "fill"
  /\ UNCHANGED <<pages, pc, loop, l, mem, fault_cnt, page, out>>

\* Faulty variants of Fill: the fault is counted first; letters never repeat.
FillNext ==
  /\ hpc = "fill"
  /\ page' = (fault_cnt + 1) % Letters
  /\ fault_cnt' = fault_cnt + 1
  /\ hpc' = "copy"
  /\ UNCHANGED <<pages, pc, loop, l, mem, out>>

FillUnwrapped ==
  /\ hpc = "fill"
  /\ page' = fault_cnt
  /\ fault_cnt' = fault_cnt + 1
  /\ hpc' = "copy"
  /\ UNCHANGED <<pages, pc, loop, l, mem, out>>

Fill ==
  /\ hpc = "fill"
  /\ page' = fault_cnt % Letters
  /\ fault_cnt' = fault_cnt + 1
  /\ hpc' = "copy"
  /\ UNCHANGED <<pages, pc, loop, l, mem, out>>

\* Faulty variant of Copy: the mode asks not to wake the thread.
CopyNoWake ==
  /\ hpc = "copy"
  /\ mem' = [x \in DOMAIN mem \cup {PageOf(l)} |->
               IF x = PageOf(l) THEN [n \in 1 .. Steps |-> page] ELSE mem[x]]
  /\ hpc' = "poll"
  /\ UNCHANGED <<pages, pc, loop, l, fault_cnt, page, out>>

\* UFFDIO_COPY installs the page the address lies in and wakes main.
Copy ==
  /\ hpc = "copy"
  /\ mem' = [x \in DOMAIN mem \cup {PageOf(l)} |->
               IF x = PageOf(l) THEN [n \in 1 .. Steps |-> page] ELSE mem[x]]
  /\ pc' = "loop"
  /\ hpc' = "poll"
  /\ UNCHANGED <<pages, loop, l, fault_cnt, page, out>>

Next ==
  \/ \E n \in Sizes : Map(n)
  \/ MapFails
  \/ Fault \/ Visit \/ NextLoop \/ Exit
  \/ TakeFault \/ Fill \/ Copy

Spec == Init /\ [][Next]_vars

\* Both threads are scheduled.
FairSpec == Spec /\ WF_vars(Next)

-----------------------------------------------------------------------------
TypeOK ==
  /\ pages \in Sizes \cup {0}
  /\ pc \in {"start", "loop", "fault", "exit"}
  /\ loop \in Loops
  /\ l \in (-1 - IntMax) .. pages * Steps
  /\ DOMAIN mem \subseteq 0 .. pages - 1
  /\ \A x \in DOMAIN mem : mem[x] \in [1 .. Steps -> (0 .. Letters - 1) \cup {At, Hat}]
  /\ hpc \in {"poll", "fill", "copy"}
  /\ fault_cnt \in 0 .. 3 * pages
  /\ page \in 0 .. Letters - 1

\* What the comments [U1] to [U8] say loop k prints at step x: the letters go
\* on after the first madvise, the writes of loops 5 and 7 stay.
Shown(k, x) ==
  CASE k \in {1, 2} -> PageOf(x) % Letters
    [] k \in {3, 4} -> (pages + PageOf(x)) % Letters
    [] k \in {5, 6} -> At
    [] OTHER -> Hat

\* l reaches the end of the region without wrapping.
Fits == pages * Steps <= IntMax

\* Every loop prints what its comment says, whichever thread fills a page and
\* whatever other loops wrote, for as long as an int can count the region.
LettersShown ==
  Fits => \A k \in Loops : \A x \in DOMAIN out[k] : out[k][x] = Shown(k, x - 1)

\* "The fault-handler will only trigger the number of pages times": by the end
\* of the program each of the loops 1, 3 and 5 has faulted once a page, if an
\* int can count the region; no loop ever faults more often.
FaultOncePerPage ==
  LET rounds == IF loop < 3 THEN 1 ELSE IF loop < 5 THEN 2 ELSE 3
  IN /\ fault_cnt <= rounds * pages
     /\ Fits /\ pc = "loop" /\ loop % 2 = 0 /\ loop < 7 => fault_cnt = rounds * pages

\* Asleep or not, and even if l wraps, main gets through its loops.
Exits == <>(pc = "exit")
=============================================================================
