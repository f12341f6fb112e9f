----------------------------- MODULE UffdProofs -----------------------------
(***************************************************************************)
(* Uffd for every size of the region and of a page, any number of letters  *)
(* and any width of an int: what the eight loops print and how often they  *)
(* fault.                                                                  *)
(***************************************************************************)
EXTENDS Uffd, SequenceTheorems, TLAPS

\* What a byte may hold, and what is printed of it.
Chars == (0 .. Letters - 1) \cup {At, Hat}

\* The faults of the rounds that are over: each madvise begins a new one.
Before == IF loop < 3 THEN 0 ELSE IF loop < 5 THEN pages ELSE 2 * pages

\* The handler has counted a fault whose page is not resident yet.
Ahead == IF hpc = "copy" THEN 1 ELSE 0

\* k pages are resident, the first ones, and this round has faulted for each
\* of them at most once: main has not gone beyond them, and sleeps only at the
\* first step of the page after them.
Walk(k) ==
  /\ DOMAIN mem = 0 .. k - 1
  /\ l <= k * Steps
  /\ pc = "fault" => Inside /\ l = k * Steps
  /\ fault_cnt <= Before + k + Ahead

\* If an int can count the region, each page of the round is filled with the
\* letter of its turn, and a loop that does not begin a round finds them all.
Turn(k) ==
  /\ l >= 0
  /\ fault_cnt = Before + k + Ahead
  /\ loop \notin {1, 3, 5} => k = pages
  /\ hpc = "copy" => page = (Before + k) % Letters

\* A step of the region holds what this loop prints there; where the loop
\* writes first, only what it has passed does.
Bytes ==
  \A x \in Nat :
    Resident(x) /\ (loop \in {5, 7} => x < l) =>
      mem[PageOf(x)][1 + (x % Steps)] = Shown(loop, x)

\* The loop has printed what it has passed, those after it nothing.
Printed ==
  /\ Len(out[loop]) = l
  /\ \A k \in Loops : k > loop => Len(out[k]) = 0
  /\ \A k \in Loops : \A x \in 1 .. Len(out[k]) : out[k][x] = Shown(k, x - 1)

\* Each variable by itself.
Types ==
  /\ pages \in Nat /\ pages \in Sizes \cup {0}
  /\ pc \in {"start", "loop", "fault", "exit"}
  /\ loop \in Loops
  /\ l \in Int /\ l >= -1 - IntMax
  /\ mem \in [DOMAIN mem -> [1 .. Steps -> Chars]]
  /\ hpc \in {"poll", "fill", "copy"}
  /\ fault_cnt \in Nat
  /\ page \in 0 .. Letters - 1
  /\ out \in [Loops -> Seq(Chars)]
  /\ hpc # "poll" => pc = "fault"
  /\ pc = "start" => pages = 0 /\ loop = 1

IInv ==
  /\ Types
  /\ \E k \in 0 .. pages : Walk(k) /\ (Fits => Turn(k))
  /\ Fits => Bytes /\ Printed

-----------------------------------------------------------------------------
(* Steps and pages                                                         *)

\* A step lies at an offset in its page.
LEMMA Place ==
  ASSUME NEW x \in Nat
  PROVE  /\ PageOf(x) \in Nat /\ x % Steps \in 0 .. Steps - 1
         /\ x = PageOf(x) * Steps + (x % Steps)
<1>1. x = Steps * (x \div Steps) + (x % Steps)
  BY UffdAssumption
<1>2. x \div Steps \in Nat /\ x % Steps \in 0 .. Steps - 1
  BY UffdAssumption
<1>3. Steps * (x \div Steps) = (x \div Steps) * Steps
  BY <1>2, UffdAssumption
<1> QED
  BY <1>1, <1>2, <1>3 DEF PageOf

\* Products with the number of steps in a page keep the order.
LEMMA Products ==
  ASSUME NEW j \in Int, NEW k \in Int
  PROVE  /\ j * Steps \in Int
         /\ j < k <=> j * Steps < k * Steps
         /\ j <= k <=> j * Steps <= k * Steps
         /\ (k + 1) * Steps = k * Steps + Steps
  BY UffdAssumption

\* The first k pages are the first k * Steps steps.
LEMMA Below ==
  ASSUME NEW x \in Nat, NEW k \in Nat
  PROVE  PageOf(x) < k <=> x < k * Steps
<1>1. /\ PageOf(x) \in Nat /\ x % Steps \in 0 .. Steps - 1
      /\ x = PageOf(x) * Steps + (x % Steps)
  BY Place
<1>2. (PageOf(x) + 1) * Steps = PageOf(x) * Steps + Steps
  BY <1>1, Products
<1>3. CASE PageOf(x) < k
  <2>1. (PageOf(x) + 1) * Steps <= k * Steps
    BY <1>1, <1>3, Products
  <2> QED
    BY <1>1, <1>2, <1>3, <2>1, Products, UffdAssumption
<1>4. CASE k <= PageOf(x)
  <2>1. k * Steps <= PageOf(x) * Steps
    BY <1>1, <1>4, Products
  <2> QED
    BY <1>1, <1>4, <2>1, Products, UffdAssumption
<1> QED
  BY <1>1, <1>3, <1>4

\* The step at which a page begins.
LEMMA Begins ==
  ASSUME NEW k \in Nat
  PROVE  k * Steps \in Nat /\ PageOf(k * Steps) = k
<1>1. k * Steps \in Nat
  BY UffdAssumption
<1>2. (k + 1) * Steps = k * Steps + Steps /\ (k + 1) * Steps \in Int
  BY Products
<1>3. PageOf(k * Steps) < k + 1 /\ ~(PageOf(k * Steps) < k)
  BY <1>1, <1>2, Below, UffdAssumption
<1> QED
  BY <1>1, <1>3, Place

\* Two steps of one page have different offsets.
LEMMA Offsets ==
  ASSUME NEW x \in Nat, NEW y \in Nat, PageOf(x) = PageOf(y), x % Steps = y % Steps
  PROVE  x = y
  BY Place

-----------------------------------------------------------------------------
(* The steps                                                               *)

\* Before main maps its region it has neither walked nor faulted.
LEMMA StepMap ==
  ASSUME IInv, NEW n \in Sizes, Map(n)
  PROVE  IInv'
<1> USE DEF Map, handlerVars
<1>1. PICK k \in 0 .. pages : Walk(k) /\ (Fits => Turn(k))
  BY DEF IInv
<1>2. /\ pages = 0 /\ k = 0 /\ pages * Steps = 0 /\ k * Steps = 0
      /\ loop = 1 /\ hpc = "poll" /\ n \in Nat
  BY <1>1, UffdAssumption DEF IInv, Types
<1>3. Fits
  BY <1>2, UffdAssumption DEF Fits
<1>4. l = 0 /\ fault_cnt = 0 /\ DOMAIN mem = {}
  BY <1>1, <1>2, <1>3 DEF Walk, Turn, Before, Ahead, IInv, Types
<1>5. Types'
  BY <1>2 DEF IInv, Types
<1>6. 0 \in 0 .. pages' /\ Walk(0)' /\ Turn(0)'
  BY <1>2, <1>3, <1>4, UffdAssumption DEF Walk, Turn, Before, Ahead
<1>7. Bytes'
  BY <1>4, <1>2 DEF Bytes, Resident, PageOf
<1>8. \A j \in Loops : Len(out[j]) = 0
  BY <1>2, <1>3, <1>4 DEF IInv, Printed, Loops
<1>9. Printed'
  BY <1>2, <1>4, <1>8 DEF Printed, Loops
<1> QED
  BY <1>5, <1>6, <1>7, <1>9 DEF IInv

\* Nothing but the program counter changes, and main is awake and mapped, or
\* at its end.
LEMMA StepQuiet ==
  ASSUME IInv, MapFails \/ Exit
  PROVE  IInv'
<1> USE DEF MapFails, Exit, handlerVars
<1>1. PICK k \in 0 .. pages : Walk(k) /\ (Fits => Turn(k))
  BY DEF IInv
<1>2. Types'
  BY DEF IInv, Types
<1>3. Walk(k)' /\ (Fits' => Turn(k)')
  BY <1>1 DEF Walk, Turn, Before, Ahead, Fits
<1>4. Fits' => Bytes' /\ Printed'
  BY DEF IInv, Fits, Bytes, Printed, Resident, PageOf, Shown
<1> QED
  BY <1>2, <1>3, <1>4 DEF IInv

\* Main sleeps where the resident pages end.
LEMMA StepFault ==
  ASSUME IInv, Fault
  PROVE  IInv'
<1> USE DEF Fault, handlerVars
<1>1. PICK k \in 0 .. pages : Walk(k) /\ (Fits => Turn(k))
  BY DEF IInv
<1>2. l \in Nat /\ ~(PageOf(l) < k)
  BY <1>1, Place DEF Inside, Resident, Walk, IInv, Types
<1>3. l = k * Steps
  BY <1>1, <1>2, Below, Products DEF Walk, IInv, Types
<1>4. Types'
  BY DEF IInv, Types
<1>5. Walk(k)' /\ (Fits' => Turn(k)')
  BY <1>1, <1>3 DEF Walk, Turn, Before, Ahead, Fits, Inside
<1>6. Fits' => Bytes' /\ Printed'
  BY DEF IInv, Fits, Bytes, Printed, Resident, PageOf, Shown
<1> QED
  BY <1>4, <1>5, <1>6 DEF IInv

\* The handler takes the fault.
LEMMA StepTakeFault ==
  ASSUME IInv, TakeFault
  PROVE  IInv'
<1> USE DEF TakeFault
<1>1. PICK k \in 0 .. pages : Walk(k) /\ (Fits => Turn(k))
  BY DEF IInv
<1>2. Types'
  BY DEF IInv, Types
<1>3. Walk(k)' /\ (Fits' => Turn(k)')
  BY <1>1 DEF Walk, Turn, Before, Ahead, Fits, Inside
<1>4. Fits' => Bytes' /\ Printed'
  BY DEF IInv, Fits, Bytes, Printed, Resident, PageOf, Shown
<1> QED
  BY <1>2, <1>3, <1>4 DEF IInv

\* The page is filled with the letter of its turn, and counted.
LEMMA StepFill ==
  ASSUME IInv, Fill
  PROVE  IInv'
<1> USE DEF Fill
<1>1. PICK k \in 0 .. pages : Walk(k) /\ (Fits => Turn(k))
  BY DEF IInv
<1>2. fault_cnt \in Nat /\ fault_cnt % Letters \in 0 .. Letters - 1 /\ page' = fault_cnt % Letters
  BY UffdAssumption DEF IInv, Types
<1>3. Types'
  BY <1>2 DEF IInv, Types
<1>4. pages \in Nat /\ Before \in Nat
  BY DEF IInv, Types, Before
<1>5. Walk(k)'
  BY <1>1, <1>2, <1>4 DEF Walk, Before, Ahead, Inside
<1>6. Fits' => Turn(k)'
  <2> SUFFICES ASSUME Fits PROVE Turn(k)'
    BY DEF Fits
  <2>1. fault_cnt = Before + k
    BY <1>1, <1>4 DEF Turn, Ahead
  <2>2. Before' = Before
    BY DEF Before
  <2> QED
    BY <1>1, <1>2, <1>4, <2>1, <2>2 DEF Turn, Ahead
<1>7. Fits' => Bytes' /\ Printed'
  BY DEF IInv, Fits, Bytes, Printed, Resident, PageOf, Shown
<1> QED
  BY <1>3, <1>5, <1>6, <1>7 DEF IInv

\* The first page that was not resident is installed, and main wakes.
LEMMA StepCopy ==
  ASSUME IInv, Copy
  PROVE  IInv'
<1> USE DEF Copy
<1>1. PICK k \in 0 .. pages : Walk(k) /\ (Fits => Turn(k))
  BY DEF IInv
<1>2. pages \in Nat /\ Before \in Nat /\ pc = "fault" /\ Before' = Before
  BY DEF IInv, Types, Before
<1>3. l = k * Steps /\ k * Steps < pages * Steps /\ k < pages
  BY <1>1, <1>2, Products DEF Walk, Inside
<1>4. PageOf(l) = k
  BY <1>1, <1>3, Begins
<1>5. /\ DOMAIN mem = 0 .. k - 1 /\ DOMAIN mem' = 0 .. k
      /\ mem' = [x \in 0 .. k |-> IF x = k THEN [n \in 1 .. Steps |-> page] ELSE mem[x]]
  BY <1>1, <1>4 DEF Walk
<1>6. Types'
  <2>1. [n \in 1 .. Steps |-> page] \in [1 .. Steps -> Chars]
    BY DEF IInv, Types, Chars
  <2>2. mem' \in [DOMAIN mem' -> [1 .. Steps -> Chars]]
    BY <1>1, <1>5, <2>1 DEF IInv, Types
  <2> QED
    BY <2>2 DEF IInv, Types
<1>7. Walk(k + 1)'
  <2>1. (k + 1) * Steps = k * Steps + Steps /\ k * Steps \in Int
    BY <1>1, Products
  <2> QED
    BY <1>1, <1>2, <1>3, <1>5, <2>1, UffdAssumption DEF Walk, Ahead
<1>8. ASSUME Fits
      PROVE  Turn(k + 1)' /\ Bytes' /\ Printed'
  <2>1. Turn(k) /\ loop \in {1, 3, 5} /\ page = (Before + k) % Letters
    BY <1>1, <1>3, <1>8 DEF Turn
  <2>2. Turn(k + 1)'
    BY <1>1, <1>2, <2>1 DEF Turn, Ahead
  <2>3. ASSUME NEW x \in Nat, PageOf(x) \in 0 .. k, loop = 5 => x < l
        PROVE  mem'[PageOf(x)][1 + (x % Steps)] = Shown(loop, x)
    <3>1. CASE PageOf(x) = k
      <4>1. mem'[k] = [n \in 1 .. Steps |-> page]
        BY <1>1, <1>2, <1>5
      <4>3. x % Steps \in 0 .. Steps - 1
        BY Place
      <4>4. mem'[k][1 + (x % Steps)] = page
        BY <4>1, <4>3, UffdAssumption
      <4>2. loop # 5
        BY <1>1, <1>3, <2>3, <3>1, Below
      <4> QED
        <5>1. CASE loop = 1
          BY <1>1, <1>2, <2>1, <3>1, <4>4, <5>1 DEF Shown, Before
        <5>2. CASE loop = 3
          BY <1>1, <1>2, <2>1, <3>1, <4>4, <5>2 DEF Shown, Before
        <5> QED
          BY <2>1, <4>2, <5>1, <5>2
    <3>2. CASE PageOf(x) \in 0 .. k - 1
      <4>1. mem'[PageOf(x)] = mem[PageOf(x)]
        BY <1>1, <1>5, <3>2
      <4>2. Resident(x)
        BY <1>5, <3>2 DEF Resident
      <4> QED
        <5>1. Bytes /\ (loop \in {5, 7} => x < l)
          BY <1>8, <2>1, <2>3 DEF IInv
        <5> QED
          BY <4>1, <4>2, <5>1 DEF Bytes
    <3> QED
      BY <1>1, <2>3, <3>1, <3>2
  <2>4. Bytes'
    BY <1>5, <2>1, <2>3 DEF Bytes, Resident, PageOf, Shown
  <2>5. Printed'
    BY <1>8 DEF IInv, Printed, Shown, PageOf
  <2> QED
    BY <2>2, <2>4, <2>5
<1>9. PICK j \in 0 .. pages : j = k + 1
  BY <1>1, <1>2, <1>3
<1> QED
  BY <1>6, <1>7, <1>8, <1>9 DEF IInv, Fits

\* What a loop writes where it is: the same as it prints.
LEMMA WrittenShown ==
  ASSUME IInv, Visit
  PROVE  /\ Written \in Chars
         /\ Fits => Written = Shown(loop, l)
<1> USE DEF Visit
<1>1. l \in Nat /\ PageOf(l) \in DOMAIN mem /\ l % Steps \in 0 .. Steps - 1
  BY Place DEF Inside, Resident, IInv, Types
<1>2. mem[PageOf(l)][1 + (l % Steps)] \in Chars
  <2>1. mem[PageOf(l)] \in [1 .. Steps -> Chars]
    BY <1>1 DEF IInv, Types
  <2>2. 1 + (l % Steps) \in 1 .. Steps
    BY <1>1, UffdAssumption
  <2> QED
    BY <2>1, <2>2
<1>3. Written \in Chars
  BY <1>2 DEF Written, Chars
<1>4. CASE loop \in {5, 7}
  BY <1>3, <1>4 DEF Written, Shown
<1>5. CASE loop \notin {5, 7}
  BY <1>1, <1>3, <1>5 DEF Written, IInv, Bytes, Resident
<1> QED
  BY <1>3, <1>4, <1>5

\* Main stays among the resident pages, and the byte it has passed is the one
\* it printed.
LEMMA StepVisit ==
  ASSUME IInv, Visit
  PROVE  IInv'
<1> USE DEF Visit, handlerVars
<1>1. PICK k \in 0 .. pages : Walk(k) /\ (Fits => Turn(k))
  BY DEF IInv
<1>2. /\ l \in Nat /\ l < pages * Steps /\ pages * Steps \in Nat
      /\ PageOf(l) \in 0 .. k - 1 /\ l % Steps \in 0 .. Steps - 1
  <2>1. l \in Nat /\ l < pages * Steps /\ pages \in Nat
    BY DEF Inside, IInv, Types
  <2>2. PageOf(l) \in 0 .. k - 1
    BY <1>1 DEF Resident, Walk
  <2>3. pages * Steps \in Nat
    BY <2>1, UffdAssumption
  <2>4. l % Steps \in 0 .. Steps - 1
    BY <2>1, Place
  <2> QED
    BY <2>1, <2>2, <2>3, <2>4
<1>3. l < k * Steps /\ k * Steps \in Int
  BY <1>1, <1>2, Below, Products
<1>4. l' \in Int /\ l' >= -1 - IntMax /\ l' <= l + 1 /\ (l < IntMax => l' = l + 1)
  BY <1>2, UffdAssumption DEF Next1024
<1>5. DOMAIN mem' = DOMAIN mem /\ hpc = "poll"
  BY DEF IInv, Types
<1>6. Written \in Chars /\ (Fits => Written = Shown(loop, l))
  BY WrittenShown
<1>7. Types'
  <2>1. mem' \in [DOMAIN mem' -> [1 .. Steps -> Chars]]
    BY <1>5, <1>6 DEF IInv, Types
  <2>2. out' \in [Loops -> Seq(Chars)]
    BY <1>6, AppendProperties DEF IInv, Types
  <2> QED
    BY <1>4, <2>1, <2>2 DEF IInv, Types
<1>8. Walk(k)'
  <2>1. l' <= k * Steps
    BY <1>2, <1>3, <1>4
  <2> QED
    BY <1>1, <1>5, <2>1 DEF Walk, Before, Ahead
<1>9. ASSUME Fits
      PROVE  Turn(k)' /\ Bytes' /\ Printed'
  <2>1. Turn(k) /\ l' = l + 1
    BY <1>1, <1>2, <1>4, <1>9, UffdAssumption DEF Fits
  <2>2. Turn(k)'
    BY <1>2, <2>1 DEF Turn, Before, Ahead
  <2>3. ASSUME NEW x \in Nat, Resident(x), loop \in {5, 7} => x < l + 1
        PROVE  mem'[PageOf(x)][1 + (x % Steps)] = Shown(loop, x)
    <3>1. PageOf(x) \in DOMAIN mem /\ x % Steps \in 0 .. Steps - 1
      BY <2>3, Place DEF Resident
    <3>2. CASE x = l
      BY <1>2, <1>6, <1>9, <3>1, <3>2, UffdAssumption DEF IInv, Types
    <3>3. CASE x # l
      <4>1. mem'[PageOf(x)][1 + (x % Steps)] = mem[PageOf(x)][1 + (x % Steps)]
        <5>1. CASE PageOf(x) # PageOf(l)
          BY <3>1, <5>1
        <5>2. CASE PageOf(x) = PageOf(l)
          <6>1. x % Steps # l % Steps
            BY <1>2, <3>3, <5>2, Offsets
          <6>2. mem'[PageOf(l)] = [mem[PageOf(l)] EXCEPT ![1 + (l % Steps)] = Written]
            BY DEF Resident, IInv, Types
          <6>3. 1 + (x % Steps) # 1 + (l % Steps) /\ 1 + (x % Steps) \in 1 .. Steps
            BY <1>2, <3>1, <6>1, UffdAssumption
          <6>4. mem[PageOf(l)] \in [1 .. Steps -> Chars]
            BY DEF Resident, IInv, Types
          <6> QED
            BY <5>2, <6>2, <6>3, <6>4
        <5> QED
          BY <5>1, <5>2
      <4> QED
        BY <1>2, <1>9, <2>3, <3>3, <4>1 DEF IInv, Bytes
    <3> QED
      BY <3>2, <3>3
  <2>4. Bytes'
    BY <1>5, <2>1, <2>3 DEF Bytes, Resident, PageOf, Shown
  <2>5. /\ out[loop] \in Seq(Chars) /\ Len(out[loop]) = l /\ loop \in Loops
        /\ out'[loop] = Append(out[loop], Written)
        /\ \A j \in Loops : j # loop => out'[j] = out[j]
    BY <1>9 DEF IInv, Types, Printed
  <2>6. Len(out'[loop]) = l + 1
    BY <1>6, <2>5, AppendProperties
  <2>7. ASSUME NEW j \in Loops, NEW x \in 1 .. Len(out'[j])
        PROVE  out'[j][x] = Shown(j, x - 1)
    <3>1. CASE j # loop
      BY <1>9, <2>5, <2>7, <3>1 DEF IInv, Printed
    <3>2. CASE j = loop /\ x = l + 1
      BY <1>2, <1>6, <1>9, <2>5, <3>2, AppendProperties
    <3>3. CASE j = loop /\ x # l + 1
      <4>1. x \in 1 .. l
        BY <1>2, <2>6, <2>7, <3>3
      <4>2. out'[j][x] = out[j][x]
        BY <1>6, <2>5, <3>3, <4>1, AppendProperties
      <4> QED
        BY <1>9, <2>5, <3>3, <4>1, <4>2 DEF IInv, Printed
    <3> QED
      BY <3>1, <3>2, <3>3
  <2>8. Printed'
    <3>1. \A j \in Loops : j > loop => Len(out'[j]) = 0
      BY <1>9, <2>5 DEF IInv, Printed, Loops
    <3>2. \A j, x : Shown(j, x)' = Shown(j, x)
      BY DEF Shown, PageOf
    <3> QED
      BY <2>1, <2>6, <2>7, <3>1, <3>2 DEF Printed
  <2> QED
    BY <2>2, <2>4, <2>8
<1> QED
  BY <1>1, <1>7, <1>8, <1>9 DEF IInv, Fits

\* A loop ends at the end of the region, or where l has wrapped; madvise
\* begins a round with no page resident.
LEMMA StepNextLoop ==
  ASSUME IInv, NextLoop
  PROVE  IInv'
<1> USE DEF NextLoop, handlerVars
<1>1. PICK k \in 0 .. pages : Walk(k) /\ (Fits => Turn(k))
  BY DEF IInv
<1>2. /\ pages \in Nat /\ loop \in 1 .. 7 /\ loop' = loop + 1 /\ l' = 0
      /\ hpc = "poll" /\ Ahead' = 0 /\ Ahead = 0
      /\ l \in Int
  <2>1. Types
    BY DEF IInv
  <2>2. hpc = "poll" /\ hpc' = "poll"
    BY <2>1 DEF Types
  <2>3. pages \in Nat /\ loop \in 1 .. 7 /\ l \in Int
    BY <2>1 DEF Types, Loops
  <2> QED
    BY <2>2, <2>3 DEF Ahead
<1>3. Types'
  <2>1. mem' \in [DOMAIN mem' -> [1 .. Steps -> Chars]]
    BY DEF IInv, Types, Dropped, Nothing
  <2>2. loop' \in Loops
    BY <1>2 DEF Loops
  <2> QED
    BY <1>2, <2>1, <2>2, UffdAssumption DEF IInv, Types
<1>4. Fits => k = pages /\ l = pages * Steps
  <2> SUFFICES ASSUME Fits PROVE k = pages /\ l = pages * Steps
    OBVIOUS
  <2>1. /\ ~(l < pages * Steps) /\ l <= k * Steps
        /\ k * Steps \in Int /\ pages * Steps \in Int
    BY <1>1, <1>2, Products DEF Turn, Inside, Walk
  <2>2. pages <= k
    BY <1>1, <1>2, <2>1, Products
  <2> QED
    BY <1>1, <1>2, <2>1, <2>2
<1>5. /\ loop \in {2, 4} => Before' = Before + pages
      /\ loop \notin {2, 4} => Before' = Before
      /\ Before \in Nat
  BY <1>2 DEF Before, IInv, Types
<1>6. \E j \in 0 .. pages : Walk(j)' /\ (Fits => Turn(j)')
  <2>1. CASE loop \in {2, 4}
    <3>1. mem' = Nothing
      BY <2>1 DEF Dropped
    <3>2. Walk(0)'
      <4>1. DOMAIN mem' = 0 .. 0 - 1 /\ 0 * Steps = 0
        BY <3>1, UffdAssumption DEF Nothing
      <4>2. fault_cnt' <= Before' + 0 + Ahead'
        BY <1>1, <1>2, <1>5, <2>1 DEF Walk, IInv, Types
      <4> QED
        BY <1>2, <4>1, <4>2 DEF Walk
    <3>3. Fits => Turn(0)'
      BY <1>1, <1>2, <1>4, <1>5, <2>1 DEF Turn
    <3> QED
      BY <1>2, <3>2, <3>3
  <2>2. CASE loop \notin {2, 4}
    <3>1. mem' = mem
      BY <2>2 DEF Dropped
    <3>2. k * Steps \in Nat
      BY <1>1, <1>2, UffdAssumption
    <3>3. Walk(k)'
      BY <1>1, <1>2, <1>5, <2>2, <3>1, <3>2 DEF Walk
    <3>4. Fits => Turn(k)'
      BY <1>1, <1>2, <1>4, <1>5, <2>2 DEF Turn
    <3> QED
      BY <1>1, <3>3, <3>4
  <2> QED
    BY <2>1, <2>2
<1>7. ASSUME Fits
      PROVE  Bytes' /\ Printed'
  <2>1. \A j, x : Shown(j, x)' = Shown(j, x)
    BY DEF Shown, PageOf
  <2>2. ASSUME NEW x \in Nat, PageOf(x) \in DOMAIN mem', loop + 1 \notin {5, 7}
        PROVE  mem'[PageOf(x)][1 + (x % Steps)] = Shown(loop + 1, x)
    <3>1. loop \notin {2, 4} /\ mem' = mem
      BY <1>2, <2>2 DEF Dropped, Nothing
    <3>2. x < l
      BY <1>1, <1>2, <1>4, <1>7, <2>2, <3>1, Below DEF Walk
    <3>3. mem[PageOf(x)][1 + (x % Steps)] = Shown(loop, x)
      BY <1>7, <2>2, <3>1, <3>2 DEF IInv, Bytes, Resident
    <3>4. Shown(loop, x) = Shown(loop + 1, x)
      BY <1>2, <2>2, <3>1 DEF Shown
    <3> QED
      BY <3>1, <3>3, <3>4
  <2>3. Bytes'
    <3>1. ASSUME NEW x \in Nat, PageOf(x) \in DOMAIN mem', loop' \in {5, 7} => x < l'
          PROVE  mem'[PageOf(x)][1 + (x % Steps)] = Shown(loop', x)
      <4>1. loop' \notin {5, 7}
        BY <1>2, <3>1
      <4> QED
        BY <1>2, <2>2, <3>1, <4>1
    <3> QED
      BY <3>1 DEF Bytes, Resident, Shown, PageOf
  <2>4. Printed'
    <3>1. Len(out[loop + 1]) = 0 /\ \A j \in Loops : j > loop' => Len(out[j]) = 0
      BY <1>2, <1>7 DEF IInv, Printed, Loops
    <3>2. \A j \in Loops : \A x \in 1 .. Len(out[j]) : out[j][x] = Shown(j, x - 1)
      BY <1>7 DEF IInv, Printed
    <3> QED
      BY <1>2, <2>1, <3>1, <3>2 DEF Printed
  <2> QED
    BY <2>3, <2>4
<1> QED
  BY <1>3, <1>6, <1>7 DEF IInv, Fits

-----------------------------------------------------------------------------
(* The theorems                                                            *)

\* Before main maps its region nothing is counted or printed.
LEMMA InitIInv == Init => IInv
<1> SUFFICES ASSUME Init PROVE IInv
  OBVIOUS
<1> USE DEF Init
<1>1. Types
  BY UffdAssumption, EmptySeq DEF Types, Loops, Nothing
<1>2. 0 \in 0 .. pages /\ Walk(0) /\ Turn(0)
  BY UffdAssumption DEF Walk, Turn, Before, Ahead, Nothing
<1>3. Bytes
  BY DEF Bytes, Resident, Nothing
<1>4. Printed
  BY EmptySeq DEF Printed, Loops
<1> QED
  BY <1>1, <1>2, <1>3, <1>4 DEF IInv

\* Every step of main and of the handler keeps the invariant.
LEMMA StepIInv == IInv /\ [Next]_vars => IInv'
<1> SUFFICES ASSUME IInv, [Next]_vars PROVE IInv'
  OBVIOUS
<1>1. CASE Next
  BY <1>1, StepMap, StepQuiet, StepFault, StepVisit, StepNextLoop, StepTakeFault, StepFill,
     StepCopy DEF Next
<1>2. CASE UNCHANGED vars
  BY <1>2 DEF vars, IInv, Types, Walk, Turn, Bytes, Printed, Before, Ahead, Inside, Fits,
     Resident, PageOf, Shown
<1> QED
  BY <1>1, <1>2

\* The invariant holds throughout.
LEMMA Invariant == Spec => []IInv
<1> QED
  BY InitIInv, StepIInv, PTL DEF Spec

\* Every variable keeps its type: only pages of the region are ever resident,
\* and the letters do not leave their range.
THEOREM TypeCorrect == Spec => []TypeOK
<1>1. ASSUME IInv PROVE TypeOK
  <2>1. PICK k \in 0 .. pages : Walk(k)
    BY <1>1 DEF IInv
  <2>2. pages \in Nat /\ k * Steps <= pages * Steps /\ k * Steps \in Int /\ pages * Steps \in Int
    BY <1>1, <2>1, Products DEF IInv, Types
  <2>3. l \in (-1 - IntMax) .. pages * Steps
    BY <1>1, <2>1, <2>2, UffdAssumption DEF IInv, Types, Walk
  <2>4. DOMAIN mem \subseteq 0 .. pages - 1
    BY <2>1, <2>2 DEF Walk
  <2>5. fault_cnt \in 0 .. 3 * pages
    <3>1. hpc = "copy" => k < pages
      BY <1>1, <2>1, <2>2, Products DEF IInv, Types, Walk, Inside
    <3>2. k + Ahead <= pages /\ Ahead \in Nat
      BY <2>1, <2>2, <3>1 DEF Ahead
    <3>3. Before <= 2 * pages /\ Before \in Nat
      BY <2>2 DEF Before
    <3>4. fault_cnt <= Before + k + Ahead /\ fault_cnt \in Nat
      BY <1>1, <2>1 DEF Walk, IInv, Types
    <3> QED
      BY <2>1, <2>2, <3>2, <3>3, <3>4
  <2> QED
    BY <1>1, <2>3, <2>4, <2>5 DEF IInv, Types, TypeOK, Chars
<1> QED
  BY <1>1, Invariant, PTL

\* Every loop prints what its comment says, whichever page the handler has
\* filled when, and whatever other loops wrote.
THEOREM CommentsHold == Spec => []LettersShown
<1>1. ASSUME IInv PROVE LettersShown
  BY <1>1 DEF IInv, Types, Printed, LettersShown
<1> QED
  BY <1>1, Invariant, PTL

\* No round faults more often than once a page, even if l wraps; if it cannot,
\* each round has faulted for every page when its first loop is over.
THEOREM FaultsCounted == Spec => []FaultOncePerPage
<1>1. ASSUME IInv PROVE FaultOncePerPage
  <2>1. PICK k \in 0 .. pages : Walk(k) /\ (Fits => Turn(k))
    BY <1>1 DEF IInv
  <2>2. pages \in Nat /\ loop \in Loops /\ (hpc # "poll" => pc = "fault")
    BY <1>1 DEF IInv, Types
  <2>3. hpc = "copy" => k < pages
    BY <2>1, <2>2, Products DEF Walk, Inside
  <2> DEFINE rounds == IF loop < 3 THEN 1 ELSE IF loop < 5 THEN 2 ELSE 3
  <2>4. rounds * pages = Before + pages
    BY <2>2 DEF Before, Loops
  <2>5. fault_cnt <= rounds * pages
    <3>1. k + Ahead <= pages /\ Ahead \in Nat
      BY <2>1, <2>2, <2>3 DEF Ahead
    <3>2. fault_cnt <= Before + k + Ahead /\ fault_cnt \in Nat /\ Before \in Nat
      BY <1>1, <2>1, <2>2 DEF Walk, IInv, Types, Before
    <3> QED
      BY <2>1, <2>2, <2>4, <3>1, <3>2
  <2>6. ASSUME Fits, pc = "loop", loop % 2 = 0, loop < 7
        PROVE  fault_cnt = rounds * pages
    <3>1. loop \notin {1, 3, 5} /\ hpc # "copy"
      BY <2>2, <2>6
    <3> QED
      BY <2>1, <2>2, <2>4, <2>6, <3>1 DEF Turn, Ahead, Before
  <2> QED
    BY <2>5, <2>6 DEF FaultOncePerPage
<1> QED
  BY <1>1, Invariant, PTL
=============================================================================
