------------------------- MODULE PerfCountersProofs -------------------------
(***************************************************************************)
(* PerfCounters for every finite set of CPUs, every set of tasks and every *)
(* number of probed calls: the three counters agree with where the CPUs    *)
(* are.                                                                    *)
(***************************************************************************)
EXTENDS PerfCounters, FiniteSetTheorems, TLAPS

\* The CPUs that are, by f, at one of the places A, and their number.
Are(f, A) == {c \in Cpus : f[c] \in A}
Num(f, A) == Cardinality(Are(f, A))

\* Entered and not counted; counted and not returned; switch counted and not
\* returned.
Early == {"enter", "entering"}
Called == {"pick", "picked", "switching", "switched", "returning"}
Late == {"switched", "returning"}
Places == Called \cup {"run", "enter", "entering"}

\* Where a CPU is between the load and the store of counter k.
Inside(k) ==
  CASE k = "pre" -> "entering" [] k = "switch" -> "switching" [] k = "post" -> "returning"
Storing == {"entering", "switching", "returning"}

\* A lock is held by the one CPU that is between load and store, and what it
\* has loaded is still the counter's value.
Locks ==
  \A k \in Counters : \A c \in Cpus :
    /\ held[k] = c <=> pc[c] = Inside(k)
    /\ held[k] = c => reg[c] = count[k]

\* Without the module no CPU is in a probed call.
Gone == ~loaded => \A c \in Cpus : pc[c] = "run"

\* The calls entered and not yet counted fit the bound.
Fit(f, n) == n["pre"] + Num(f, Early) <= MaxCalls

\* The counters n agree with the places f.
Balanced(f, n) ==
  /\ n["pre"] - n["post"] = Num(f, Called)
  /\ n["switch"] <= n["post"] + Num(f, Late)

IInv == TypeOK /\ Locks /\ Gone /\ Fit(pc, count) /\ (loaded => Balanced(pc, count))

-----------------------------------------------------------------------------
(* Counting CPUs                                                           *)

\* There are as many CPUs at some places as a number can say.
LEMMA NumNat ==
  ASSUME NEW f, NEW A
  PROVE  IsFiniteSet(Are(f, A)) /\ Num(f, A) \in Nat
<1>1. Are(f, A) \in SUBSET Cpus /\ IsFiniteSet(Cpus)
  BY SchedulerAssumption DEF Are
<1>2. IsFiniteSet(Are(f, A))
  BY <1>1, FS_Subset
<1> QED
  BY <1>2, FS_CardinalityType DEF Num

\* More places, no fewer CPUs.
LEMMA NumMonotone ==
  ASSUME NEW f, NEW A, NEW B, A \subseteq B
  PROVE  Num(f, A) <= Num(f, B)
<1>1. Are(f, A) \in SUBSET Are(f, B)
  BY DEF Are
<1> QED
  BY <1>1, NumNat, FS_Subset DEF Num

\* Nobody is where all are elsewhere.
LEMMA NumNone ==
  ASSUME NEW f, NEW A, \A c \in Cpus : f[c] \notin A
  PROVE  Num(f, A) = 0
<1>1. Are(f, A) = {}
  BY DEF Are
<1> QED
  BY <1>1, FS_EmptySet DEF Num

\* From f to g one CPU moves: the places it leaves lose it, those it goes to
\* gain it.
Shifted(f, g, from, to) ==
  \A A : /\ (to \in A <=> from \in A) => Num(g, A) = Num(f, A)
         /\ to \in A /\ from \notin A => Num(g, A) = Num(f, A) + 1
         /\ to \notin A /\ from \in A => Num(g, A) = Num(f, A) - 1

\* When one CPU moves, all others stay where they are.
LEMMA Moved ==
  ASSUME NEW f, NEW g, NEW c \in Cpus, \A d \in Cpus : d # c => g[d] = f[d]
  PROVE  Shifted(f, g, f[c], g[c])
<1> DEFINE to == g[c]
<1> SUFFICES ASSUME NEW A
    PROVE  /\ (to \in A <=> f[c] \in A) => Num(g, A) = Num(f, A)
           /\ to \in A /\ f[c] \notin A => Num(g, A) = Num(f, A) + 1
           /\ to \notin A /\ f[c] \in A => Num(g, A) = Num(f, A) - 1
  BY DEF Shifted
<1>1. g[c] = to /\ \A d \in Cpus : d # c => g[d] = f[d]
  OBVIOUS
<1> HIDE DEF to
<1>2. /\ IsFiniteSet(Are(f, A)) /\ Num(f, A) \in Nat
      /\ IsFiniteSet(Are(g, A)) /\ Num(g, A) \in Nat
  BY NumNat
<1>3. CASE to \in A /\ f[c] \in A
  <2>1. Are(g, A) = Are(f, A)
    BY <1>1, <1>3 DEF Are
  <2> QED
    BY <1>2, <1>3, <2>1 DEF Num
<1>4. CASE to \in A /\ f[c] \notin A
  <2>1. Are(g, A) = Are(f, A) \cup {c} /\ c \notin Are(f, A)
    BY <1>1, <1>4 DEF Are
  <2>2. Cardinality(Are(g, A)) = Cardinality(Are(f, A)) + 1
    BY <1>2, <2>1, FS_AddElement
  <2> QED
    BY <1>2, <1>4, <2>2 DEF Num
<1>5. CASE to \notin A /\ f[c] \in A
  <2>1. Are(g, A) = Are(f, A) \ {c} /\ c \in Are(f, A)
    BY <1>1, <1>5 DEF Are
  <2>2. Cardinality(Are(g, A)) = Cardinality(Are(f, A)) - 1
    BY <1>2, <2>1, FS_RemoveElement
  <2> QED
    BY <1>2, <1>5, <2>2 DEF Num
<1>6. CASE to \notin A /\ f[c] \notin A
  <2>1. Are(g, A) = Are(f, A)
    BY <1>1, <1>6 DEF Are
  <2> QED
    BY <1>2, <1>6, <2>1 DEF Num
<1> QED
  BY <1>3, <1>4, <1>5, <1>6

\* Counters that agree with the places are within the bound.
LEMMA Bounded ==
  ASSUME NEW f, NEW n \in [Counters -> Nat], Fit(f, n), Balanced(f, n)
  PROVE  n \in [Counters -> 0 .. MaxCalls]
<1>1. /\ Num(f, Early) \in Nat /\ Num(f, Called) \in Nat /\ Num(f, Late) \in Nat
      /\ Num(f, Late) <= Num(f, Called)
  BY NumNat, NumMonotone DEF Late, Called
<1>2. n["pre"] \in Nat /\ n["post"] \in Nat /\ n["switch"] \in Nat
  BY DEF Counters
<1>3. n["pre"] <= MaxCalls /\ n["post"] <= MaxCalls /\ n["switch"] <= MaxCalls
  BY <1>1, <1>2, PerfAssumption DEF Fit, Balanced
<1> QED
  BY <1>2, <1>3, PerfAssumption DEF Counters

-----------------------------------------------------------------------------
(* Locks                                                                   *)

\* No two counters have the same place between load and store.
LEMMA InsideOf ==
  /\ Inside("pre") = "entering" /\ Inside("switch") = "switching" /\ Inside("post") = "returning"
  /\ \A k \in Counters : Inside(k) \in Storing
  /\ \A j, k \in Counters : Inside(j) = Inside(k) => j = k
  BY DEF Inside, Counters, Storing

\* A lock is taken when it is free, and the counter is loaded under it.
LEMMA LocksLoad ==
  ASSUME TypeOK, Locks, NEW c \in Cpus, NEW k \in Counters, pc[c] \notin Storing,
         pc' = [pc EXCEPT ![c] = Inside(k)], LoadCount(c, k)
  PROVE  /\ Locks'
         /\ held' \in [Counters -> Cpus \cup {Null}]
         /\ reg' \in [Cpus -> 0 .. MaxCalls]
         /\ count' = count
<1> USE DEF LoadCount, Lock
<1>1. /\ held' \in [Counters -> Cpus \cup {Null}]
      /\ reg' \in [Cpus -> 0 .. MaxCalls]
      /\ count' = count
  BY DEF TypeOK
<1>2. ASSUME NEW j \in Counters, NEW d \in Cpus
      PROVE  /\ held'[j] = d <=> pc'[d] = Inside(j)
             /\ held'[j] = d => reg'[d] = count'[j]
  <2>1. /\ held[j] = d <=> pc[d] = Inside(j)
        /\ held[j] = d => reg[d] = count[j]
    BY DEF Locks
  <2>2. held[k] = Null /\ Null \notin Cpus
    BY SchedulerAssumption
  <2>3. pc'[c] = Inside(k) /\ (d # c => pc'[d] = pc[d])
    BY DEF TypeOK
  <2>4. reg'[c] = count[k] /\ (d # c => reg'[d] = reg[d])
    BY DEF TypeOK
  <2>5. held'[k] = c /\ (j # k => held'[j] = held[j])
    BY DEF TypeOK
  <2>6. CASE j = k
    BY <2>1, <2>2, <2>3, <2>4, <2>5, <2>6
  <2>7. CASE j # k
    BY <2>1, <2>3, <2>4, <2>5, <2>7, InsideOf
  <2> QED
    BY <2>6, <2>7
<1> QED
  BY <1>1, <1>2 DEF Locks

\* What was loaded under the lock is stored with one more, and nothing was
\* stored meanwhile.
LEMMA LocksStore ==
  ASSUME TypeOK, Locks, NEW c \in Cpus, NEW k \in Counters, pc[c] = Inside(k),
         NEW to, to \notin Storing, pc' = [pc EXCEPT ![c] = to], StoreCount(c, k)
  PROVE  /\ Locks'
         /\ held' \in [Counters -> Cpus \cup {Null}]
         /\ reg' = reg
         /\ count' = [count EXCEPT ![k] = count[k] + 1]
         /\ count' \in [Counters -> Nat]
<1> USE DEF StoreCount, Unlock
<1>1. held[k] = c /\ reg[c] = count[k]
  BY DEF Locks
<1>2. /\ held' \in [Counters -> Cpus \cup {Null}]
      /\ reg' = reg
      /\ count' = [count EXCEPT ![k] = count[k] + 1]
      /\ count' \in [Counters -> Nat]
  BY <1>1, PerfAssumption DEF TypeOK
<1>3. ASSUME NEW j \in Counters, NEW d \in Cpus
      PROVE  /\ held'[j] = d <=> pc'[d] = Inside(j)
             /\ held'[j] = d => reg'[d] = count'[j]
  <2>1. /\ held[j] = d <=> pc[d] = Inside(j)
        /\ held[j] = d => reg[d] = count[j]
    BY DEF Locks
  <2>2. Null \notin Cpus
    BY SchedulerAssumption
  <2>3. pc'[c] = to /\ (d # c => pc'[d] = pc[d])
    BY DEF TypeOK
  <2>4. held'[k] = Null /\ (j # k => held'[j] = held[j] /\ count'[j] = count[j])
    BY DEF TypeOK
  <2>5. CASE j = k
    BY <1>1, <2>1, <2>2, <2>3, <2>4, <2>5, InsideOf
  <2>6. CASE j # k
    BY <1>1, <1>2, <2>1, <2>3, <2>4, <2>6, InsideOf
  <2> QED
    BY <2>5, <2>6
<1> QED
  BY <1>2, <1>3 DEF Locks

\* No lock is taken or given back.
LEMMA LocksKept ==
  ASSUME TypeOK, Locks, NEW c \in Cpus, pc[c] \notin Storing,
         NEW to, to \notin Storing, pc' = [pc EXCEPT ![c] = to], UNCHANGED <<count, held, reg>>
  PROVE  Locks'
<1>1. ASSUME NEW j \in Counters, NEW d \in Cpus
      PROVE  pc'[d] = Inside(j) <=> pc[d] = Inside(j)
  BY InsideOf DEF TypeOK
<1> QED
  BY <1>1 DEF Locks

-----------------------------------------------------------------------------
(* The steps                                                               *)

\* What the variables of Scheduler are.
Tasks ==
  /\ cur \in [Cpus -> Fair \cup {Other}]
  /\ prev \in [Cpus -> Users \cup {Null}]
  /\ next \in [Cpus -> Fair \cup {Null, Retry}]

\* Calls, picks and returns give each CPU a task, whoever is picked.
LEMMA TasksKept ==
  ASSUME TypeOK, NEW c \in Cpus,
         \/ Call(c, "enter")
         \/ Unprobed(c)
         \/ Pick(c)
         \/ Resume(c)
         \/ UNCHANGED <<cur, prev, next>>
  PROVE  Tasks'
<1>1. Tasks
  BY DEF TypeOK, Tasks
<1>2. ASSUME NEW t \in Results(c)
      PROVE  t \in Fair \cup {Null, Retry} /\ Chosen(t) \in Fair \cup {Other}
  BY DEF Results, Chosen
<1>3. CASE Call(c, "enter")
  <2>1. PICK t \in Users \cup {Null} : prev' = [prev EXCEPT ![c] = t]
    BY <1>3 DEF Call
  <2> QED
    BY <1>1, <1>3, <2>1 DEF Call, Tasks
<1>4. CASE Unprobed(c)
  <2>1. PICK t \in Results(c) : cur' = [cur EXCEPT ![c] = Chosen(t)]
    BY <1>4 DEF Unprobed
  <2> QED
    BY <1>1, <1>2, <1>4, <2>1 DEF Unprobed, Tasks
<1>5. CASE Pick(c)
  <2>1. PICK t \in Results(c) : next' = [next EXCEPT ![c] = t]
    BY <1>5 DEF Pick
  <2> QED
    BY <1>1, <1>2, <1>5, <2>1 DEF Pick, Tasks
<1>6. CASE Resume(c)
  <2>1. Chosen(next[c]) \in Fair \cup {Other}
    BY <1>1 DEF Chosen, Tasks
  <2> QED
    BY <1>1, <1>6, <2>1 DEF Resume, Tasks
<1>7. CASE UNCHANGED <<cur, prev, next>>
  BY <1>1, <1>7 DEF Tasks
<1> QED
  BY <1>3, <1>4, <1>5, <1>6, <1>7

\* A step of one CPU while the module is loaded.
LEMMA Close ==
  ASSUME IInv, loaded, UNCHANGED <<loaded, proc>>, Tasks', Locks',
         NEW c \in Cpus, NEW to \in Places, pc' = [pc EXCEPT ![c] = to],
         held' \in [Counters -> Cpus \cup {Null}], reg' \in [Cpus -> 0 .. MaxCalls],
         count' \in [Counters -> Nat], Fit(pc', count'), Balanced(pc', count')
  PROVE  IInv'
<1>1. count' \in [Counters -> 0 .. MaxCalls]
  BY Bounded
<1>2. pc' \in [Cpus -> InHandler \cup {"run", "enter"}]
  BY DEF IInv, TypeOK, Places, Called, InHandler
<1>3. TypeOK'
  BY <1>1, <1>2 DEF IInv, TypeOK, Tasks
<1> QED
  BY <1>3 DEF IInv, Gone, Fit, Balanced, Num, Are

\* What the invariant says while a CPU is in a probed call.
LEMMA Busy ==
  ASSUME IInv, NEW c \in Cpus, pc[c] # "run" \/ loaded
  PROVE  /\ loaded /\ TypeOK /\ Locks /\ Fit(pc, count) /\ Balanced(pc, count)
         /\ DOMAIN pc = Cpus
         /\ count["pre"] \in Nat /\ count["switch"] \in Nat /\ count["post"] \in Nat
         /\ MaxCalls \in Nat
         /\ Num(pc, Early) \in Nat /\ Num(pc, Called) \in Nat /\ Num(pc, Late) \in Nat
  BY NumNat, PerfAssumption DEF IInv, Gone, TypeOK, Counters

\* How the numbers change when a CPU moves from one place to another.
Shift(from, to) == Shifted(pc, pc', from, to)

\* A step that moves one CPU.
LEMMA Shifts ==
  ASSUME IInv, NEW c \in Cpus, NEW to, pc' = [pc EXCEPT ![c] = to]
  PROVE  Shift(pc[c], to)
<1>1. pc'[c] = to /\ \A d \in Cpus : d # c => pc'[d] = pc[d]
  BY DEF IInv, TypeOK
<1>2. Shifted(pc, pc', pc[c], pc'[c])
  BY <1>1, Moved
<1> QED
  BY <1>1, <1>2 DEF Shift

\* The moves that the handlers make.
LEMMA Moves ==
  /\ Shift("run", "enter") =>
       Num(pc', Early) = Num(pc, Early) + 1 /\ Num(pc', Called) = Num(pc, Called)
         /\ Num(pc', Late) = Num(pc, Late)
  /\ (\/ Shift("enter", "entering") \/ Shift("pick", "picked")
      \/ Shift("picked", "switching") \/ Shift("switched", "returning")) =>
       Num(pc', Early) = Num(pc, Early) /\ Num(pc', Called) = Num(pc, Called)
         /\ Num(pc', Late) = Num(pc, Late)
  /\ Shift("entering", "pick") =>
       Num(pc', Early) = Num(pc, Early) - 1 /\ Num(pc', Called) = Num(pc, Called) + 1
         /\ Num(pc', Late) = Num(pc, Late)
  /\ (Shift("switching", "switched") \/ Shift("picked", "returning")) =>
       Num(pc', Early) = Num(pc, Early) /\ Num(pc', Called) = Num(pc, Called)
         /\ Num(pc', Late) = Num(pc, Late) + 1
  /\ Shift("returning", "run") =>
       Num(pc', Early) = Num(pc, Early) /\ Num(pc', Called) = Num(pc, Called) - 1
         /\ Num(pc', Late) = Num(pc, Late) - 1
  BY DEF Shift, Shifted, Early, Called, Late

\* A call is probed if the calls to be counted still fit the bound.
LEMMA StepEnter ==
  ASSUME IInv, NEW c \in Cpus, Enter(c)
  PROVE  IInv'
<1>1. /\ loaded /\ pc[c] = "run" /\ pc' = [pc EXCEPT ![c] = "enter"]
      /\ UNCHANGED <<count, held, reg, loaded, proc>>
      /\ count["pre"] + Cardinality(Active) < MaxCalls
  BY DEF Enter, Call
<1>2. /\ Num(pc', Early) = Num(pc, Early) + 1
      /\ Num(pc', Called) = Num(pc, Called)
      /\ Num(pc', Late) = Num(pc, Late)
  BY <1>1, Shifts, Moves
<1>3. Num(pc, Early) <= Cardinality(Active)
  <2>1. Active \in SUBSET Cpus /\ IsFiniteSet(Cpus)
    BY SchedulerAssumption DEF Active
  <2>2. Are(pc, Early) \in SUBSET Active
    BY DEF Are, Active, Early
  <2>3. IsFiniteSet(Active)
    BY <2>1, FS_Subset
  <2> QED
    BY <2>2, <2>3, FS_Subset DEF Num
<1>4. Cardinality(Active) \in Nat
  BY SchedulerAssumption, FS_Subset, FS_CardinalityType DEF Active
<1>5. Fit(pc', count') /\ Balanced(pc', count')
  BY <1>1, <1>2, <1>3, <1>4, Busy DEF Fit, Balanced
<1>6. Tasks' /\ Locks'
  BY <1>1, TasksKept, LocksKept, Busy DEF Enter, Storing
<1> QED
  <2>1. "enter" \in Places
    BY DEF Places
  <2>2. /\ held' \in [Counters -> Cpus \cup {Null}] /\ reg' \in [Cpus -> 0 .. MaxCalls]
        /\ count' \in [Counters -> Nat]
    BY <1>1, PerfAssumption DEF IInv, TypeOK
  <2> QED
    BY <1>1, <1>5, <1>6, <2>1, <2>2, Close

\* A pick of a task counts nothing.
LEMMA StepPicked ==
  ASSUME IInv, NEW c \in Cpus, Picked(c)
  PROVE  IInv'
<1>1. /\ pc[c] = "pick" /\ pc' = [pc EXCEPT ![c] = "picked"]
      /\ UNCHANGED <<count, held, reg, loaded, proc>>
  BY DEF Picked, Pick
<1>2. /\ Num(pc', Early) = Num(pc, Early)
      /\ Num(pc', Called) = Num(pc, Called)
      /\ Num(pc', Late) = Num(pc, Late)
  BY <1>1, Shifts, Moves
<1>3. Fit(pc', count') /\ Balanced(pc', count')
  BY <1>1, <1>2, Busy DEF Fit, Balanced
<1>4. Tasks' /\ Locks'
  BY <1>1, TasksKept, LocksKept, Busy DEF Picked, Storing
<1> QED
  <2>1. "picked" \in Places /\ loaded
    BY <1>1, Busy DEF Places, Called
  <2>2. /\ held' \in [Counters -> Cpus \cup {Null}] /\ reg' \in [Cpus -> 0 .. MaxCalls]
        /\ count' \in [Counters -> Nat]
    BY <1>1, PerfAssumption DEF IInv, TypeOK
  <2> QED
    BY <1>1, <1>3, <1>4, <2>1, <2>2, Close

\* A handler takes a lock and loads.
LEMMA StepLoads ==
  ASSUME IInv, NEW c \in Cpus, EntryLoad(c) \/ SwitchLoad(c) \/ RetLoad(c)
  PROVE  IInv'
<1>1. PICK k \in Counters :
        /\ pc[c] \notin Storing /\ pc' = [pc EXCEPT ![c] = Inside(k)]
        /\ LoadCount(c, k)
        /\ k = "pre" => pc[c] = "enter"
        /\ k = "switch" => pc[c] = "picked"
        /\ k = "post" => pc[c] \in {"picked", "switched"}
        /\ UNCHANGED <<cur, prev, next, loaded, proc>>
  <2>1. CASE EntryLoad(c)
    <3>1. "pre" \in Counters
      BY DEF Counters
    <3> QED
      BY <2>1, <3>1, InsideOf DEF EntryLoad, At, Storing
  <2>2. CASE SwitchLoad(c)
    <3>1. "switch" \in Counters
      BY DEF Counters
    <3> QED
      BY <2>2, <3>1, InsideOf DEF SwitchLoad, At, Storing
  <2>3. CASE RetLoad(c)
    <3>1. "post" \in Counters
      BY DEF Counters
    <3> QED
      BY <2>3, <3>1, InsideOf DEF RetLoad, At, Storing
  <2> QED
    BY <2>1, <2>2, <2>3
<1>2. loaded /\ TypeOK /\ Locks
  BY <1>1, Busy DEF Counters
<1>3. /\ Locks' /\ count' = count /\ Tasks'
      /\ held' \in [Counters -> Cpus \cup {Null}] /\ reg' \in [Cpus -> 0 .. MaxCalls]
  BY <1>1, <1>2, LocksLoad, TasksKept
<1>4. /\ Num(pc', Early) = Num(pc, Early)
      /\ Num(pc', Called) = Num(pc, Called)
      /\ Num(pc', Late) >= Num(pc, Late)
      /\ Num(pc', Late) \in Nat
  <2>1. pc[c] # "run"
    BY <1>1 DEF Counters
  <2>2. CASE k = "pre"
    <3>1. Shift("enter", Inside(k))
      BY <1>1, <2>2, Shifts
    <3> QED
      BY <2>1, <2>2, <3>1, Moves, Busy, InsideOf
  <2>3. CASE k = "switch"
    <3>1. Shift("picked", Inside(k))
      BY <1>1, <2>3, Shifts
    <3> QED
      BY <2>1, <2>3, <3>1, Moves, Busy, InsideOf
  <2>4. CASE k = "post"
    <3>1. Shift("picked", Inside(k)) \/ Shift("switched", Inside(k))
      BY <1>1, <2>4, Shifts
    <3> QED
      BY <2>1, <2>4, <3>1, Moves, Busy, InsideOf
  <2> QED
    BY <2>2, <2>3, <2>4 DEF Counters
<1>5. Fit(pc', count') /\ Balanced(pc', count')
  BY <1>2, <1>3, <1>4, Busy DEF Fit, Balanced
<1>6. Inside(k) \in Places /\ count' \in [Counters -> Nat]
  BY <1>2, <1>3, InsideOf, PerfAssumption DEF Storing, Places, Called, TypeOK
<1> QED
  BY <1>1, <1>2, <1>3, <1>5, <1>6, Close

\* A handler stores and gives the lock back; the return handler also ends the
\* call.
LEMMA StepStores ==
  ASSUME IInv, NEW c \in Cpus, EntryStore(c) \/ SwitchStore(c) \/ RetStore(c)
  PROVE  IInv'
<1>1. PICK k \in Counters, to \in Places :
        /\ pc[c] = Inside(k) /\ to \notin Storing /\ pc' = [pc EXCEPT ![c] = to]
        /\ StoreCount(c, k)
        /\ k = "pre" => to = "pick"
        /\ k = "switch" => to = "switched"
        /\ k = "post" => to = "run"
        /\ UNCHANGED <<cur, prev, next>> \/ Resume(c)
        /\ UNCHANGED <<loaded, proc>>
  <2>1. CASE EntryStore(c)
    <3>1. "pre" \in Counters /\ "pick" \in Places \ Storing
      BY DEF Counters, Places, Called, Storing
    <3> QED
      BY <2>1, <3>1, InsideOf DEF EntryStore, At
  <2>2. CASE SwitchStore(c)
    <3>1. "switch" \in Counters /\ "switched" \in Places \ Storing
      BY DEF Counters, Places, Called, Storing
    <3> QED
      BY <2>2, <3>1, InsideOf DEF SwitchStore, At
  <2>3. CASE RetStore(c)
    <3>1. "post" \in Counters /\ "run" \in Places \ Storing
      BY DEF Counters, Places, Called, Storing
    <3> QED
      BY <2>3, <3>1, InsideOf DEF RetStore, Resume
  <2> QED
    BY <2>1, <2>2, <2>3
<1>2. pc[c] # "run" /\ k \in {"pre", "switch", "post"}
  BY <1>1, InsideOf DEF Storing, Counters
<1>3. loaded /\ TypeOK /\ Locks
  BY <1>2, Busy
<1>4. /\ Locks' /\ held' \in [Counters -> Cpus \cup {Null}] /\ reg' = reg
      /\ count' = [count EXCEPT ![k] = count[k] + 1] /\ count' \in [Counters -> Nat]
  BY <1>1, <1>3, LocksStore
<1>5. Tasks'
  BY <1>1, <1>3, TasksKept
<1>6. Shift(Inside(k), to)
  BY <1>1, Shifts
<1>7. Fit(pc', count') /\ Balanced(pc', count')
  <2>1. DOMAIN count = {"pre", "switch", "post"}
    BY <1>3 DEF TypeOK, Counters
  <2>2. CASE k = "pre"
    BY <1>1, <1>2, <1>4, <1>6, <2>1, <2>2, Moves, Busy, InsideOf DEF Fit, Balanced
  <2>3. CASE k = "switch"
    BY <1>1, <1>2, <1>4, <1>6, <2>1, <2>3, Moves, Busy, InsideOf DEF Fit, Balanced
  <2>4. CASE k = "post"
    BY <1>1, <1>2, <1>4, <1>6, <2>1, <2>4, Moves, Busy, InsideOf DEF Fit, Balanced
  <2> QED
    BY <1>2, <2>2, <2>3, <2>4
<1>8. reg' \in [Cpus -> 0 .. MaxCalls]
  BY <1>3, <1>4 DEF TypeOK
<1> QED
  BY <1>1, <1>3, <1>4, <1>5, <1>7, <1>8, Close

\* Calls that are not probed change only what runs.
LEMMA StepPass ==
  ASSUME IInv, NEW c \in Cpus, Pass(c)
  PROVE  IInv'
<1>1. UNCHANGED <<pc, count, held, reg, loaded, proc>>
  BY DEF Pass, Unprobed
<1>2. Tasks'
  BY TasksKept DEF Pass, IInv
<1>3. TypeOK'
  BY <1>1, <1>2 DEF IInv, TypeOK, Tasks
<1> QED
  BY <1>1, <1>3 DEF IInv, Locks, Gone, Fit, Balanced, Num, Are

\* The module is loaded, or refused, where no CPU is in a probed call.
LEMMA StepLoad ==
  ASSUME IInv, Load
  PROVE  IInv'
<1> USE DEF Load
<1>1. /\ UNCHANGED <<cur, pc, prev, next, held, reg>> /\ \A c \in Cpus : pc[c] = "run"
      /\ count' = [k \in Counters |-> 0]
  BY DEF schedVars, IInv, Gone
<1>2. TypeOK'
  <2>1. count' \in [Counters -> 0 .. MaxCalls]
    BY <1>1, PerfAssumption
  <2>2. loaded' \in BOOLEAN /\ proc' \in (IF loaded' THEN {"live", "stale"} ELSE {"none", "stale"})
    BY DEF IInv, TypeOK
  <2> QED
    BY <1>1, <2>1, <2>2 DEF IInv, TypeOK
<1>3. Locks'
  <2>1. \A k \in Counters : Inside(k) # "run"
    BY InsideOf DEF Storing
  <2> QED
    BY <1>1, <2>1 DEF IInv, Locks
<1>4. /\ Num(pc, Early) = 0 /\ Num(pc, Called) = 0 /\ Num(pc, Late) = 0
      /\ count'["pre"] = 0 /\ count'["post"] = 0 /\ count'["switch"] = 0
  BY <1>1, NumNone DEF Early, Called, Late, Counters
<1>5. Fit(pc', count') /\ Balanced(pc', count')
  BY <1>1, <1>4, PerfAssumption DEF Fit, Balanced
<1> QED
  BY <1>1, <1>2, <1>3, <1>5 DEF IInv, Gone

\* The module goes when no CPU is in a handler; calls that were entered return
\* without it.
LEMMA StepUnload ==
  ASSUME IInv, Unload
  PROVE  IInv'
<1>1. /\ \A c \in Cpus : pc[c] \in {"run", "pick"}
      /\ loaded' = FALSE /\ proc' = "none"
      /\ cur' \in Assignments
      /\ pc' = [c \in Cpus |-> "run"] /\ prev' = [c \in Cpus |-> Null]
      /\ next' = [c \in Cpus |-> Null]
      /\ UNCHANGED <<count, held, reg>>
  BY DEF Unload, Unregister, Drain
<1>2. cur' \in [Cpus -> Fair \cup {Other}]
  BY <1>1 DEF Assignments
<1>3. TypeOK'
  BY <1>1, <1>2 DEF IInv, TypeOK
<1>4. Locks'
  <2>1. \A k \in Counters : Inside(k) \notin {"run", "pick"}
    BY InsideOf DEF Storing
  <2> QED
    BY <1>1, <2>1 DEF IInv, Locks
<1>5. Fit(pc', count')
  <2>1. Num(pc', Early) = 0
    <3>1. \A c \in Cpus : pc'[c] \notin Early
      BY <1>1 DEF Early
    <3> QED
      BY <3>1, NumNone
  <2> QED
    BY <1>1, <2>1, PerfAssumption DEF Fit, IInv, TypeOK, Counters
<1> QED
  BY <1>1, <1>3, <1>4, <1>5 DEF IInv, Gone

-----------------------------------------------------------------------------
(* The theorems                                                            *)

\* Before the module is loaded all CPUs run their tasks.
LEMMA InitIInv == Init => IInv
<1> SUFFICES ASSUME Init PROVE IInv
  OBVIOUS
<1> USE DEF Init, SchedulerInit
<1>1. TypeOK
  <2>1. cur \in [Cpus -> Fair \cup {Other}]
    BY DEF Assignments
  <2>2. /\ count \in [Counters -> 0 .. MaxCalls] /\ reg \in [Cpus -> 0 .. MaxCalls]
        /\ held \in [Counters -> Cpus \cup {Null}] /\ pc \in [Cpus -> {"run"}]
    BY PerfAssumption
  <2> QED
    BY <2>1, <2>2 DEF TypeOK
<1>2. Locks
  BY SchedulerAssumption, InsideOf DEF Locks, Storing
<1>3. Num(pc, Early) = 0
  BY NumNone DEF Early
<1> QED
  BY <1>1, <1>2, <1>3, PerfAssumption DEF IInv, Gone, Fit, Counters

\* Every step of a CPU, and of the module's owner, keeps the invariant.
LEMMA StepIInv == IInv /\ [Next]_vars => IInv'
<1> SUFFICES ASSUME IInv, [Next]_vars PROVE IInv'
  OBVIOUS
<1>1. CASE Load \/ Unload
  BY <1>1, StepLoad, StepUnload
<1>2. ASSUME NEW c \in Cpus, Enter(c) \/ Pass(c) \/ Picked(c) \/ Handler(c)
      PROVE  IInv'
  BY <1>2, StepEnter, StepPass, StepPicked, StepLoads, StepStores DEF Handler
<1>3. CASE UNCHANGED vars
  <2>1. UNCHANGED <<cur, pc, prev, next, count, held, reg, loaded, proc>>
    BY <1>3 DEF vars, schedVars
  <2> QED
    BY <2>1 DEF IInv, TypeOK, Locks, Gone, Fit, Balanced, Num, Are
<1> QED
  BY <1>1, <1>2, <1>3 DEF Next

\* The invariant holds throughout.
LEMMA Invariant == Spec => []IInv
<1> QED
  BY InitIInv, StepIInv, PTL DEF Spec

\* Every variable keeps its type; in particular no counter exceeds the calls
\* there have been, and the proc entry is live or stale when it must be.
THEOREM TypeCorrect == Spec => []TypeOK
<1>1. IInv => TypeOK
  BY DEF IInv
<1> QED
  BY <1>1, Invariant, PTL

\* No increment is lost: entries and returns differ by the calls under way, and
\* switches exceed returns by no more than those of them that have counted.
THEOREM NoneLost == Spec => []CountsBalanced
<1>1. ASSUME IInv PROVE CountsBalanced
  <2>1. Called = InHandler \ {"entering"}
    BY DEF Called, InHandler
  <2> QED
    BY <1>1, <2>1 DEF IInv, Balanced, CountsBalanced, Num, Are, Late
<1> QED
  BY <1>1, Invariant, PTL
=============================================================================
