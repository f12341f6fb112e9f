----------------------------- MODULE Scheduler -----------------------------
(***************************************************************************)
(* What the two perftop modules of HW4 are attached to: the CPUs of Linux, *)
(* each calling pick_next_task_fair(rq, prev, rf) with a return probe on   *)
(* it.  Everything here is outside src/: it is modelled from what the      *)
(* handlers read (current->mm, prev, the value returned) and from          *)
(* kretprobe's instances.  The handlers are actions of the modules that    *)
(* extend this one.                                                        *)
(***************************************************************************)
EXTENDS Integers, FiniteSets

CONSTANTS
  Cpus,       \* CPUs
  Users,      \* tasks of the fair class that have an mm
  Kthreads,   \* tasks of the fair class that have none: kernel threads
  Other,      \* any task outside the fair class: idle, real time
  Null,       \* a null pointer; also no CPU
  Retry,      \* RETRY_TASK, (void *)-1
  MaxActive,  \* kretprobe instances
  Odd         \* which unusual calls happen, see below

\* "sleep": a CPU may be out of fair tasks, and pick_next_task_fair returns
\* Null, or Retry when a task of another class arrived meanwhile.
\* "class": with tasks of another class about, prev is passed as Null.
ASSUME SchedulerAssumption ==
  /\ Odd \subseteq {"sleep", "class"}
  /\ MaxActive \in Nat
  /\ IsFiniteSet(Cpus) /\ Null \notin Cpus
  /\ Cardinality({Other, Null, Retry}) = 3
  /\ {Other, Null, Retry} \cap (Users \cup Kthreads) = {} /\ Users \cap Kthreads = {}

VARIABLES
  cur,    \* cur[c]: the task that runs on c
  pc,     \* pc[c]: where c is
  prev,   \* prev[c]: ri->data of the instance c uses
  next    \* next[c]: what pick_next_task_fair returned

schedVars == <<cur, pc, prev, next>>

Fair == Users \cup Kthreads

\* Every CPU runs a task, no two the same one; tasks of other classes run only
\* where unusual calls happen.
Assignments ==
  {f \in [Cpus -> Fair \cup (IF Odd = {} THEN {} ELSE {Other})] :
     \A c, d \in Cpus : c # d /\ f[c] = f[d] => f[c] = Other}

SchedulerInit ==
  /\ cur \in Assignments
  /\ pc = [c \in Cpus |-> "run"]
  /\ prev = [c \in Cpus |-> Null]
  /\ next = [c \in Cpus |-> Null]

\* A CPU is using an instance from the call of the function to the end of the
\* return handler.
Active == {c \in Cpus : pc[c] \notin {"run", "show"}}

\* Only tasks that run nowhere else can be picked, or the current one.
Results(c) ==
  {t \in Fair : \A d \in Cpus \ {c} : cur[d] # t /\ next[d] # t}
    \cup (IF "sleep" \in Odd THEN {Null, Retry} ELSE {})

\* The call is probed, current may have an mm and an instance is free: c
\* runs the entry handler, from "to".
Call(c, to) ==
  /\ pc[c] = "run"
  /\ cur[c] \notin Kthreads
  /\ Cardinality(Active) < MaxActive
  /\ prev' \in {[prev EXCEPT ![c] = t] :
                  t \in (IF cur[c] \in Users THEN {cur[c]} ELSE {Null})
                        \cup (IF "class" \in Odd THEN {Null} ELSE {})}
  /\ pc' = [pc EXCEPT ![c] = to]
  /\ UNCHANGED <<cur, next>>

\* What runs on c once t has been picked.
Chosen(t) == IF t \in {Null, Retry} THEN Other ELSE t

\* The call is not recorded: the entry handler skips a kernel thread (or the
\* idle task), or all instances are in use.
Unprobed(c) ==
  /\ pc[c] = "run"
  /\ cur[c] \notin Users \/ Cardinality(Active) >= MaxActive
  /\ \E t \in Results(c) : cur' = [cur EXCEPT ![c] = Chosen(t)]
  /\ UNCHANGED <<pc, prev, next>>

Pick(c) ==
  /\ pc[c] = "pick"
  /\ \E t \in Results(c) : next' = [next EXCEPT ![c] = t]
  /\ pc' = [pc EXCEPT ![c] = "picked"]
  /\ UNCHANGED <<cur, prev>>

\* The return handler ends: the instance is free and the picked task runs.
Resume(c) ==
  /\ cur' = [cur EXCEPT ![c] = Chosen(next[c])]
  /\ pc' = [pc EXCEPT ![c] = "run"]
  /\ prev' = [prev EXCEPT ![c] = Null]
  /\ next' = [next EXCEPT ![c] = Null]

\* unregister_kretprobe waits until no CPU is in a handler; calls already
\* entered return without theirs.
Drain ==
  /\ \A c \in Cpus : pc[c] \in {"run", "pick"}
  /\ cur' \in {f \in Assignments : \A c \in Cpus : pc[c] = "run" => f[c] = cur[c]}
  /\ pc' = [c \in Cpus |-> "run"]
  /\ prev' = [c \in Cpus |-> Null]
  /\ next' = [c \in Cpus |-> Null]

\* Faulty variant of Switched: null pointers are not looked for.
SwitchedUnchecked(c) == prev[c] # next[c]

\* The test both return handlers make before they record a switch.
Switched(c) == prev[c] # next[c] /\ next[c] # Null /\ prev[c] # Null
=============================================================================
