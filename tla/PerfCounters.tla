---------------------------- MODULE PerfCounters ----------------------------
(***************************************************************************)
(* HW4P1/perftop.c: a return probe on pick_next_task_fair that counts      *)
(* entries, returns and context switches, each counter under a spinlock of *)
(* its own.  An increment is a load and a store, so that the locks matter. *)
(***************************************************************************)
EXTENDS Scheduler

CONSTANT MaxCalls   \* bound: probed calls

ASSUME PerfAssumption == MaxCalls \in Nat

Counters == {"pre", "switch", "post"}

VARIABLES
  count,   \* count[k]: pre_count, context_switch_counter, post_count
  held,    \* held[k]: the CPU that holds k's lock, or Null
  reg,     \* reg[c]: the value c has loaded
  loaded,  \* the module is in the kernel
  proc     \* /proc/perftop: "none", "live", or "stale" (its module is gone)

vars == <<schedVars, count, held, reg, loaded, proc>>

Init ==
  /\ SchedulerInit
  /\ count = [k \in Counters |-> 0]
  /\ held = [k \in Counters |-> Null]
  /\ reg = [c \in Cpus |-> 0]
  /\ loaded = FALSE
  /\ proc = "none"

\* perftop_init.  When the probe cannot be registered the module is refused
\* and its proc entry stays behind; a later proc_create of the name fails.
Load ==
  /\ ~loaded
  /\ \/ loaded' = TRUE /\ proc' = IF proc = "none" THEN "live" ELSE proc
     \/ loaded' = FALSE /\ proc' = "stale"
  /\ count' = [k \in Counters |-> 0]
  /\ UNCHANGED <<schedVars, held, reg>>

\* perftop_exit after remove_proc_entry.
Unregister ==
  /\ loaded
  /\ Drain
  /\ loaded' = FALSE
  /\ UNCHANGED <<count, held, reg>>

\* Faulty variant of Unload: the proc entry is left to be read.
UnloadKeepsProc == Unregister /\ UNCHANGED proc

Unload == Unregister /\ proc' = "none"

\* Faulty variant of Lock: spin_lock is missing.
LockSkipped(c, k) == UNCHANGED held

\* spin_lock and spin_unlock.
Lock(c, k) == held[k] = Null /\ held' = [held EXCEPT ![k] = c]
Unlock(c, k) == held' = [held EXCEPT ![k] = Null]

\* spin_lock; the increment's load.
LoadCount(c, k) ==
  /\ Lock(c, k)
  /\ reg' = [reg EXCEPT ![c] = count[k]]
  /\ UNCHANGED count

\* The increment's store; spin_unlock.
StoreCount(c, k) ==
  /\ count' = [count EXCEPT ![k] = reg[c] + 1]
  /\ Unlock(c, k)
  /\ UNCHANGED reg

At(c, from, to) == pc[c] = from /\ pc' = [pc EXCEPT ![c] = to] /\ UNCHANGED <<cur, prev, next>>

\* Calls are probed while the module is loaded.
Enter(c) ==
  /\ loaded
  /\ count["pre"] + Cardinality(Active) < MaxCalls
  /\ Call(c, "enter")
  /\ UNCHANGED <<count, held, reg, loaded, proc>>

Pass(c) == Unprobed(c) /\ UNCHANGED <<count, held, reg, loaded, proc>>

\* entry_pick_next_fair.
EntryLoad(c) == At(c, "enter", "entering") /\ LoadCount(c, "pre") /\ UNCHANGED <<loaded, proc>>
EntryStore(c) == At(c, "entering", "pick") /\ StoreCount(c, "pre") /\ UNCHANGED <<loaded, proc>>

Picked(c) == Pick(c) /\ UNCHANGED <<count, held, reg, loaded, proc>>

\* ret_pick_next_fair: the context switch, ...
SwitchLoad(c) ==
  /\ Switched(c)
  /\ At(c, "picked", "switching")
  /\ LoadCount(c, "switch")
  /\ UNCHANGED <<loaded, proc>>

SwitchStore(c) == At(c, "switching", "switched") /\ StoreCount(c, "switch") /\ UNCHANGED <<loaded, proc>>

\* ... if there is one, and the return.
RetLoad(c) ==
  /\ pc[c] = "switched" \/ (pc[c] = "picked" /\ ~Switched(c))
  /\ At(c, pc[c], "returning")
  /\ LoadCount(c, "post")
  /\ UNCHANGED <<loaded, proc>>

RetStore(c) ==
  /\ pc[c] = "returning"
  /\ StoreCount(c, "post")
  /\ Resume(c)
  /\ UNCHANGED <<loaded, proc>>

Handler(c) ==
  \/ EntryLoad(c) \/ EntryStore(c) \/ SwitchLoad(c) \/ SwitchStore(c)
  \/ RetLoad(c) \/ RetStore(c)

Next ==
  \/ Load
  \/ Unload
  \/ \E c \in Cpus : Enter(c) \/ Pass(c) \/ Picked(c) \/ Handler(c)

Spec == Init /\ [][Next]_vars

-----------------------------------------------------------------------------
InHandler == {"entering", "pick", "picked", "switching", "switched", "returning"}

TypeOK ==
  /\ cur \in [Cpus -> Fair \cup {Other}]
  /\ pc \in [Cpus -> InHandler \cup {"run", "enter"}]
  /\ prev \in [Cpus -> Users \cup {Null}]
  /\ next \in [Cpus -> Fair \cup {Null, Retry}]
  /\ count \in [Counters -> 0 .. MaxCalls]
  /\ held \in [Counters -> Cpus \cup {Null}]
  /\ reg \in [Cpus -> 0 .. MaxCalls]
  /\ loaded \in BOOLEAN
  /\ proc \in (IF loaded THEN {"live", "stale"} ELSE {"none", "stale"})

\* No increment is lost although CPUs enter and return at the same time: the
\* entries counted and not yet returned are those in the function, and the
\* switches counted are among the returns or in one that is under way.
CountsBalanced ==
  loaded =>
    /\ count["pre"] - count["post"] =
         Cardinality({c \in Cpus : pc[c] \in InHandler \ {"entering"}})
    /\ count["switch"] <= count["post"] + Cardinality({c \in Cpus : pc[c] \in {"switched", "returning"}})
=============================================================================
