------------------------------ MODULE Perftop ------------------------------
(***************************************************************************)
(* HW4P2/perftop.c: the time every task has spent on a CPU, kept in a hash *)
(* table (when the task was last seen to start) and a red-black tree (its  *)
(* total, in order), both under post_timing_lock.  The three counters are  *)
(* those of PerfCounters and left out.  The tree is the sequence of its    *)
(* nodes in order and the table a partial function: rebalancing and        *)
(* buckets are left out.  A task stands for its pid, and so for all that    *)
(* have the pid one after the other: entries are never removed.            *)
(***************************************************************************)
EXTENDS Scheduler, SequencesExt

CONSTANTS
  Fresh,     \* what kmalloc's memory may hold: "zero", "garbage"
  TopCount,  \* how many tasks /proc/perftop lists (10)
  MaxTsc,    \* bound: the time-stamp counter
  MaxTotal   \* bound: a task's total

ASSUME PerftopAssumption ==
  Fresh \subseteq {"zero", "garbage"} /\ {TopCount, MaxTsc, MaxTotal} \subseteq Nat

VARIABLES
  tsc,     \* the time-stamp counter, the same on all CPUs
  proc,    \* /proc/perftop: "none", "live", or "stale" when its module is gone
  ht,      \* ht_wrapper: "none", or what it held when it was allocated
  table,   \* pid -> [tsc, node]: the entries of the hash table
  tree,    \* the tree's nodes [pid, ttsc], from rb_first to rb_last
  held,    \* the CPU that holds post_timing_lock, or Null
  listed,  \* what the reader of /proc/perftop has printed
  at,      \* the reader's position in tree, 0 for a null pointer
  ran,     \* history: ran[t], the time t was on a CPU since it has a node
  missed   \* history: tasks with a node that came or went unrecorded

dataVars == <<proc, ht, table, tree>>
showVars == <<listed, at>>
history == <<ran, missed>>
vars == <<schedVars, tsc, dataVars, held, showVars, history>>

Empty == [t \in {} |-> 0]

Init ==
  /\ SchedulerInit
  /\ tsc = 0
  /\ proc = "none"
  /\ ht = "none"
  /\ table = Empty
  /\ tree = <<>>
  /\ held = Null
  /\ listed = <<>>
  /\ at = 0
  /\ ran = [t \in Fair |-> 0]
  /\ missed = {}

Known(p) == p \in DOMAIN table
Counted(p) == Known(p) /\ table[p].node = "tree"

\* History: c goes from one task to another and the handlers do not record it.
Unrecorded(c) ==
  /\ missed' = missed \cup
       (IF cur'[c] = cur[c] THEN {} ELSE {t \in {cur[c], cur'[c]} : Counted(t)})
  /\ UNCHANGED ran

\* Time passes for what runs.
Tick ==
  /\ tsc < MaxTsc
  /\ tsc' = tsc + 1
  /\ ran' = [t \in Fair |-> IF Counted(t) /\ \E c \in Cpus : cur[c] = t
                            THEN ran[t] + 1 ELSE ran[t]]
  /\ UNCHANGED <<schedVars, dataVars, held, showVars, missed>>

\* perftop_init.  The table is allocated and never initialised.  When the
\* probe cannot be registered the module is refused and its proc entry stays
\* behind; a later proc_create of the name fails.
Load ==
  /\ ht = "none"
  /\ \/ ht' \in Fresh /\ proc' = (IF proc = "none" THEN "live" ELSE proc)
     \/ UNCHANGED ht /\ proc' = "stale"
  /\ UNCHANGED <<schedVars, tsc, table, tree, held, showVars, history>>

\* perftop_exit: no reader and no handler is left when all is freed.
Unload ==
  /\ ht # "none"
  /\ Drain
  /\ proc' = "none"
  /\ ht' = "none"
  /\ table' = Empty
  /\ tree' = <<>>
  /\ ran' = [t \in Fair |-> 0]
  /\ missed' = {}
  /\ UNCHANGED <<tsc, held, showVars>>

\* entry_pick_next_fair keeps prev for the return handler.
Enter(c) ==
  /\ ht # "none"
  /\ Call(c, "pick")
  /\ UNCHANGED <<tsc, dataVars, held, showVars, history>>

Pass(c) == Unprobed(c) /\ Unrecorded(c) /\ UNCHANGED <<tsc, dataVars, held, showVars>>
Picked(c) == Pick(c) /\ UNCHANGED <<tsc, dataVars, held, showVars, history>>

\* my_rb_insert: after all totals that are not greater, before the others.
Insert(nodes, new) ==
  LET k == CHOOSE k \in 1 .. Len(nodes) + 1 :
             \A j \in DOMAIN nodes : j < k <=> nodes[j].ttsc <= new.ttsc
  IN InsertAt(nodes, k, new)

\* Faulty variant of Erase: rb_erase is missing.
EraseForgotten(nodes, p) == nodes

\* position->node
Node(nodes, p) == CHOOSE k \in DOMAIN nodes : nodes[k].pid = p

\* rb_erase of p's old node, if it has one.
Erase(nodes, p) ==
  IF \E k \in DOMAIN nodes : nodes[k].pid = p THEN RemoveAt(nodes, Node(nodes, p)) ELSE nodes

\* The entry of a task that stops running, made now if there is none.
Entry(p) == IF Known(p) THEN table[p] ELSE [tsc |-> tsc, node |-> "null"]

OldTotal(p) == tree[Node(tree, p)].ttsc

\* prev's new total: 0 for an entry without a node, whatever has elapsed.
Total(p) == IF Entry(p).node = "null" THEN 0 ELSE OldTotal(p) + tsc - Entry(p).tsc

\* Faulty variant of Started: the start of a task already known is kept.
StartedOnce(n) == IF Known(n) THEN table[n] ELSE [tsc |-> tsc, node |-> "null"]

\* next's entry: it starts now.
Started(n) == [tsc |-> tsc, node |-> Entry(n).node]

\* Faulty variant of Timing: the lock is not taken.
TimingUnlocked(c) == pc[c] = "picked" /\ Switched(c)

\* ret_pick_next_fair has a switch to record and takes post_timing_lock.
Timing(c) == pc[c] = "picked" /\ Switched(c) /\ held = Null

Record(c) ==
  /\ Timing(c)
  /\ next[c] # Retry /\ ht = "zero"
  /\ Total(prev[c]) <= MaxTotal
  /\ LET p == prev[c]
         n == next[c]
     IN /\ tree' = Insert(Erase(tree, p), [pid |-> p, ttsc |-> Total(p)])
        /\ table' = [q \in DOMAIN table \cup {p, n} |->
                       IF q = n THEN Started(n)
                       ELSE IF q = p THEN [tsc |-> Entry(p).tsc, node |-> "tree"] ELSE table[q]]
  /\ Resume(c)
  /\ UNCHANGED <<tsc, proc, ht, held, showVars, history>>

\* The CPU dies with the lock held: the table holds garbage, kmalloc returned
\* NULL, or the task to record is RETRY_TASK.
Oops(c) ==
  /\ Timing(c)
  /\ held' = c
  /\ pc' = [pc EXCEPT ![c] = "oops"]
  /\ UNCHANGED <<cur, prev, next, tsc, dataVars, showVars, history>>

\* There is no switch to record.
NotSwitched(c) ==
  /\ pc[c] = "picked"
  /\ ~Switched(c)
  /\ Resume(c)
  /\ Unrecorded(c)
  /\ UNCHANGED <<tsc, dataVars, held, showVars>>

\* perftop_proc_show, run by the task on c.  It holds the lock, so that c is
\* not rescheduled until it ends, and prints the last TopCount nodes.
ShowBegin(c) ==
  /\ proc = "live"
  /\ pc[c] = "run"
  /\ cur[c] \in Users
  /\ held = Null
  /\ held' = c
  /\ at' = Len(tree)
  /\ pc' = [pc EXCEPT ![c] = "show"]
  /\ UNCHANGED <<cur, prev, next, tsc, dataVars, listed, history>>

ShowNode(c) ==
  /\ pc[c] = "show"
  /\ Len(listed) < TopCount /\ at # 0
  /\ listed' = Append(listed, tree[at])
  /\ at' = at - 1
  /\ UNCHANGED <<schedVars, tsc, dataVars, held, history>>

ShowEnd(c) ==
  /\ pc[c] = "show"
  /\ Len(listed) = TopCount \/ at = 0
  /\ held' = Null
  /\ listed' = <<>>
  /\ at' = 0
  /\ pc' = [pc EXCEPT ![c] = "run"]
  /\ UNCHANGED <<cur, prev, next, tsc, dataVars, history>>

Next ==
  \/ Tick \/ Load \/ Unload
  \/ \E c \in Cpus :
       \/ Enter(c) \/ Pass(c) \/ Picked(c)
       \/ Record(c) \/ Oops(c) \/ NotSwitched(c)
       \/ ShowBegin(c) \/ ShowNode(c) \/ ShowEnd(c)

Spec == Init /\ [][Next]_vars

-----------------------------------------------------------------------------
Pids == {tree[i].pid : i \in DOMAIN tree}

TypeOK ==
  /\ cur \in [Cpus -> Fair \cup {Other}]
  /\ pc \in [Cpus -> {"run", "pick", "picked", "oops", "show"}]
  /\ prev \in [Cpus -> Users \cup {Null}]
  /\ next \in [Cpus -> Fair \cup {Null, Retry}]
  /\ tsc \in 0 .. MaxTsc
  /\ proc \in (IF ht = "none" THEN {"none", "stale"} ELSE {"live", "stale"})
  /\ ht \in {"none"} \cup Fresh
  /\ DOMAIN table \subseteq Fair
  /\ \A p \in DOMAIN table : table[p] \in [tsc : 0 .. tsc, node : {"null", "tree"}]
  /\ \A i \in DOMAIN tree : tree[i] \in [pid : Users, ttsc : 0 .. MaxTotal]
  /\ held \in Cpus \cup {Null}
  /\ at \in 0 .. Len(tree)
  /\ ran \in [Fair -> 0 .. MaxTsc]
  /\ missed \subseteq Users

\* The two structures describe the same tasks: the entries that point to a
\* node point to the one node of their task, every node has its entry, and
\* the tree is in order, although every switch moves a node.
NodesMatch ==
  /\ Pids = {p \in DOMAIN table : table[p].node = "tree"}
  /\ Cardinality(Pids) = Len(tree)
  /\ \A i, j \in DOMAIN tree : i < j => tree[i].ttsc <= tree[j].ttsc

\* What a reader has printed are the greatest totals at one moment: no CPU
\* moves a node under it.
Snapshot ==
  (\E c \in Cpus : pc[c] = "show") =>
    /\ at + Len(listed) = Len(tree)
    /\ \A i \in DOMAIN listed : listed[i] = tree[Len(tree) + 1 - i]

Running(p) == \E c \in Cpus : cur[c] = p

\* The total of a task, with the slice it is in, is the time it has run since
\* it has a node, on whichever CPUs and whatever else was recorded meanwhile,
\* if none of its own switches was missed.
TotalIsTime ==
  \A i \in DOMAIN tree :
    LET p == tree[i].pid
    IN p \notin missed =>
         tree[i].ttsc + (IF Running(p) THEN tsc - table[p].tsc ELSE 0) = ran[p]

\* "the Total accumulated time that the task_struct spend in CPU": no total is
\* greater than the time its task has run.
NeverOvercounts == \A i \in DOMAIN tree : tree[i].ttsc <= ran[tree[i].pid]

=============================================================================
