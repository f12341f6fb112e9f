---------------------------- MODULE SharedMemory ----------------------------
(***************************************************************************)
(* What HW3P2/s2dsm_P2.c promises the users of its two processes: one      *)
(* memory.  Each page a user asks to write takes its new text at once, at  *)
(* some moment before the next command of that user; nothing else changes  *)
(* a text; and a line printed by either process is the page's current      *)
(* text.  The promise ends when a process does.                            *)
(***************************************************************************)
CONSTANTS Procs, Addrs, Texts, Blank, NoLine

VARIABLES
  store,   \* store[x]: the text of page x
  todo,    \* todo[p]: the writes p's user has asked for and p has not made
  out,     \* the last line printed by either process
  up       \* both processes exist

vars == <<store, todo, out, up>>

Init ==
  /\ store = [x \in Addrs |-> Blank]
  /\ todo = [p \in Procs |-> {}]
  /\ out = NoLine
  /\ up = TRUE

\* A user who waits for nothing asks for a text on some pages.
Ask(p, pages, text) ==
  /\ up
  /\ todo[p] = {}
  /\ todo' = [todo EXCEPT ![p] = {[page |-> x, text |-> text] : x \in pages}]
  /\ UNCHANGED <<store, out, up>>

Write(p, w) ==
  /\ up
  /\ store' = [store EXCEPT ![w.page] = w.text]
  /\ todo' = [todo EXCEPT ![p] = @ \ {w}]
  /\ UNCHANGED <<out, up>>

Output(p, x) ==
  /\ up
  /\ out' = [proc |-> p, page |-> x, text |-> store[x]]
  /\ UNCHANGED <<store, todo, up>>

\* The first process to end takes the memory with it.
End ==
  /\ up
  /\ up' = FALSE
  /\ store' = [x \in Addrs |-> Blank]
  /\ todo' = [p \in Procs |-> {}]
  /\ out' = NoLine

Next ==
  \/ \E p \in Procs :
       \/ \E pages \in SUBSET Addrs, text \in Texts : Ask(p, pages, text)
       \/ \E w \in todo[p] : Write(p, w)
       \/ \E x \in Addrs : Output(p, x)
  \/ End

Spec == Init /\ [][Next]_vars
=============================================================================
