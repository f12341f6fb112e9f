# Specifications of the CSE306 assignments

TLA+ models of the programs in this repository, with the TLC runs that check
them on small instances and theorems about them checked by TLAPS. The programs
are five independent homeworks:

| Homework | Program | What is hard about it |
|---|---|---|
| HW3P2 | `s2dsm_P2.c`, distributed shared memory of two processes | three threads per process, page faults, an MSI protocol without acknowledgements, untagged replies, page accesses cut in two, a process killed at any moment |
| HW3P1 | `s2dsm_P1b.c`, `s2dsm_P1c.c`, its first two stages | handshake, connection without frames, page faults inside a command |
| HW3P1/uffd | `uffd.c`, a walk over a region filled by a fault handler | one staging page, `madvise` rounds, `int` against `unsigned long` |
| HW4P1, HW4P2 | `perftop.c`, kernel modules on a return probe of the scheduler | handlers on all CPUs, spinlocks, unrecorded calls, two structures kept in step |
| HW2 | `kds.c`, six kernel data structures | a parser with two pointers, numbers cut to an `int`, failing allocations, who frees what |
| HW5 | `s2fs.c`, a file system with one file | failure at each step of a mount, offset and count of a read |
| HW1 | `server.c`, `client.c`, one message each way | clients left in the queue when the server returns, results nobody looks at |
| HW1 | a patch with a system call | not modelled, see below |

## Components

### s2dsm P2: the protocol (`S2dsm`, `S2dsmTurns`, `S2dsmPieces`, `SharedMemory`)

*State.* Per process: the private mapping (each page a text, or not resident),
`msi_array`, two connections, and the program counters of three threads: `main`
(command loop), `server_thread`, `fault_handler_thread`.

*Interaction.* `main` touches a page; if it is not resident it sleeps and the
handler gets a message. If `msi_array` says INVALID the handler sends `F` to the
peer's server, reads `'0'`, or `'1'` and the page, and installs what it has with
`UFFDIO_COPY`. After a write `main` marks the page MODIFIED and sends `I` on the
same connection; the peer's server drops the page and marks it INVALID. Nothing
acknowledges an `I`, no reply names its page, `msi_array` has no lock.

*Correctness.* Whoever sleeps is woken, once; a reply is taken for the request
it answers; no deadlock among servers and handlers; the end of one process, at
whatever moment, ends the other; and, if the users take turns on a page, both
processes show one memory, although no access to a page is atomic.

### The startup of the three s2dsm programs (`Handshake`, `S2dsmStartup`)

*State.* The roles, `first_process`, both sockets, the mapping and its length.
Each process runs a thread that accepts and reads a pid while `main` connects
(retrying) and writes its own pid. The smaller pid is first: it maps a region,
whose size the user gives, and writes address and length; the second reads them
with another thread. Then P1b returns, P1c registers its region and uses the
connections no more, and in P2 the same connections carry requests.

*Correctness.* The processes decide on different roles; each reader gets the
structure it expects although nothing on the connection says which one it is;
both map the same region; both get to their command loop or return; a process
that still reads the connection does not outlive its peer.

### s2dsm P1c (`LocalRegion`)

P1c has no protocol yet: each process reads and writes its own region, whose
pages the fault handler fills with zeros. It is the smallest program with a
command loop, a fault handler and pages, and implements the same
`SharedMemory` with one process.

### The userfaultfd demonstration (`Uffd`)

Eight loops over the region, of which 1, 3 and 5 fault; loops 5 and 7 write.

### perftop (`Scheduler`, `PerfCounters`, `Perftop`)

*State.* P1 has three counters, each with a lock. P2 adds a hash table (pid ->
start and node) and a red-black tree of totals, under one lock, and a
`/proc` reader under the same lock. `Scheduler` is what the modules are attached
to: CPUs that call `pick_next_task_fair`, and the instances of a return probe.

*Correctness.* No increment is lost; the entry and return counts differ by the
calls in progress; table and tree describe the same tasks; a reader sees one
moment; a total is the time its task has run.

### kds (`Kds`)

*State.* The position of the parser, the array of numbers, the structure being
filled (`store`, or `table` with its buckets for the hash table), what was
printed, and the heap. One pass over the parameter, then six functions of the
same shape: allocate and insert, print, free.

*Correctness.* The numbers are those of the text, as far as an `int` holds them;
each function prints what its structure implies, whatever failed before it; a
function that ends frees what it allocated, which the code does not (see
`kds_leak`), but for numbers that share a bucket or a key with another.

### HW1's socket pair (`SocketPair`)

*State.* The server's queue of connections, the one it has accepted, what is
unread on each connection, where each program is. The server accepts one client,
waits for a key, reads, prints, answers and returns; a client connects once, waits
for a key, sends, reads, prints and returns. *Correctness.* The accepted client,
and it alone, prints the answer; nobody waits for ever, whoever is killed or fails.

### s2fs (`S2fs`)

*State.* The references of each inode and dentry, the phase of the mount, and
per reader the offset. *Correctness.* A mount that fails, at whichever
allocation, or an unmount, leaves nothing; a reader comes to its end having got
as many bytes as the message has.

## Modules

| Module | Role |
|---|---|
| `SharedMemory` | abstract: a memory whose users ask for writes and see current texts |
| `S2dsm` | the protocol, users unrestricted |
| `S2dsmTurns` | extends it with the users' discipline, the coherence properties and the refinement of `SharedMemory` |
| `S2dsmPieces` | extends that with accesses that go through a page piece by piece, and shows that they implement `S2dsmTurns` |
| `S2dsmProofs` | theorems about `S2dsm` and `S2dsmTurns` |
| `S2dsmPiecesProofs` | that `S2dsmPieces` implements `S2dsmTurns`, from the theorems of `S2dsmProofs` under the mapping |
| `Handshake` | sockets, pids and roles of two processes |
| `S2dsmStartup` | extends it with the rest of the startup of P1b, P1c and P2: mapping, registration and first requests |
| `LocalRegion` | P1c |
| `Uffd` | the demonstration |
| `Scheduler` | CPUs, tasks and the return probe (external, see below) |
| `PerfCounters`, `Perftop` | extend it with the handlers of P1 and P2 |
| `Kds`, `S2fs`, `SocketPair` | HW2, HW5, HW1 |
| `HomeworkProofs` | theorems about the three small programs `Kds`, `S2fs` and `SocketPair`; extends all three, which is why `Kds` and `SocketPair` have no names in common with `S2fs` |
| other `*Proofs` | the theorems about a component; each extends its module |
| `MC*` | constants and symmetry of the instances |

Every action carries the name of what it models in the code or a comment that
says so; `PROJECT.json` maps every definition to its lines. Definitions called
"Faulty variant of X" are not used by any specification: each changes one
definition the way a slip in the code would, to see that the properties notice.

### What the models abstract

* **Pages.** In `S2dsm` a page is one value and an access to it, once it is
  resident, one step; touching a page that is not resident is a step of its own,
  and a page may be dropped between the fault and the access. `S2dsmPieces`
  takes this back: `strncpy` to and from a page, `printf` from it and the copy
  that `write` makes of it go piece by piece, and the page may be stored into,
  sent or dropped between two pieces (a dropped page faults again in the middle
  of the access). A page on the connection is one element: `write` puts it there
  when it has copied all of it, and `read` returns it whole, as the loopback
  connection does; a short read of a page is left out.
* **Ends of a process.** A process may end at any moment (`Exit`, `Killed`,
  `KillServer`, `KillClient`): killed, interrupted, at the end of its input, by
  SIGPIPE. All its threads stop where they are; what it has written stays to be
  read, what it has not read is lost. Nothing here restarts.
* **Dead variables.** `request.which_page`, `page_faulted` and the staging page
  go back to a fixed value when nobody will read them again. The `memset` of the
  staging page, which stands at the start of a fault, is taken at the end of the
  previous one.
* **Connections** are queues. `SockCap` bounds unread requests: a full connection
  blocks, as `write` does. After the peer is gone a write may reach nobody, or end
  the process (SIGPIPE, one of the ways to be killed); a read returns the end or
  an error.
* **Uninitialised reads** (`response`, the pid buffer, the second process's
  structure, the table of perftop) are choices over what they may hold.
* **The programs of a pair** in `S2dsmStartup` are two P1b, two P1c or two P2;
  `prog` is chosen once. A definition that the three programs share is mapped to
  the lines of one of them.
* **The listening sockets** use SO_REUSEPORT as the code does: two processes may
  be given one port.
* **perftop.** Unloading waits for handlers in progress and not for probed calls:
  those return without their handler (`Drain`). An increment is a load and a store in `PerfCounters`; `Perftop`
  leaves the same counters out. A task is its pid, and so stands for all tasks
  that have it one after the other. Nobody reads a proc entry that was left
  behind by a refused module. The tree is the sequence of its nodes and the
  table a function: rotations and buckets are the kernel's; inserting finds the
  position after all totals that are not greater, erasing the position of the
  task's node. The time-stamp
  counter is the same on all CPUs. Symmetry of CPUs and of tasks is sound there:
  no definition names one, and these runs check no liveness.
* **kds.** A loop that neither allocates nor returns early is one step, since
  nothing else sees its structure. An entry is a number and, for its address, the
  function that allocated it with the position of the number. A bucket is a
  sequence, newest first; the tree the sequence of its nodes from left to right,
  where a descent that goes right unless the node is greater ends after all
  numbers that are not greater. `hash_min` is the remainder by the number of
  buckets: which numbers collide is all that matters here. `printed` records each
  loop's lines in order; for the hash table they are kept bucket by bucket.
  `kstrtol` takes a sign in front of the digits and a newline behind them and fails
  for a number that is no `long` (`Accepted`); what it returns is cut to an `int`
  (`CutToInt`); both widths are constants, and so is the number of bits of the
  bitmap's words, which is more than `MAX_BITS` (1024, 1001). `Shortages` counts
  every allocation that fails: those of `kmalloc`, checked or not, the nodes of the
  radix tree and the xarray, and a hash table whose memory was not zero. Looking
  up a number that found no node follows a null pointer and ends the insertion of
  the module (`oops`); so may a bit set outside of the bitmap, or it goes unnoticed.
* **External definitions** (marked so in the map): the scheduler and kretprobe,
  userfaultfd's faults and what the VFS does around a read. They say what the
  code relies on, not how Linux is built.

## Runs

| Run | Bounds | What it shows |
|---|---|---|
| `dsm_free` | 1 page, 1 unread request (the theorems cover every number), users type at any moment | `FetchMatches`, `FaultsAccounted` whatever users do and whoever exits |
| `dsm_turns` | 2 pages, one text, 2 unread requests | the invariants of the protocol, the refinement of one memory, commands that complete and ends that propagate, with commands on all pages running against commands on one |
| `dsm_pieces` | 1 page of 3 pieces, three texts (one of them empty) that share pieces, 1 unread request | that accesses in pieces implement whole accesses, and one memory when texts replace each other |
| `startup` | pairs of P1b, P1c and P2; 3 ports in every assignment to two processes; 8 page counts with 5-bit integers; 2 requests | the six startup properties, with either process killed at any moment; four of the page counts wrap: to a negative, a zero and twice a small size |
| `local_region` | 3 pages, 2 texts | refinement of `SharedMemory`, commands complete |
| `uffd` | 0 to 5 pages of 2 steps, 3 letters, ints to 8 | letters, faults per page, exit; with 5 pages the loop variable overflows |
| `perf_counters` | 3 CPUs, 3 tasks and a kernel thread, 2 probe instances, 3 calls | counts balanced when calls overlap, are missed, or straddle unloading |
| `perftop` | 2 CPUs, 2 tasks and a kernel thread, 2 ticks | table and tree agree, the reader's snapshot, exact totals of tasks with no missed switch |
| `perftop_kthread` | 1 CPU, 2 tasks and a kernel thread | **violation**: a total greater than the time its task has run |
| `kds` | every parameter of up to 4 characters over three digits, space, both signs, newline and a letter; two or three words of six, negative ones, equal ones and ones that an `int` does not hold among them; four-number parameters; arrays of 3; 6-bit ints, 7-bit longs, a bitmap of 12 in 16 bits; one failing allocation | parse, output, and what the functions that end have freed |
| `kds_leak` | those of `kds` | **violation**: a function that returned success has left entries allocated |
| `small_programs` | `SocketPair` and `S2fs` side by side: 3 clients, a queue of 1; 1 reader, a message of 3 bytes, counts to 4, one failing allocation | who gets the answer, and that all programs end, with any of them killed and the server failing; references, sizes, the end of the file |

*Why the bounds are enough.* Two pages are the fewest for which commands on all
pages interleave with others. The text that is read back must differ from what
it replaces, which needs one text other than zeros (`dsm_turns`) or texts that
replace each other (`dsm_pieces`). No access spans two pages, so one page shows
what becomes of an access that is cut; three pieces give it a beginning, a
middle and an end, and the texts share pieces with each other and with the empty
one, so that a mixture of two may be a third. Three clients are one that is
accepted, one in the queue and one that waits for a place in it (the code's queue
is longer). After an allocation has failed a mount is over or goes on to
`mounted`, so that one failure at each place shows all there is. The two programs of
`small_programs` share nothing: the run checks each as it would be alone, while
the other takes its steps in between. In `startup`, three ports give every pattern of equal and
crossed ports. In `perftop` a third fair task is what lets a CPU record a switch
while the other CPU's task reads `/proc/perftop`. In `kds` two buckets and three
digits give equal numbers, colliding ones and others; arrays of three overflow
at four; three digits, or two, give numbers that are no `long` (100), no `int`
(33), in the bitmap's last word behind its last bit (13) and outside of it (30, -3). `MaxCalls`, `MaxTsc`, `MaxTotal`, `MaxRequests`, `MaxGot`, `Failures` and `Shortages`
are bounds on counters; they stop new events and change none.

*Deadlock* is not checked where a program may end or a user may stop typing; the
liveness properties are what says that nothing else stops.

### What the properties say

* `FetchMatches`: while both processes live, at most one fetch of a process is on
  its way, it is for the page the handler waits for, and the connection holds
  nothing the handler is not waiting for. So untagged replies are safe.
* `FaultsAccounted`: the handler never installs over a resident page (the call
  would fail and end the process) and whoever sleeps is queued or being served,
  although the server drops pages meanwhile.
* `MsiAgreement`, `CopiesAgree`, `ResidencyAgrees`, `MemorySpec`, `WholePages`,
  `OneMemory` hold under `TurnsSpec` and `PiecesSpec`: a command starts on a page
  when the peer's commands, requests and server are done with that page. The
  assignment lets the program assume that users do not write at the same time.
  Without it the code makes no promise: two simultaneous writers each drop the
  other's page, and both texts are lost; and an invalidation may overtake a page
  that the handler is about to install.
* `MsiAgreement`: the entries of a page nobody works on agree, and two MODIFIED
  entries only mean that a server has just sent the page. `ResidencyAgrees`: an
  INVALID page is not resident, so no stale text is read without a fault; a page
  that a server sends is, so no server sleeps in a fault (two could otherwise
  wait for each other).
* `WholePages` maps the store that `main` has begun to a store that is done, which
  makes every other piece a stutter: it fails as soon as anybody sees, sends or
  prints a page of which only a part is stored, or a dropped page loses a part.
* `MemorySpec` maps the store to the owner's copy (MODIFIED, or stored and about
  to be), otherwise to any valid copy, otherwise zeros, and the user's requested
  and unperformed writes to `todo`. A text changes only by such a write, and each
  line printed by either process is the current text.
* `RolesDiffer`, `FramesMatch`, `SameRegion`, `PairUp`, `OrphanEnds`: the startup
  as described above, for processes started on each other's ports where that
  matters. `SameRegion` has one exception: in P1b a second process whose peer was
  killed takes what the stack holds for the description of a region. `OrphanEnds`
  says of each program, once its role is decided, what its code looks at: P2 ends
  from wherever it is when its peer is killed, the command loop included, P1c
  looks at the connection only until the region is mapped, and P1b returns in
  any case.
* `CountsBalanced`: entries minus returns are the calls in progress, whichever
  calls the probe missed.
* `NodesMatch`, `Snapshot`, `TotalIsTime`: see Components. `TotalIsTime` uses two
  history variables: `ran`, the time since a task has a node, and `missed`, the
  tasks that came or went without the handlers recording it.
* `Answered`: the accepted client prints the answer unless it was killed, or the
  server was killed or failed in `accept` or `read`, after the server has read; no other does. `AllEnd`: no read and no
  connect waits for ever.
* `KdsTypeOK` says of `kds` also that nothing freed is still linked. `Parsed`: the
  two pointers find the words of the parameter, defined as the longest runs
  without a space, and the n-th number is the `int` that the n-th word is cut to;
  a parameter is refused only for a word that is no number or no `long`, or for
  one word too many.
* `Printed`: what each function that ended has printed, in terms of the numbers
  alone, repetitions included, also after an earlier function or insertion
  failed; and that nothing stops the kernel but a failed allocation or a number
  outside the words of the bitmap.
* `OthersFreed`: the array of numbers is freed, unless a word was refused, and then
  it is all that is left; a function that ended has freed the table and every
  entry that shares neither bucket nor key with another. `EntriesFreed`, which
  fails, is what the comments of the code say: every entry.
* `Released`, `MessageSize`, `ReadsEnd`: as above.

### Fairness

Weak fairness of each thread's steps in the dsm and startup runs: threads are
scheduled by the kernel, which does not starve one that can run, and a thread
blocked in `read`, `write`, `poll` or a fault can run when its condition holds. No
fairness on users' commands or on being killed. `startup` also assumes that
the two programs are started and that the first user answers how many pages, and
`small_programs` that the server and all clients are started and their users press a key.
`uffd`, `local_region` and the file system are sequential up to their handler; a reader is
fair only in that an open file that is being read is read on.

## Where the code and its texts differ

`perftop_kthread` finds one: the entry handler returns early for kernel threads
(and for the idle task), so that the task picked after one has nobody to set its
start; when it leaves the CPU the time since an older start is added, in which
other tasks ran (`perftop.c:96`; the comment at 50-51 says time spent on a CPU).

`kds_leak` finds the other: `hash_for_each` takes the next entry of a bucket from
the link that `hash_del`, in its body, has just cleared, so that of the entries of
a bucket one is freed (`kds.c:202`; the comment at 201 says "Then we free and delete
each entry"). The same run shows that the indexes keep an entry of each repetition:
233 ignores that the radix tree refuses a repeated number, 297 the entry that
`xa_store` replaces, where 267 and 323 say that the data is freed.

Others met while modelling, all of which the models contain:

* `s2dsm_P2.c:333` compares two pointers where it means ports; equal ports are
  accepted, and the process connects to itself.
* `s2dsm_P2.c:390` multiplies two `int`s before widening: the region may be
  smaller than the pages asked for. `SameRegion` shows what still holds: the
  processes map the same region and each page of it has an entry in `msi_array`.
* `s2dsm_P1b.c:101` puts the comparison into `bytes_read`, so that an end of the
  connection is taken for a structure (P2 tests for it).
* `uffd.c:232` walks an `unsigned long` length with an `int`.
* `HW4P2/perftop.c:192` drops the first slice of a task that was first seen when
  it was switched in; line 276 allocates the hash table and never initialises it.
* `kds.c:403` stores a `long` in an `int`: 4294967297 is printed, and inserted, as 1.
* `kds.c:340` sets the bit of any number: 1001 to 1023 are in the bitmap's last word,
  set and never printed; greater and negative numbers are bits of other memory.
* `kds.c:242` and 305 test `% 2 == 1`, which no negative number satisfies: "If the
  number is odd tag it" (241) holds of the positive ones.
* `kds.c:365` does not check `nums`, 171 the table, 233 and 297 do not check their
  insertion; the null pointers are followed at 403, 185, 244 and 308.
* `s2fs.c:86` copies from the start of the message whatever the offset, so that a
  program that reads in small pieces never sees its end.

## Proofs

`tlapm` checks all obligations with SMT, Zenon and, for temporal steps, PTL.
Every theorem holds for all values of the constants that satisfy the named
assumptions of its module; nothing else is assumed. Each safety theorem rests on
an inductive invariant that TLC checked on the instances above before it was
proved.

### The protocol: `S2dsmProofs` (any number of pages, texts and capacity)

Part 1, users unrestricted:

* `TypeCorrect`: `Spec => []TypeOK`.
* `FaultsSafe`: `Spec => []FaultsAccounted`, inductive together with `TypeOK`. The
  step that matters is `Drop`: the server may drop a page while main sleeps on it,
  which keeps the page absent, and `Copy` wakes everyone who sleeps on it.
* `FetchesMatched`: `Spec => []FetchMatches`, inductive together with `TypeOK`. The
  proof follows one fetch: sending makes it unique since the handler was not
  waiting; the server's two writes keep the reply a prefix of what is awaited;
  the handler's reads consume it. While a process is dead nothing is claimed of
  it, and a process never comes back (`AliveShrinks`).

Part 2, users who take turns: `EntriesAgree` (`MsiAgreement`), `CopiesSame`
(`CopiesAgree`) and `HintsRight` (`ResidencyAgrees`), all from one invariant,
`Coherent`. None of the three is inductive: while an operation is handled the
entries of a page may be M and M, S and I or M and S, and each such pair is right only
because of a message, a reply or a program counter. `Coherent` says, for one page
and one process:

* `Exclusive`: one user's work on the page (command, request on its way, the peer's
  server on it) at a time: what the discipline gives.
* `EntryFits`, `HandlerFits`: how the entry, the page table and the handler go together.
* `InvalidationFits`, `Owner`, `Partner`: who else may hold the page while an entry
  is MODIFIED or SHARED, and which invalidation or reply will correct the other one.
* `AskFits`, `ShareFits`, `AnswerFits`: a page that is fetched is not shared
  meanwhile, and what an unread answer says of the peer's page is still so. This
  is what makes a reply usable that was written before other steps of its sender.
* `TextFits`: two SHARED copies have one text, counting the staging page.

Of all variables only a view of page x matters to what is said about x; lemmas
say which steps leave the view of a page alone, so that each action is
considered for the one page it is about.

Part 3, `MemoryImplemented`: `TurnsSpec => MemorySpec`. `OneSource` gets from
`Coherent` that a page has one owner or equal copies, so that `Current` is the text of
whichever copy one looks at. `Store` is `Write`, `Load` and `Echo` are `Output`
of the current text, `Start` is `Ask`, the end of a process is the end of the
memory; every other step, fetches and invalidations included, keeps `Current` of
each page (`TextOfServer`, `TextOfHandler`) and is a stutter.

### Accesses by pieces: `S2dsmPiecesProofs` (any number of pages, pieces and texts)

`PagesWhole` (`PiecesSpec => WholePages`): with the accesses of `strncpy`, `printf` and
`write` cut into pieces the program implements `S2dsmTurns`, where each is one
step, also while a process ends. `PiecesImplemented` (`PiecesSpec => OneMemory`)
follows with `MemoryImplemented`.

The mapping changes main's program counter and its mapping: a store counts as done
from its first piece on. The invariant `IInv` has two halves.

* `Parts`: a thread in the middle of an access finds its page where it was, and the
  pieces it has gone through are those of one text. Kept by the steps of all other
  threads only because the discipline excludes those that would store into the
  page or drop it.
* `TurnsInv` of `S2dsmProofs` **as it looks under the mapping** (`W` instantiates
  that module with the mapping): `Base`, `Coherent` and, for both processes, `Undisturbed`,
  that a command has its pages to itself. `Undisturbed` follows from `Coherent`
  while both live; it is an invariant of its own since a survivor still goes
  through pages that `Coherent` says nothing of. That each step keeps `TurnsInv` is not
  proved again: a step of the pieces is a step or a stutter of the mapped
  specification (`PiecesStep`), and `TurnsInvNext` does the rest.

So `PiecesStep` may use at each step what is known of the mapped state, for
example that nobody sends or drops a page main is storing into, which is the reason
that a first piece already counts as the whole. Assumed: pages hold texts made of
pieces, and "not resident" is none of them.

### The startup: `S2dsmStartupProofs` (any ports, answers, page size, width of int)

`TypeCorrect`, `OneFirst` (`RolesDiffer`), `FramesFound` (`FramesMatch`) and `RegionShared`
(`SameRegion`). `IInv` ties each program counter to the connections that exist
(`Places`, `Links`), the role to the pids (`Roles`), and says of what a process
has written and nobody has read where its pid and its description are (`Early`,
`Kinds`, `Written`): the connection has no frames, so this is the only reason
that the right reader gets the right structure. `Taken` and `Same` carry the length from
one process to the other. Of the wrapping product it is proved that it stays a
multiple of the page size, which needs `IntMod % PageSize = 0`: both are
powers of two in the code (2^32 and 4096).

### P1c: `LocalRegionProofs` (any number of pages and texts)

* `TypeCorrect`, by `IInv == TypeOK /\ Control`. `Control` ties the program
  counters of main and the handler to each other and to the resident pages, and
  is needed because a page is installed for a thread that the type alone does not
  know to be asleep.
* `ImplementsMemory`: `Spec => LocalMemory`. Each action is mapped to a step of
  `SharedMemory` or to a stutter: `Store` to `Write`, the printing steps to `Output`,
  `Start` to `Ask`; installing a page of zeros leaves the abstract store alone.

### The demonstration: `UffdProofs` (any sizes, steps, letters, width of int)

`TypeCorrect`, `CommentsHold` (`LettersShown`), `FaultsCounted`
(`FaultOncePerPage`). `Walk(k)` says that the resident pages are the first k and
main is not beyond them, also when the `int` has wrapped; `Turn(k)` counts the
faults and gives the letter of the next page if it has not; `Bytes` and `Printed`
relate the region and the output to what the comments announce.

### perftop: `PerfCountersProofs`, `PerftopProofs` (any finite set of CPUs, any tasks)

* `TypeCorrect` and `NoneLost` (`CountsBalanced`). `Locks` says that the CPU
  between load and store is the one that holds the lock and that its register is
  still right; `Balanced` counts the CPUs at each place of a call, switches
  included; `Gone` and `Fit` are needed for unloading and for the bound on calls.
* `TypeCorrect`, `StructuresAgree` (`NodesMatch`), `OneMoment` (`Snapshot`),
  `TotalsRight` (`TotalIsTime`). The tree is ordered with one node a task
  (`TreeType`), the entries with a node are those of the nodes (`Entries`), a
  reader has printed the end of the tree (`Reading`). `AllTimed` is the property for every
  node, running or not, and needs `Apart`: no task runs, or is about to
  run, on two CPUs.

  Assumed of the environment: the CPUs are finitely many, and the names of
  nobody and of other tasks are the names of no task and no CPU.

### The small programs: `HomeworkProofs`

*HW1* (any clients and length of the queue): `AnswersDelivered` (`Answered`).
`Connected` says that a client on a connection that has ended while the server
runs was killed; `Delivered`, that a server that was not killed has left its answer or
seen it printed.

*HW2* (any parameters, widths, number of buckets, capacities, and number of failing
allocations): `KdsTyped` (`KdsTypeOK`), `WordsParsed` (`Parsed`), `NumbersPrinted`
(`Printed`) and `RestFreed` (`OthersFreed`), all from one invariant, `KdsInv`.

* `Scanning`: between the two pointers there is no space and before them there is
  one, and what has been read is exactly the words that end before the slow one.
  `ReadNext` shows that passing a space or the end adds one word, or none if the
  pointers are together, and `PlaceRead` that it is the next in order.
* `Stored`: every entry is that of a number passed, and allocated. Then for each
  structure what it holds while it is being filled: `Listed`, the list is the numbers
  backwards; `Sorted`, the tree is ordered and has each number passed once; `Hashed`,
  each is once in its own bucket, the later in front; `Indexed`, every number is
  found, if no allocation has failed.
* `Ranked`: functions run in their order and once, so that what one of them has
  freed stays freed: this makes `OthersFreed` and `Printed` inductive with the rest.

`SameCount` counts: entries of distinct numbers with a key are as many as the
numbers with that key, by a bijection (`FS_Bijection`), so that a tree or a bucket
prints each as often as it was given. `HashFrees` and `IndexFrees` show that a number
which is alone in its bucket, or has no equal, is the entry that is freed.
`NumberIsInt` shows that what is cut to an `int` is one.

*HW5* (any readers, message, number of failing allocations): `TypeCorrect`,
`NothingLeft` (`Released`), `WholeMessage` (`MessageSize`). `Tree` gives the references each
step of the mount holds, `Reading` ties bytes to offset.

### Only model-checked

* Liveness (`CommandsComplete`, `ExitPropagates`, `PairUp`, `OrphanEnds`, `AllEnd` and
  the others): fairness and ENABLED are out of the prover's reach.
* The two properties that fail (`perftop_kthread`, `kds_leak`), counterexamples.

Every invariant and every refinement that a passing run checks is also a theorem.
Two definitions are taken as they are in both: `Decimal`, which says what `kstrtol`
computes, and `Ascending`, which sorts by the community modules' definition; that
they are what their names say would be an induction over digits and numbers.

## Not modelled

* HW1's patches change a kernel that is not here and add one function without
  state; `test_syscall.c` parses its options and calls it once.
* Short reads of a page (see above): the code does not handle one, and the
  connection of these programs does not cut a page.
* A reader of a proc entry whose module was refused, and what Linux does after a
  CPU has died with a lock held: nothing is promised there.
* The directories `112829937` (the same programs as handed in), Makefiles, the
  assignment texts.

## Plan

Done: models of all programs, and the safety of each for all constants: the dsm
core with processes killed at any moment, its coherence, its implementation of one
memory with accesses whole and by pieces, the startup, P1c, the demonstration, both
versions of perftop, the kernel data structures, the file system and the socket pair.

Left:

1. A short read of a page (`s2dsm_P2.c:179`) as a step of `S2dsm`: what the next reply
   is then taken for.
2. The two failures of `perftop.c` that its code does not handle: `kmalloc` in the
   handler (163), and `register_kretprobe` after `proc_create` (289).
3. Liveness by hand-written leads-to proofs, once ENABLED can be reasoned about.
