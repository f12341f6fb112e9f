---------------------------- MODULE S2dsmStartup ----------------------------
(***************************************************************************)
(* The start of the three programs of HW3, s2dsm_P1b.c, s2dsm_P1c.c and    *)
(* s2dsm_P2.c, run in pairs: after the handshake the first process asks    *)
(* its user for a number of pages, maps the region and sends its address   *)
(* and length; the second process maps the same length.  Then              *)
(*   P1b  returns from main;                                               *)
(*   P1c  registers the region with userfaultfd and goes on alone, as in   *)
(*        LocalRegion;                                                     *)
(*   P2   registers it, starts its server and goes on as in S2dsm.         *)
(***************************************************************************)
EXTENDS Handshake

CONSTANTS
  Programs,   \* the programs a pair may run
  PageSize,   \* bytes per page
  IntMod,     \* 2^w for the width w of int
  Answers,    \* what the user may answer to "How many pages ..."
  MaxRequests \* bound: requests of a process in flight

\* Both sizes are powers of two, and a page is not larger than an int counts.
ASSUME StartupAssumption ==
  /\ Programs \subseteq {"P1b", "P1c", "P2"}
  /\ PageSize \in Nat \ {0} /\ IntMod \in Nat \ {0} /\ MaxRequests \in Nat
  /\ IntMod % PageSize = 0
  /\ Answers \subseteq Int

VARIABLES
  prog,      \* the program both processes run
  asked,     \* asked[p]: pages, the number read from the user (0 before)
  len,       \* len[p]: bytes mapped, 0 before mmap
  entries    \* entries[p]: length of msi_array (P2)

startVars == <<prog, asked, len, entries>>
vars == <<hsVars, startVars>>

Init ==
  /\ HandshakeInit
  /\ prog \in Programs
  /\ asked = [p \in Proc |-> 0]
  /\ len = [p \in Proc |-> 0]
  /\ entries = [p \in Proc |-> 0]

\* page_size * pages, in int arithmetic that wraps.
Wrap(n) == LET r == n % IntMod IN IF 2 * r >= IntMod THEN r - IntMod ELSE r
Bytes(n) == Wrap(PageSize * n)

\* The listen/send check before the handshake (P1b has none) compares two
\* pointers returned by malloc, which always differ: it rejects nothing.
PortCheck(p) == TRUE

Start(p) == PortCheck(p) /\ Launch(p) /\ UNCHANGED startVars

\* P2 makes an entry per page.  malloc of a negative count returns NULL, and
\* the loop that fills the entries ends the process.
MakeEntries(p, n) ==
  entries' = [entries EXCEPT ![p] = IF prog = "P2" THEN n ELSE 0]

\* Faulty variant of MapFirst: the result of mmap is not checked.
MapFirstUnchecked(p, n) ==
  /\ Joined(p)
  /\ first[p] = 1
  /\ asked' = [asked EXCEPT ![p] = n]
  /\ len' = [len EXCEPT ![p] = Bytes(n)]
  /\ MakeEntries(p, n)
  /\ mpc' = [mpc EXCEPT ![p] = "inform"]
  /\ UNCHANGED <<ports, hpc, conn, backlog, acc, stream, first, prog>>

\* The first process asks and maps; at the end of its input, or (P1b) when
\* the answer is no number, it goes on with whatever its buffer holds.  mmap
\* refuses a length that is not positive (a negative one is a huge unsigned
\* length).
MapFirst(p, n) ==
  /\ Joined(p)
  /\ first[p] = 1
  /\ Bytes(n) > 0
  /\ prog = "P2" => n > 0
  /\ asked' = [asked EXCEPT ![p] = n]
  /\ len' = [len EXCEPT ![p] = Bytes(n)]
  /\ MakeEntries(p, n)
  /\ mpc' = [mpc EXCEPT ![p] = "inform"]
  /\ UNCHANGED <<ports, hpc, conn, backlog, acc, stream, first, prog>>

\* ... and ends the process, as it may for want of memory.
MapFails(p) ==
  /\ Joined(p)
  /\ first[p] = 1
  /\ Die(p)
  /\ UNCHANGED <<ports, conn, backlog, acc, stream, first, startVars>>

AfterMap == IF prog = "P1b" THEN "return" ELSE "register"

\* Faulty variant of Inform: requests may overtake the description.
InformLate(p) ==
  /\ mpc[p] = "inform"
  /\ Write(p, [kind |-> "request", val |-> len[p]])
  /\ mpc' = [mpc EXCEPT ![p] = AfterMap]
  /\ UNCHANGED <<ports, hpc, conn, backlog, acc, first, startVars>>

\* Faulty variant of Inform: the number of pages is sent for the length.
InformPages(p) ==
  /\ mpc[p] = "inform"
  /\ Write(p, [kind |-> "info", val |-> asked[p]])
  /\ mpc' = [mpc EXCEPT ![p] = AfterMap]
  /\ UNCHANGED <<ports, hpc, conn, backlog, acc, first, startVars>>

\* The description of the region goes out before the region is registered
\* with userfaultfd and before the threads start.
Inform(p) ==
  /\ mpc[p] = "inform"
  /\ Write(p, [kind |-> "info", val |-> len[p]])
  /\ mpc' = [mpc EXCEPT ![p] = AfterMap]
  /\ UNCHANGED <<ports, hpc, conn, backlog, acc, first, startVars>>

\* The second process reads the description and maps the same length.
Receive(p) ==
  /\ prog # "P1b"
  /\ Joined(p)
  /\ first[p] = 0
  /\ HasData(p)
  /\ Consume(p)
  /\ len' = [len EXCEPT ![p] = Head(stream[acc[p]]).val]
  /\ MakeEntries(p, Head(stream[acc[p]]).val \div PageSize)
  /\ mpc' = [mpc EXCEPT ![p] = "register"]
  /\ UNCHANGED <<ports, hpc, conn, backlog, acc, first, prog, asked>>

\* "The connection was resetted by peer", or the region cannot be mapped.
ReceiveEnd(p) ==
  /\ prog # "P1b"
  /\ Joined(p)
  /\ first[p] = 0
  /\ AtEnd(p) \/ HasData(p)
  /\ Die(p)
  /\ UNCHANGED <<ports, conn, backlog, acc, stream, first, startVars>>

\* In P1b it checks nothing: neither the end of the connection, when it takes
\* what the stack holds for a description, nor the result of mmap.
ReceiveAnything(p) ==
  /\ prog = "P1b"
  /\ Joined(p)
  /\ first[p] = 0
  /\ \/ HasData(p) /\ Consume(p)
        /\ len' = [len EXCEPT ![p] = Head(stream[acc[p]]).val]
     \/ AtEnd(p) /\ UNCHANGED stream
        /\ \E garbage \in {Bytes(n) : n \in Answers} \cap Nat :
             len' = [len EXCEPT ![p] = garbage]
  /\ mpc' = [mpc EXCEPT ![p] = "return"]
  /\ UNCHANGED <<ports, hpc, conn, backlog, acc, first, prog, asked, entries>>

\* P1b: main joins the thread and returns.
Return(p) ==
  /\ mpc[p] = "return"
  /\ End(p, "returned")
  /\ UNCHANGED <<ports, conn, backlog, acc, stream, first, startVars>>

\* P1c: userfaultfd and the fault handler; then the prompt.  The connections
\* are not used again.
Separate(p) ==
  /\ prog = "P1c"
  /\ mpc[p] = "register"
  /\ mpc' = [mpc EXCEPT ![p] = "alone"]
  /\ UNCHANGED <<ports, hpc, conn, backlog, acc, stream, first, startVars>>

\* P2: userfaultfd, the fault handler and the server thread; then the prompt.
Register(p) ==
  /\ prog = "P2"
  /\ mpc[p] = "register"
  /\ mpc' = [mpc EXCEPT ![p] = "loop"]
  /\ UNCHANGED <<ports, hpc, conn, backlog, acc, stream, first, startVars>>

\* A running process sends requests on the same connection ...
SendRequest(p) ==
  /\ mpc[p] = "loop"
  /\ Len(stream[p]) < MaxRequests
  /\ Write(p, [kind |-> "request", val |-> 0])
  /\ UNCHANGED <<ports, mpc, hpc, conn, backlog, acc, first, startVars>>

\* ... and its server reads the peer's, until the connection ends.
ServeRequest(p) ==
  /\ mpc[p] = "loop"
  /\ HasData(p)
  /\ Consume(p)
  /\ UNCHANGED <<ports, mpc, hpc, conn, backlog, acc, first, startVars>>

\* Faulty variant of ServerEnd: the server only stops reading.
ServerEndIgnored(p) ==
  /\ mpc[p] = "loop"
  /\ AtEnd(p)
  /\ UNCHANGED vars

ServerEnd(p) ==
  /\ mpc[p] = "loop"
  /\ AtEnd(p)
  /\ Die(p)
  /\ UNCHANGED <<ports, conn, backlog, acc, stream, first, startVars>>

Answer(p) == (\E n \in Answers : MapFirst(p, n)) \/ MapFails(p)

Step(p) ==
  \/ HandshakeStep(p) /\ UNCHANGED startVars
  \/ Inform(p) \/ Receive(p) \/ ReceiveEnd(p) \/ ReceiveAnything(p)
  \/ Return(p) \/ Separate(p) \/ Register(p)
  \/ ServeRequest(p) \/ ServerEnd(p)

Next ==
  \E p \in Proc :
    \/ Start(p)
    \/ BindFails(p) /\ UNCHANGED startVars
    \/ Answer(p)
    \/ Step(p)
    \/ SendRequest(p)
    \/ Killed(p) /\ UNCHANGED startVars

Spec == Init /\ [][Next]_vars

\* The threads run, both programs are started, and the user answers.
FairSpec ==
  Spec /\ \A p \in Proc : WF_vars(Start(p)) /\ WF_vars(Answer(p)) /\ WF_vars(Step(p))

-----------------------------------------------------------------------------
TypeOK ==
  /\ HandshakeTypeOK
  /\ mpc \in [Proc -> {"off", "connect", "pid", "join", "inform", "register",
                       "alone", "loop", "return", "returned", "dead"}]
  /\ prog \in Programs
  /\ asked \in [Proc -> Answers \cup {0}]
  /\ len \in [Proc -> 0 .. IntMod \div 2]
  /\ entries \in [Proc -> Nat]

\* Every reader of the unframed connection finds the structure it expects:
\* the handshake a pid, the second process the description of the region,
\* and a server nothing but requests, although the first process may be
\* running and sending requests before the second has read anything.
FramesMatch ==
  /\ PidFirst
  /\ \A p \in Proc : acc[p] # Nobody /\ HasData(p) =>
       /\ Joined(p) /\ first[p] = 0 => Head(stream[acc[p]]).kind = "info"
       /\ mpc[p] = "loop" => Head(stream[acc[p]]).kind = "request"

\* A second process that has mapped a region has mapped the length its peer
\* mapped, at least a page, even where page_size * pages wrapped; and in P2
\* no page number a command loop accepts (0 .. len/PageSize - 1) lies outside
\* either msi_array.  Only in P1b may it have read the end of a connection
\* whose peer was killed.
SameRegion ==
  \A p \in Proc :
    /\ first[p] = 0
    /\ mpc[p] \in {"register", "alone", "loop", "return", "returned"}
    /\ prog = "P1b" => mpc[1 - p] # "dead"
    => /\ len[0] = len[1]
       /\ len[p] >= PageSize
       /\ prog = "P2" => \A q \in Proc : len[q] \div PageSize \in 1 .. entries[q]

\* Two processes started on each other's ports both come to run their command
\* loop, or, in P1b, to return, unless one of them fails.
PairUp ==
  Crossed ~> \/ \A p \in Proc : mpc[p] \in {"alone", "loop", "returned"}
             \/ \E p \in Proc : mpc[p] = "dead"

\* A process whose role is decided ends when its peer is killed, wherever it
\* has got to: in P1b any, in P2 one that waits for a region its peer cannot
\* map any more, one that asks, maps, informs or registers, and one that runs
\* its command loop; in P1c only a second process that waits for the region,
\* since nobody looks at the connection after that.  (A process that is still
\* connecting may retry for ever.)
OrphanEnds ==
  \A p \in Proc :
    /\ Crossed
    /\ mpc[1 - p] = "dead" /\ hpc[p] = "done" /\ mpc[p] # "connect"
    /\ prog = "P1c" => Joined(p) /\ first[p] = 0 /\ AtEnd(p)
    ~> Ended(p)
=============================================================================
