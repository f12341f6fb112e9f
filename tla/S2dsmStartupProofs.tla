------------------------- MODULE S2dsmStartupProofs -------------------------
(***************************************************************************)
(* S2dsmStartup for all ports, answers, page sizes and widths of int: the  *)
(* two processes get different roles, every reader of the unframed         *)
(* connection finds the structure it expects, and a region that was        *)
(* received is the one that was sent.                                      *)
(***************************************************************************)
EXTENDS S2dsmStartup, SequenceTheorems, TLAPS

USE DEF Proc, Nobody, Undecided

-----------------------------------------------------------------------------
(* The length of a region                                                  *)

\* A product of page size and page count stays a multiple of the page size
\* when it wraps.
LEMMA WrapMultiple ==
  ASSUME NEW n \in Int
  PROVE  \E j \in Int : (PageSize * n) % IntMod = PageSize * j
<1>1. IntMod = PageSize * (IntMod \div PageSize) /\ IntMod \div PageSize \in Int
  BY StartupAssumption
<1>2. PICK k \in Int : IntMod = PageSize * k
  BY <1>1
<1> DEFINE d == (PageSize * n) \div IntMod
           r == (PageSize * n) % IntMod
<1>3. PageSize * n = IntMod * d + r /\ d \in Int /\ r \in Int
  BY StartupAssumption
<1> HIDE DEF d, r
<1>4. r = PageSize * (n - k * d)
  BY <1>2, <1>3, StartupAssumption
<1> QED
  BY <1>3, <1>4 DEF r

\* A multiple of the page size is as many pages.
LEMMA Pages ==
  ASSUME NEW j \in Int, NEW n \in Int, 0 < PageSize * j, PageSize * j <= PageSize * n
  PROVE  /\ PageSize * j >= PageSize
         /\ (PageSize * j) \div PageSize \in 1 .. n
<1>1. j >= 1 /\ j <= n
  BY StartupAssumption
<1>2. (PageSize * j) \div PageSize = j
  BY StartupAssumption
<1> QED
  BY <1>1, <1>2, StartupAssumption

\* A length that mmap accepts is an int, is at least a page, and is no more
\* pages than were asked for.
LEMMA BytesBounds ==
  ASSUME NEW n \in Int, Bytes(n) > 0
  PROVE  /\ Bytes(n) \in 1 .. IntMod \div 2
         /\ Bytes(n) >= PageSize
         /\ n > 0 => Bytes(n) \div PageSize \in 1 .. n
<1> DEFINE r == (PageSize * n) % IntMod
<1>1. r \in 0 .. IntMod - 1
  BY StartupAssumption
<1>2. Bytes(n) = r /\ 2 * r < IntMod
  BY <1>1, StartupAssumption DEF Bytes, Wrap
<1>3. PICK j \in Int : r = PageSize * j
  BY WrapMultiple
<1>4. n > 0 => r <= PageSize * n
  BY StartupAssumption
<1>5. j >= 1
  BY <1>1, <1>2, <1>3, StartupAssumption
<1> HIDE DEF r
<1>6. r >= PageSize
  BY <1>3, <1>5, StartupAssumption
<1>7. n > 0 => r \div PageSize \in 1 .. n
  BY <1>2, <1>3, <1>4, Pages
<1> QED
  BY <1>1, <1>2, <1>6, <1>7, StartupAssumption

-----------------------------------------------------------------------------
(* The invariant                                                           *)

\* Where main is once the region is mapped and described.
After == {"register", "alone", "loop", "return", "returned"}

\* The reader of w's connection has not decided its role: w's pid is unread.
PidDue(w) == \A q \in Proc : acc[q] = w => first[q] = Undecided

\* The reader of w's connection has taken the description of the region.
InfoTaken(w) == \E q \in Proc : acc[q] = w /\ first[q] = 0 /\ mpc[q] \in After

\* Where the description is among what w has written and nobody has read.
InfoAt(w) == IF PidDue(w) THEN 2 ELSE 1

\* p has mapped a page at least, and in P2 has an entry for every page.
Mapped(p) == len[p] >= PageSize /\ (prog = "P2" => len[p] \div PageSize \in 1 .. entries[p])

\* What main has done tells where the handshake thread is, which connections
\* there are, and whether the role is known.
Places(p) ==
  /\ hpc[p] = "off" <=> ~Alive(p)
  /\ mpc[p] = "off" => acc[p] = Nobody /\ first[p] = Undecided
  /\ hpc[p] \in {"bind", "accept"} => acc[p] = Nobody
  /\ hpc[p] \in {"bind", "accept", "read"} => first[p] = Undecided
  /\ hpc[p] = "read" \/ first[p] # Undecided => acc[p] \in Proc
  /\ hpc[p] = "done" => first[p] # Undecided
  /\ mpc[p] \in After \cup {"inform"} => first[p] # Undecided /\ hpc[p] \in {"done", "off"}
  /\ mpc[p] = "inform" => first[p] = 1
  /\ mpc[p] \in {"off", "connect"} => conn[p] = Nobody
  /\ mpc[p] \notin {"off", "connect", "dead"} => conn[p] \in Proc
  /\ mpc[p] \in {"return", "returned"} => prog = "P1b"
  /\ mpc[p] = "loop" => prog = "P2"
  /\ first[p] = 1 /\ mpc[p] \in After \cup {"inform"} => Mapped(p)

\* A connection has one end at most that reads: the process it was made to.
Links(p) ==
  /\ \A q \in Proc : acc[q] = p => conn[p] = q
  /\ \A i \in 1 .. Len(backlog[p]) : conn[backlog[p][i]] = p
  /\ conn[p] \in Proc => mpc[conn[p]] # "off" /\ ports[conn[p]].listen = ports[p].send

\* The role of p follows from the pids, but for a p whose peer was killed
\* before it had sent its own.
Roles(p) ==
  first[p] # Undecided => \/ first[p] = 1 <=> p < acc[p]
                          \/ mpc[acc[p]] = "dead" /\ stream[acc[p]] = <<>>

\* Somebody may yet read what w has written.
Read(w) == conn[w] \in Proc /\ Alive(conn[w])

\* w writes nothing before its pid.
Early(w) == mpc[w] \in {"off", "connect", "pid"} => stream[w] = <<>> /\ PidDue(w)

\* Where a pid and a description can be in what is unread of w, and what the
\* description says.
Kinds(w) ==
  Read(w) => \A i \in 1 .. Len(stream[w]) :
    /\ stream[w][i].kind = "pid" <=> i = 1 /\ PidDue(w)
    /\ stream[w][i].kind = "info" <=> first[w] = 1 /\ i = InfoAt(w) /\ ~InfoTaken(w)
    /\ stream[w][i].kind = "pid" => stream[w][i].val = w
    /\ stream[w][i].kind = "info" => stream[w][i].val = len[w] /\ Mapped(w)
    /\ stream[w][i].kind # "pid" => first[w] # Undecided /\ mpc[w] \in After \cup {"dead"}

\* What w has written and nobody has read is still there.
Written(w) ==
  Read(w) =>
    /\ mpc[w] \notin {"off", "connect", "pid", "dead"} /\ PidDue(w) => stream[w] # <<>>
    /\ first[w] = 1 /\ mpc[w] \in After /\ ~InfoTaken(w) => Len(stream[w]) >= InfoAt(w)

\* A description that was taken had been written.
Taken(w) == InfoTaken(w) => mpc[w] \in After \cup {"dead"}

\* A second process that has mapped a region has mapped that of its peer.
Same(p) ==
  first[p] = 0 /\ mpc[p] \in After /\ (prog = "P1b" => mpc[1 - p] # "dead") =>
    /\ acc[p] = 1 - p /\ len[p] = len[1 - p] /\ Mapped(p) /\ Mapped(1 - p)
    /\ first[1 - p] = 1 /\ mpc[1 - p] \in After \cup {"dead"}

IInv ==
  /\ TypeOK
  /\ \A p \in Proc : Places(p) /\ Links(p) /\ Roles(p)
  /\ \A p \in Proc : Early(p) /\ Kinds(p) /\ Written(p) /\ Taken(p)
  /\ \A p \in Proc : Same(p)

-----------------------------------------------------------------------------
(* Sequences and types                                                     *)

\* What is left of a sequence without its head.
LEMMA TailOf ==
  ASSUME NEW S, NEW s \in Seq(S), s # <<>>
  PROVE  /\ Head(s) = s[1] /\ Head(s) \in S /\ Len(s) \in Nat /\ Len(s) >= 1
         /\ Tail(s) \in Seq(S) /\ Len(Tail(s)) = Len(s) - 1
         /\ \A i \in 1 .. Len(s) - 1 : Tail(s)[i] = s[i + 1]
  BY HeadTailProperties, EmptySeq, LenProperties

\* A sequence with one more element.
LEMMA AppendOf ==
  ASSUME NEW S, NEW s \in Seq(S), NEW x \in S
  PROVE  /\ Append(s, x) \in Seq(S) /\ Len(Append(s, x)) = Len(s) + 1 /\ Len(s) \in Nat
         /\ Append(s, x) # <<>>
         /\ Append(s, x)[Len(s) + 1] = x
         /\ \A i \in 1 .. Len(s) : Append(s, x)[i] = s[i]
  BY AppendProperties, LenProperties

\* The empty sequence has no element.
LEMMA EmptyOf ==
  ASSUME NEW S, NEW s \in Seq(S)
  PROVE  Len(s) \in Nat /\ (Len(s) = 0 <=> s = <<>>)
  BY EmptySeq, LenProperties

-----------------------------------------------------------------------------
(* What a step leaves alone                                                *)

\* A step of p leaves the other process where it is.
Local(p) ==
  /\ UNCHANGED <<ports, prog>>
  /\ \A q \in Proc : q # p =>
       UNCHANGED <<hpc[q], mpc[q], acc[q], first[q], conn[q], asked[q], len[q], entries[q]>>

\* The other process stays where it was.
LEMMA PlacesOther ==
  ASSUME NEW p \in Proc, Local(p), NEW q \in Proc, q # p, Places(q)
  PROVE  Places(q)'
  BY DEF Local, Places, Alive, Ended, After, Mapped

\* No connection is made or accepted.
LEMMA LinksKept ==
  ASSUME NEW q \in Proc, Links(q), UNCHANGED <<ports, conn, backlog, acc>>,
         conn[q] \in Proc => (mpc[conn[q]] # "off" => mpc'[conn[q]] # "off")
  PROVE  Links(q)'
  BY DEF Links

\* The step is no concern of w's connection: nothing is written to it or read
\* from it, and its ends do not move past the places its contents depend on.
Quiet(w) ==
  /\ Read(w)' => Read(w) /\ (InfoTaken(w)' <=> InfoTaken(w))
  /\ PidDue(w)' <=> PidDue(w)
  /\ stream'[w] = stream[w]
  /\ first'[w] = first[w] \/ first[w] = Undecided
  /\ mpc[w] \in After \cup {"dead"} =>
       mpc'[w] \in After \cup {"dead"} /\ UNCHANGED <<len[w], entries[w], prog>>
  /\ mpc'[w] \in After => mpc[w] \in After \/ first'[w] = 0
  /\ mpc[w] \in {"off", "connect", "pid", "dead"} =>
       mpc'[w] \in {"off", "connect", "pid", "dead"}

\* What is unread of a quiet connection stays as it was described.
LEMMA QuietKept ==
  ASSUME NEW w \in Proc, Kinds(w), Written(w), Places(w), Quiet(w)
  PROVE  Kinds(w)' /\ Written(w)'
<1>1. Kinds(w)'
  <2> SUFFICES ASSUME Read(w)', NEW i \in 1 .. Len(stream'[w])
      PROVE  /\ stream'[w][i].kind = "pid" <=> i = 1 /\ PidDue(w)'
             /\ stream'[w][i].kind = "info" <=> first'[w] = 1 /\ i = InfoAt(w)' /\ ~InfoTaken(w)'
             /\ stream'[w][i].kind = "pid" => stream'[w][i].val = w
             /\ stream'[w][i].kind = "info" => stream'[w][i].val = len'[w] /\ Mapped(w)'
             /\ stream'[w][i].kind # "pid" =>
                  first'[w] # Undecided /\ mpc'[w] \in After \cup {"dead"}
    BY DEF Kinds
  <2>1. /\ stream[w][i].kind = "pid" <=> i = 1 /\ PidDue(w)
        /\ stream[w][i].kind = "info" <=> first[w] = 1 /\ i = InfoAt(w) /\ ~InfoTaken(w)
        /\ stream[w][i].kind = "pid" => stream[w][i].val = w
        /\ stream[w][i].kind = "info" => stream[w][i].val = len[w] /\ Mapped(w)
        /\ stream[w][i].kind # "pid" => first[w] # Undecided /\ mpc[w] \in After \cup {"dead"}
    BY DEF Kinds, Quiet
  <2>2. InfoAt(w)' = InfoAt(w) /\ (PidDue(w) => InfoAt(w) = 2)
    BY DEF InfoAt, Quiet
  <2>3. stream[w][i].kind # "pid" =>
          Mapped(w)' = Mapped(w) /\ len'[w] = len[w] /\ first'[w] = first[w]
    BY <2>1 DEF Quiet, Mapped
  <2>4. CASE stream[w][i].kind = "pid"
    BY <2>1, <2>2, <2>4 DEF Quiet
  <2>5. CASE stream[w][i].kind # "pid"
    BY <2>1, <2>2, <2>3, <2>5 DEF Quiet
  <2> QED
    BY <2>4, <2>5
<1>2. Written(w)'
  <2> SUFFICES ASSUME Read(w)'
      PROVE  /\ mpc'[w] \notin {"off", "connect", "pid", "dead"} /\ PidDue(w)' => stream'[w] # <<>>
             /\ first'[w] = 1 /\ mpc'[w] \in After /\ ~InfoTaken(w)' =>
                  Len(stream'[w]) >= InfoAt(w)'
    BY DEF Written
  <2>1. first'[w] = 1 /\ mpc'[w] \in After => first[w] = 1 /\ mpc[w] \in After
    BY DEF Quiet, Places
  <2>2. InfoAt(w)' = InfoAt(w)
    BY DEF InfoAt, Quiet
  <2> QED
    BY <2>1, <2>2 DEF Written, Quiet
<1> QED
  BY <1>1, <1>2

\* The step of p does not move a second process that has its region.
LEMMA SameKept ==
  ASSUME NEW q \in Proc, Same(q), UNCHANGED <<prog, len, entries>>,
         first'[q] = 0 /\ mpc'[q] \in After =>
           first[q] = 0 /\ mpc[q] \in After /\ acc'[q] = acc[q],
         mpc[1 - q] = "dead" => mpc'[1 - q] = "dead",
         mpc[1 - q] \in After \cup {"dead"} => mpc'[1 - q] \in After \cup {"dead"},
         first[1 - q] = 1 => first'[1 - q] = 1
  PROVE  Same(q)'
  BY DEF Same, Mapped

-----------------------------------------------------------------------------
(* Writing and reading                                                     *)

\* A step of p that writes m, when m is what is due at its place.
LEMMA AppendKept ==
  ASSUME NEW p \in Proc, Kinds(p), NEW m \in Message, stream[p] \in Seq(Message),
         Read(p)' => Read(p) /\ stream'[p] = Append(stream[p], m),
         PidDue(p)' <=> PidDue(p), InfoTaken(p)' <=> InfoTaken(p),
         UNCHANGED <<first[p], len[p], entries[p], prog>>,
         mpc[p] \in After \cup {"dead"} => mpc'[p] \in After \cup {"dead"},
         Read(p)' =>
           /\ m.kind = "pid" <=> Len(stream[p]) = 0 /\ PidDue(p)
           /\ m.kind = "info" <=>
                first[p] = 1 /\ Len(stream[p]) + 1 = InfoAt(p) /\ ~InfoTaken(p)
           /\ m.kind = "pid" => m.val = p
           /\ m.kind = "info" => m.val = len[p] /\ Mapped(p)
           /\ m.kind # "pid" => first[p] # Undecided /\ mpc'[p] \in After
  PROVE  Kinds(p)'
<1>1. InfoAt(p)' = InfoAt(p) /\ (Mapped(p)' <=> Mapped(p))
  BY DEF InfoAt, Mapped
<1> SUFFICES ASSUME Read(p)', NEW i \in 1 .. Len(stream'[p])
    PROVE  /\ stream'[p][i].kind = "pid" <=> i = 1 /\ PidDue(p)
           /\ stream'[p][i].kind = "info" <=> first[p] = 1 /\ i = InfoAt(p) /\ ~InfoTaken(p)
           /\ stream'[p][i].kind = "pid" => stream'[p][i].val = p
           /\ stream'[p][i].kind = "info" => stream'[p][i].val = len[p] /\ Mapped(p)
           /\ stream'[p][i].kind # "pid" =>
                first[p] # Undecided /\ mpc'[p] \in After \cup {"dead"}
  BY <1>1 DEF Kinds
<1>2. /\ Len(stream'[p]) = Len(stream[p]) + 1 /\ Len(stream[p]) \in Nat
      /\ stream'[p][Len(stream[p]) + 1] = m
      /\ \A j \in 1 .. Len(stream[p]) : stream'[p][j] = stream[p][j]
  BY AppendOf
<1>3. CASE i = Len(stream[p]) + 1
  BY <1>2, <1>3
<1>4. CASE i \in 1 .. Len(stream[p])
  BY <1>2, <1>4 DEF Kinds
<1> QED
  BY <1>2, <1>3, <1>4

\* What p finds when there is something to read.
LEMMA Reader ==
  ASSUME IInv, NEW p \in Proc, Alive(p), NEW w \in Proc, w = acc[p], stream[w] # <<>>
  PROVE  /\ conn[w] = p /\ Read(w) /\ \A q \in Proc : acc[q] = w => q = p
         /\ stream[w] \in Seq(Message) /\ 1 \in 1 .. Len(stream[w])
         /\ Head(stream[w]) = stream[w][1] /\ Head(stream[w]) \in Message
         /\ PidDue(w) <=> first[p] = Undecided
         /\ mpc[w] \notin {"off", "connect", "pid"}
<1>1. conn[w] = p /\ \A q \in Proc : acc[q] = w => q = p
  BY DEF IInv, Links
<1>2. stream[w] \in Seq(Message)
  BY DEF IInv, TypeOK, HandshakeTypeOK
<1>3. mpc[w] \notin {"off", "connect", "pid"}
  BY DEF IInv, Early
<1> QED
  BY <1>1, <1>2, <1>3, TailOf DEF Read, PidDue

\* Past the handshake, what p finds was written by a peer that has mapped the
\* region or received it, and that has the other role: a description if p is
\* the second process and waits for it, and a request otherwise.
LEMMA DecidedReader ==
  ASSUME IInv, NEW p \in Proc, Joined(p) \/ mpc[p] = "loop",
         NEW w \in Proc, w = acc[p], stream[w] # <<>>
  PROVE  /\ Alive(p) /\ w = 1 - p /\ mpc[w] \in After \cup {"dead"} /\ ~PidDue(w)
         /\ first[p] # Undecided /\ first[w] = 1 - first[p]
         /\ Head(stream[w]).kind # "pid"
         /\ first[p] = 0 /\ Joined(p) =>
              /\ Head(stream[w]).kind = "info" /\ ~InfoTaken(w)
              /\ Head(stream[w]).val = len[w] /\ Mapped(w)
         /\ mpc[p] = "loop" => Head(stream[w]).kind = "request" /\ (first[w] = 1 => InfoTaken(w))
<1>1. Alive(p) /\ first[p] \in {0, 1}
  BY DEF IInv, TypeOK, HandshakeTypeOK, Places, Joined, Alive, Ended, After
<1>2. /\ conn[w] = p /\ Read(w) /\ \A q \in Proc : acc[q] = w => q = p
      /\ 1 \in 1 .. Len(stream[w]) /\ Head(stream[w]) = stream[w][1]
      /\ Head(stream[w]) \in Message
      /\ ~PidDue(w)
  BY <1>1, Reader
<1>3. Head(stream[w]).kind # "pid" /\ first[w] \in {0, 1} /\ mpc[w] \in After \cup {"dead"}
  BY <1>2 DEF IInv, Kinds, TypeOK, HandshakeTypeOK
<1>4. w # p
  <2>1. CASE Joined(p)
    BY <1>3, <2>1 DEF Joined, After
  <2>2. CASE mpc[p] = "loop" /\ w = p
    <3>1. Roles(p) /\ Same(p) /\ Places(p)
      BY DEF IInv
    <3>2. ~(p < acc[p]) /\ mpc[acc[p]] # "dead" /\ acc[p] # 1 - p
      BY <2>2
    <3>3. first[p] = 0
      BY <1>1, <3>1, <3>2 DEF Roles
    <3>4. prog = "P2"
      BY <2>2, <3>1 DEF Places
    <3> QED
      BY <2>2, <3>1, <3>2, <3>3, <3>4 DEF Same, After
  <2> QED
    BY <2>1, <2>2
<1>5. acc[w] = p
  BY <1>2, <1>3, <1>4 DEF IInv, Places, Links
<1>6. /\ first[p] = 1 <=> p < w
      /\ first[w] = 1 <=> w < p
  BY <1>1, <1>3, <1>5 DEF IInv, Roles, Alive, Ended
<1>7. w = 1 - p /\ first[w] = 1 - first[p]
  BY <1>1, <1>3, <1>4, <1>6
<1>8. /\ Head(stream[w]).kind = "info" <=> first[w] = 1 /\ ~InfoTaken(w)
      /\ Head(stream[w]).kind = "info" => Head(stream[w]).val = len[w] /\ Mapped(w)
  BY <1>2 DEF IInv, Kinds, InfoAt
<1>9. InfoTaken(w) <=> first[p] = 0 /\ mpc[p] \in After
  BY <1>2 DEF InfoTaken
<1>10. CASE Joined(p)
  BY <1>1, <1>2, <1>3, <1>7, <1>8, <1>9, <1>10 DEF Joined, After
<1>11. CASE mpc[p] = "loop"
  BY <1>1, <1>2, <1>3, <1>7, <1>8, <1>9, <1>11 DEF Joined, After, Message
<1> QED
  BY <1>10, <1>11

\* A step of p that reads the head of w's connection, when what is left does
\* not hold a pid any more, nor a description that p has taken.
LEMMA TailKept ==
  ASSUME NEW w \in Proc, Kinds(w), stream[w] \in Seq(Message), stream[w] # <<>>,
         stream'[w] = Tail(stream[w]), Read(w), ~PidDue(w)',
         UNCHANGED <<len[w], entries[w], prog>>,
         first'[w] = first[w] \/ first[w] = Undecided,
         mpc[w] \in After \cup {"dead"} => mpc'[w] \in After \cup {"dead"},
         \/ PidDue(w) /\ (InfoTaken(w)' <=> InfoTaken(w))
         \/ ~PidDue(w) /\ (first[w] = 1 => InfoTaken(w)') /\ first'[w] = first[w]
  PROVE  Kinds(w)'
<1>1. /\ Len(stream[w]) \in Nat /\ Len(stream'[w]) = Len(stream[w]) - 1
      /\ \A i \in 1 .. Len(stream[w]) - 1 : stream'[w][i] = stream[w][i + 1]
  BY TailOf
<1>2. InfoAt(w)' = 1 /\ (Mapped(w)' <=> Mapped(w)) /\ (InfoAt(w) = IF PidDue(w) THEN 2 ELSE 1)
  BY DEF InfoAt, Mapped
<1> SUFFICES ASSUME NEW i \in 1 .. Len(stream'[w])
    PROVE  /\ stream'[w][i].kind # "pid"
           /\ stream'[w][i].kind = "info" <=> first'[w] = 1 /\ i = 1 /\ ~InfoTaken(w)'
           /\ stream'[w][i].kind = "info" => stream'[w][i].val = len[w] /\ Mapped(w)
           /\ first'[w] # Undecided /\ mpc'[w] \in After \cup {"dead"}
  BY <1>2 DEF Kinds
<1>3. i + 1 \in 1 .. Len(stream[w]) /\ i + 1 # 1 /\ stream'[w][i] = stream[w][i + 1]
  BY <1>1
<1>4. /\ stream[w][i + 1].kind # "pid"
      /\ stream[w][i + 1].kind = "info" <=> first[w] = 1 /\ i + 1 = InfoAt(w) /\ ~InfoTaken(w)
      /\ stream[w][i + 1].kind = "info" => stream[w][i + 1].val = len[w] /\ Mapped(w)
      /\ first[w] # Undecided /\ mpc[w] \in After \cup {"dead"}
  BY <1>3 DEF Kinds
<1>5. first'[w] = first[w]
  BY <1>4
<1> QED
  BY <1>1, <1>2, <1>3, <1>4, <1>5

\* p ends by exit or by a signal.
Dies(p) ==
  /\ Alive(p) /\ Die(p)
  /\ UNCHANGED <<ports, conn, backlog, acc, stream, first, startVars>>

\* A process that has started has said nothing to anybody.
LEMMA StepStart ==
  ASSUME IInv, NEW p \in Proc, Start(p)
  PROVE  IInv'
<1>1. TypeOK'
  BY StartupAssumption DEF IInv, TypeOK, HandshakeTypeOK, startVars, Start, PortCheck, Launch
<1>2. Local(p)
  BY DEF Local, IInv, TypeOK, HandshakeTypeOK, startVars, Start, PortCheck, Launch
<1>3. \A q \in Proc : Places(q)'
  <2>1. Places(p)'
    BY <1>1, StartupAssumption
       DEF IInv, TypeOK, HandshakeTypeOK, startVars, Start, PortCheck, Launch, Places,
           After, Mapped, Alive, Ended
  <2> QED
    BY <1>2, <2>1, PlacesOther DEF IInv
<1>4. \A q \in Proc : Links(q)'
  <2>1. UNCHANGED <<ports, conn, backlog, acc>> /\ \A q \in Proc : mpc[q] # "off" => mpc'[q] # "off"
    BY DEF IInv, TypeOK, startVars, Start, PortCheck, Launch
  <2> QED
    BY <2>1, LinksKept DEF IInv
<1>5. \A q \in Proc : Roles(q)'
  BY <1>1
     DEF IInv, TypeOK, HandshakeTypeOK, startVars, Start, PortCheck, Launch, Roles, Places,
         Alive, Ended
<1>6. \A q \in Proc : Early(q)'
  BY <1>1
     DEF IInv, TypeOK, HandshakeTypeOK, startVars, Start, PortCheck, Launch, Early, PidDue,
         Places, Alive, Ended
<1>7. \A w \in Proc : Kinds(w)' /\ Written(w)'
  <2> SUFFICES ASSUME NEW w \in Proc PROVE Kinds(w)' /\ Written(w)'
    OBVIOUS
  <2>1. Quiet(w)
    BY <1>1, <1>2
       DEF IInv, TypeOK, HandshakeTypeOK, startVars, Start, PortCheck, Launch, Quiet, Read,
           InfoTaken, PidDue, Places, Links, After, Alive, Ended, Local
  <2> QED
    BY <2>1, QuietKept DEF IInv
<1>8. \A q \in Proc : Taken(q)'
  BY <1>1
     DEF IInv, TypeOK, HandshakeTypeOK, startVars, Start, PortCheck, Launch, Taken,
         InfoTaken, After, Places, Early, PidDue
<1>9. \A q \in Proc : Same(q)'
  BY <1>1
     DEF IInv, TypeOK, HandshakeTypeOK, startVars, Start, PortCheck, Launch, Same, After,
         Mapped, Places
<1> QED
  BY <1>1, <1>3, <1>4, <1>5, <1>6, <1>7, <1>8, <1>9 DEF IInv

\* A bound port is a listening process's own.
LEMMA StepBind ==
  ASSUME IInv, NEW p \in Proc, Bind(p) /\ UNCHANGED startVars
  PROVE  IInv'
<1>1. TypeOK'
  BY StartupAssumption DEF IInv, TypeOK, HandshakeTypeOK, startVars, Bind
<1>2. Local(p)
  BY DEF Local, IInv, TypeOK, HandshakeTypeOK, startVars, Bind
<1>3. \A q \in Proc : Places(q)'
  <2>1. Places(p)'
    BY <1>1, StartupAssumption
       DEF IInv, TypeOK, HandshakeTypeOK, startVars, Bind, Places, After, Mapped, Alive,
           Ended
  <2> QED
    BY <1>2, <2>1, PlacesOther DEF IInv
<1>4. \A q \in Proc : Links(q)'
  <2>1. UNCHANGED <<ports, conn, backlog, acc>> /\ \A q \in Proc : mpc[q] # "off" => mpc'[q] # "off"
    BY DEF IInv, TypeOK, startVars, Bind
  <2> QED
    BY <2>1, LinksKept DEF IInv
<1>5. \A q \in Proc : Roles(q)'
  BY <1>1 DEF IInv, TypeOK, HandshakeTypeOK, startVars, Bind, Roles, Places, Alive, Ended
<1>6. \A q \in Proc : Early(q)'
  BY <1>1
     DEF IInv, TypeOK, HandshakeTypeOK, startVars, Bind, Early, PidDue, Places, Alive,
         Ended
<1>7. \A w \in Proc : Kinds(w)' /\ Written(w)'
  <2> SUFFICES ASSUME NEW w \in Proc PROVE Kinds(w)' /\ Written(w)'
    OBVIOUS
  <2>1. Quiet(w)
    BY <1>1, <1>2
       DEF IInv, TypeOK, HandshakeTypeOK, startVars, Bind, Quiet, Read, InfoTaken, PidDue,
           Places, Links, After, Alive, Ended, Local
  <2> QED
    BY <2>1, QuietKept DEF IInv
<1>8. \A q \in Proc : Taken(q)'
  BY <1>1
     DEF IInv, TypeOK, HandshakeTypeOK, startVars, Bind, Taken, InfoTaken, After, Places,
         Early, PidDue
<1>9. \A q \in Proc : Same(q)'
  BY <1>1 DEF IInv, TypeOK, HandshakeTypeOK, startVars, Bind, Same, After, Mapped, Places
<1> QED
  BY <1>1, <1>3, <1>4, <1>5, <1>6, <1>7, <1>8, <1>9 DEF IInv

\* The accepted connection is the other process's own.
LEMMA StepAccept ==
  ASSUME IInv, NEW p \in Proc, Accept(p) /\ UNCHANGED startVars
  PROVE  IInv'
<1>1. TypeOK'
  BY StartupAssumption DEF IInv, TypeOK, HandshakeTypeOK, startVars, Accept
<1>2. Local(p)
  BY DEF Local, IInv, TypeOK, HandshakeTypeOK, startVars, Accept
<1>3. \A q \in Proc : Places(q)'
  <2>1. Places(p)'
    BY <1>1, StartupAssumption
       DEF IInv, TypeOK, HandshakeTypeOK, startVars, Accept, Places, After, Mapped, Alive,
           Ended
  <2> QED
    BY <1>2, <2>1, PlacesOther DEF IInv
<1>4. \A q \in Proc : Links(q)'
  <2>1. backlog[p] \in Seq(Proc) /\ backlog[p] # <<>>
    BY DEF IInv, TypeOK, HandshakeTypeOK, Accept
  <2>2. backlog' = [backlog EXCEPT ![p] = Tail(backlog[p])]
    BY DEF Accept
  <2>3. acc' = [acc EXCEPT ![p] = backlog[p][1]] /\ UNCHANGED <<ports, conn, mpc>>
    BY <2>1, TailOf DEF Accept
  <2>4. \A i \in 1 .. Len(backlog[p]) : conn[backlog[p][i]] = p
    BY DEF IInv, Links
  <2>5. conn[backlog[p][1]] = p
    BY <2>1, <2>4, TailOf
  <2>6. \A i \in 1 .. Len(Tail(backlog[p])) : conn[Tail(backlog[p])[i]] = p
    BY <2>1, <2>4, TailOf
  <2>7. acc \in [Proc -> Proc \cup {Nobody}] /\ backlog \in [Proc -> Seq(Proc)]
    BY DEF IInv, TypeOK, HandshakeTypeOK
  <2> SUFFICES ASSUME NEW q \in Proc PROVE Links(q)'
    OBVIOUS
  <2>8. Links(q)
    BY DEF IInv
  <2>9. \A r \in Proc : acc'[r] = q => conn[q] = r
    BY <2>3, <2>5, <2>7, <2>8 DEF Links
  <2>10. \A i \in 1 .. Len(backlog'[q]) : conn[backlog'[q][i]] = q
    BY <2>2, <2>6, <2>7, <2>8 DEF Links
  <2> QED
    BY <2>3, <2>8, <2>9, <2>10 DEF Links
<1>5. \A q \in Proc : Roles(q)'
  BY <1>1 DEF IInv, TypeOK, HandshakeTypeOK, startVars, Accept, Roles, Places, Alive, Ended
<1>6. \A q \in Proc : Early(q)'
  BY <1>1
     DEF IInv, TypeOK, HandshakeTypeOK, startVars, Accept, Early, PidDue, Places, Alive,
         Ended
<1>7. \A w \in Proc : Kinds(w)' /\ Written(w)'
  <2> SUFFICES ASSUME NEW w \in Proc PROVE Kinds(w)' /\ Written(w)'
    OBVIOUS
  <2>1. Quiet(w)
    BY <1>1, <1>2
       DEF IInv, TypeOK, HandshakeTypeOK, startVars, Accept, Quiet, Read, InfoTaken,
           PidDue, Places, Links, After, Alive, Ended, Local
  <2> QED
    BY <2>1, QuietKept DEF IInv
<1>8. \A q \in Proc : Taken(q)'
  BY <1>1
     DEF IInv, TypeOK, HandshakeTypeOK, startVars, Accept, Taken, InfoTaken, After, Places,
         Early, PidDue
<1>9. \A q \in Proc : Same(q)'
  BY <1>1 DEF IInv, TypeOK, HandshakeTypeOK, startVars, Accept, Same, After, Mapped, Places
<1> QED
  BY <1>1, <1>3, <1>4, <1>5, <1>6, <1>7, <1>8, <1>9 DEF IInv

\* A server that has found no byte takes nothing from the stream.
LEMMA StepReadNoPid ==
  ASSUME IInv, NEW p \in Proc, ReadNoPid(p) /\ UNCHANGED startVars
  PROVE  IInv'
<1>1. TypeOK'
  BY StartupAssumption DEF IInv, TypeOK, HandshakeTypeOK, startVars, ReadNoPid, AtEnd
<1>2. Local(p)
  BY DEF Local, IInv, TypeOK, HandshakeTypeOK, startVars, ReadNoPid, AtEnd
<1>3. \A q \in Proc : Places(q)'
  <2>1. Places(p)'
    BY <1>1, StartupAssumption
       DEF IInv, TypeOK, HandshakeTypeOK, startVars, ReadNoPid, AtEnd, Places, After,
           Mapped, Alive, Ended
  <2> QED
    BY <1>2, <2>1, PlacesOther DEF IInv
<1>4. \A q \in Proc : Links(q)'
  <2>1. UNCHANGED <<ports, conn, backlog, acc>> /\ \A q \in Proc : mpc[q] # "off" => mpc'[q] # "off"
    BY DEF IInv, TypeOK, startVars, ReadNoPid, AtEnd
  <2> QED
    BY <2>1, LinksKept DEF IInv
<1>0. /\ acc[p] \in Proc /\ conn[acc[p]] = p /\ mpc[acc[p]] = "dead" /\ stream[acc[p]] = <<>>
      /\ acc[p] # p
  <2>1. /\ acc[p] \in Proc /\ Ended(acc[p]) /\ stream[acc[p]] = <<>>
        /\ hpc[p] = "read" /\ Alive(p) /\ first[p] = Undecided
    BY DEF IInv, Places, ReadNoPid, AtEnd
  <2>2. conn[acc[p]] = p /\ Read(acc[p])
    BY <2>1 DEF IInv, Links, Read
  <2>3. PidDue(acc[p])
    BY <2>1, <2>2 DEF IInv, Links, PidDue
  <2>4. mpc[acc[p]] # "returned"
    BY <2>1, <2>2, <2>3 DEF IInv, Written
  <2> QED
    BY <2>1, <2>2, <2>4 DEF Ended, Alive
<1>5. \A q \in Proc : Roles(q)'
  BY <1>0, <1>1 DEF IInv, TypeOK, HandshakeTypeOK, ReadNoPid, Roles
<1>6. \A q \in Proc : Early(q)'
  BY <1>1
     DEF IInv, TypeOK, HandshakeTypeOK, startVars, ReadNoPid, AtEnd, Early, PidDue, Places,
         Alive, Ended
<1>7. \A w \in Proc : Kinds(w)' /\ Written(w)'
  <2> SUFFICES ASSUME NEW w \in Proc PROVE Kinds(w)' /\ Written(w)'
    OBVIOUS
  <2>1. CASE w = acc[p]
    BY <1>0, <2>1, EmptySeq DEF ReadNoPid, Kinds, Written, After
  <2>2. CASE w # acc[p]
    <3>1. Quiet(w)
      BY <1>1, <2>2
         DEF IInv, TypeOK, HandshakeTypeOK, startVars, ReadNoPid, Quiet, Read, InfoTaken,
             PidDue, Places, Links, After, Alive, Ended
    <3> QED
      BY <3>1, QuietKept DEF IInv
  <2> QED
    BY <2>1, <2>2
<1>8. \A q \in Proc : Taken(q)'
  BY <1>1
     DEF IInv, TypeOK, HandshakeTypeOK, startVars, ReadNoPid, AtEnd, Taken, InfoTaken,
         After, Places, Early, PidDue
<1>9. \A q \in Proc : Same(q)'
  BY <1>1
     DEF IInv, TypeOK, HandshakeTypeOK, startVars, ReadNoPid, AtEnd, Same, After, Mapped,
         Places
<1> QED
  BY <1>1, <1>3, <1>4, <1>5, <1>6, <1>7, <1>8, <1>9 DEF IInv

\* What a process maps for itself is no concern of the other.
LEMMA StepSeparate ==
  ASSUME IInv, NEW p \in Proc, Separate(p)
  PROVE  IInv'
<1>1. TypeOK'
  BY StartupAssumption DEF IInv, TypeOK, HandshakeTypeOK, startVars, Separate
<1>2. Local(p)
  BY DEF Local, IInv, TypeOK, HandshakeTypeOK, startVars, Separate
<1>3. \A q \in Proc : Places(q)'
  <2>1. Places(p)'
    BY <1>1, StartupAssumption
       DEF IInv, TypeOK, HandshakeTypeOK, startVars, Separate, Places, After, Mapped,
           Alive, Ended
  <2> QED
    BY <1>2, <2>1, PlacesOther DEF IInv
<1>4. \A q \in Proc : Links(q)'
  <2>1. UNCHANGED <<ports, conn, backlog, acc>> /\ \A q \in Proc : mpc[q] # "off" => mpc'[q] # "off"
    BY DEF IInv, TypeOK, startVars, Separate
  <2> QED
    BY <2>1, LinksKept DEF IInv
<1>5. \A q \in Proc : Roles(q)'
  BY <1>1 DEF IInv, TypeOK, HandshakeTypeOK, startVars, Separate, Roles, Places, Alive, Ended
<1>6. \A q \in Proc : Early(q)'
  BY <1>1
     DEF IInv, TypeOK, HandshakeTypeOK, startVars, Separate, Early, PidDue, Places, Alive,
         Ended
<1>7. \A w \in Proc : Kinds(w)' /\ Written(w)'
  <2> SUFFICES ASSUME NEW w \in Proc PROVE Kinds(w)' /\ Written(w)'
    OBVIOUS
  <2>1. Quiet(w)
    BY <1>1, <1>2
       DEF IInv, TypeOK, HandshakeTypeOK, startVars, Separate, Quiet, Read, InfoTaken,
           PidDue, Places, Links, After, Alive, Ended, Local
  <2> QED
    BY <2>1, QuietKept DEF IInv
<1>8. \A q \in Proc : Taken(q)'
  BY <1>1
     DEF IInv, TypeOK, HandshakeTypeOK, startVars, Separate, Taken, InfoTaken, After,
         Places, Early, PidDue
<1>9. \A q \in Proc : Same(q)'
  <2> SUFFICES ASSUME NEW q \in Proc PROVE Same(q)'
    OBVIOUS
  <2> QED
    BY <1>1, <1>2, SameKept
       DEF IInv, TypeOK, HandshakeTypeOK, startVars, Separate, After, Alive, Ended
<1> QED
  BY <1>1, <1>3, <1>4, <1>5, <1>6, <1>7, <1>8, <1>9 DEF IInv

\* Registering the region leaves its length and entries alone.
LEMMA StepRegister ==
  ASSUME IInv, NEW p \in Proc, Register(p)
  PROVE  IInv'
<1>1. TypeOK'
  BY StartupAssumption DEF IInv, TypeOK, HandshakeTypeOK, startVars, Register
<1>2. Local(p)
  BY DEF Local, IInv, TypeOK, HandshakeTypeOK, startVars, Register
<1>3. \A q \in Proc : Places(q)'
  <2>1. Places(p)'
    BY <1>1, StartupAssumption
       DEF IInv, TypeOK, HandshakeTypeOK, startVars, Register, Places, After, Mapped,
           Alive, Ended
  <2> QED
    BY <1>2, <2>1, PlacesOther DEF IInv
<1>4. \A q \in Proc : Links(q)'
  <2>1. UNCHANGED <<ports, conn, backlog, acc>> /\ \A q \in Proc : mpc[q] # "off" => mpc'[q] # "off"
    BY DEF IInv, TypeOK, startVars, Register
  <2> QED
    BY <2>1, LinksKept DEF IInv
<1>5. \A q \in Proc : Roles(q)'
  BY <1>1 DEF IInv, TypeOK, HandshakeTypeOK, startVars, Register, Roles, Places, Alive, Ended
<1>6. \A q \in Proc : Early(q)'
  BY <1>1
     DEF IInv, TypeOK, HandshakeTypeOK, startVars, Register, Early, PidDue, Places, Alive,
         Ended
<1>7. \A w \in Proc : Kinds(w)' /\ Written(w)'
  <2> SUFFICES ASSUME NEW w \in Proc PROVE Kinds(w)' /\ Written(w)'
    OBVIOUS
  <2>1. Quiet(w)
    BY <1>1, <1>2
       DEF IInv, TypeOK, HandshakeTypeOK, startVars, Register, Quiet, Read, InfoTaken,
           PidDue, Places, Links, After, Alive, Ended, Local
  <2> QED
    BY <2>1, QuietKept DEF IInv
<1>8. \A q \in Proc : Taken(q)'
  BY <1>1
     DEF IInv, TypeOK, HandshakeTypeOK, startVars, Register, Taken, InfoTaken, After,
         Places, Early, PidDue
<1>9. \A q \in Proc : Same(q)'
  <2> SUFFICES ASSUME NEW q \in Proc PROVE Same(q)'
    OBVIOUS
  <2> QED
    BY <1>1, <1>2, SameKept
       DEF IInv, TypeOK, HandshakeTypeOK, startVars, Register, After, Alive, Ended
<1> QED
  BY <1>1, <1>3, <1>4, <1>5, <1>6, <1>7, <1>8, <1>9 DEF IInv

\* A server that returns has agreed to what it has.
LEMMA StepReturn ==
  ASSUME IInv, NEW p \in Proc, Return(p)
  PROVE  IInv'
<1>1. TypeOK'
  BY StartupAssumption DEF IInv, TypeOK, HandshakeTypeOK, startVars, Return, End
<1>2. Local(p)
  BY DEF Local, IInv, TypeOK, HandshakeTypeOK, startVars, Return, End
<1>3. \A q \in Proc : Places(q)'
  <2>1. Places(p)'
    BY <1>1, StartupAssumption
       DEF IInv, TypeOK, HandshakeTypeOK, startVars, Return, End, Places, After, Mapped,
           Alive, Ended
  <2> QED
    BY <1>2, <2>1, PlacesOther DEF IInv
<1>4. \A q \in Proc : Links(q)'
  <2>1. UNCHANGED <<ports, conn, backlog, acc>> /\ \A q \in Proc : mpc[q] # "off" => mpc'[q] # "off"
    BY DEF IInv, TypeOK, startVars, Return, End
  <2> QED
    BY <2>1, LinksKept DEF IInv
<1>5. \A q \in Proc : Roles(q)'
  BY <1>1
     DEF IInv, TypeOK, HandshakeTypeOK, startVars, Return, End, Roles, Places, Alive, Ended
<1>6. \A q \in Proc : Early(q)'
  BY <1>1
     DEF IInv, TypeOK, HandshakeTypeOK, startVars, Return, End, Early, PidDue, Places,
         Alive, Ended
<1>7. \A w \in Proc : Kinds(w)' /\ Written(w)'
  <2> SUFFICES ASSUME NEW w \in Proc PROVE Kinds(w)' /\ Written(w)'
    OBVIOUS
  <2>1. Quiet(w)
    BY <1>1, <1>2
       DEF IInv, TypeOK, HandshakeTypeOK, startVars, Return, End, Quiet, Read, InfoTaken,
           PidDue, Places, Links, After, Alive, Ended, Local
  <2> QED
    BY <2>1, QuietKept DEF IInv
<1>8. \A q \in Proc : Taken(q)'
  BY <1>1
     DEF IInv, TypeOK, HandshakeTypeOK, startVars, Return, End, Taken, InfoTaken, After,
         Places, Early, PidDue
<1>9. \A q \in Proc : Same(q)'
  <2> SUFFICES ASSUME NEW q \in Proc PROVE Same(q)'
    OBVIOUS
  <2> QED
    BY <1>1, <1>2, SameKept
       DEF IInv, TypeOK, HandshakeTypeOK, startVars, Return, End, After, Alive, Ended
<1> QED
  BY <1>1, <1>3, <1>4, <1>5, <1>6, <1>7, <1>8, <1>9 DEF IInv

\* A process that dies writes no more.
LEMMA StepDies ==
  ASSUME IInv, NEW p \in Proc, Dies(p)
  PROVE  IInv'
<1>1. TypeOK'
  BY StartupAssumption DEF IInv, TypeOK, HandshakeTypeOK, startVars, Dies, Die, End
<1>2. Local(p)
  BY DEF Local, IInv, TypeOK, HandshakeTypeOK, startVars, Dies, Die, End
<1>3. \A q \in Proc : Places(q)'
  <2>1. Places(p)'
    BY <1>1, StartupAssumption
       DEF IInv, TypeOK, HandshakeTypeOK, startVars, Dies, Die, End, Places, After, Mapped,
           Alive, Ended
  <2> QED
    BY <1>2, <2>1, PlacesOther DEF IInv
<1>4. \A q \in Proc : Links(q)'
  <2>1. UNCHANGED <<ports, conn, backlog, acc>> /\ \A q \in Proc : mpc[q] # "off" => mpc'[q] # "off"
    BY DEF IInv, TypeOK, startVars, Dies, Die, End
  <2> QED
    BY <2>1, LinksKept DEF IInv
<1>5. \A q \in Proc : Roles(q)'
  BY <1>1
     DEF IInv, TypeOK, HandshakeTypeOK, startVars, Dies, Die, End, Roles, Places, Alive,
         Ended
<1>6. \A q \in Proc : Early(q)'
  BY <1>1
     DEF IInv, TypeOK, HandshakeTypeOK, startVars, Dies, Die, End, Early, PidDue, Places,
         Alive, Ended
<1>7. \A w \in Proc : Kinds(w)' /\ Written(w)'
  <2> SUFFICES ASSUME NEW w \in Proc PROVE Kinds(w)' /\ Written(w)'
    OBVIOUS
  <2>1. Quiet(w)
    BY <1>1, <1>2
       DEF IInv, TypeOK, HandshakeTypeOK, startVars, Dies, Die, End, Quiet, Read,
           InfoTaken, PidDue, Places, Links, After, Alive, Ended, Local
  <2> QED
    BY <2>1, QuietKept DEF IInv
<1>8. \A q \in Proc : Taken(q)'
  BY <1>1
     DEF IInv, TypeOK, HandshakeTypeOK, startVars, Dies, Die, End, Taken, InfoTaken, After,
         Places, Early, PidDue
<1>9. \A q \in Proc : Same(q)'
  <2> SUFFICES ASSUME NEW q \in Proc PROVE Same(q)'
    OBVIOUS
  <2> QED
    BY <1>1, <1>2, SameKept
       DEF IInv, TypeOK, HandshakeTypeOK, startVars, Dies, Die, End, After, Alive, Ended
<1> QED
  BY <1>1, <1>3, <1>4, <1>5, <1>6, <1>7, <1>8, <1>9 DEF IInv

\* The first process maps the region before it describes it.
LEMMA StepMapFirst ==
  ASSUME IInv, NEW p \in Proc, NEW n \in Answers, MapFirst(p, n)
  PROVE  IInv'
<1>0. n \in Int /\ Bytes(n) > 0 /\ len' = [len EXCEPT ![p] = Bytes(n)]
  BY StartupAssumption DEF MapFirst
<1>1. TypeOK'
  BY <1>0, BytesBounds, StartupAssumption
     DEF IInv, TypeOK, HandshakeTypeOK, startVars, MapFirst, Joined, MakeEntries
<1>2. Local(p)
  BY DEF Local, IInv, TypeOK, HandshakeTypeOK, startVars, MapFirst, Joined, MakeEntries
<1>3. \A q \in Proc : Places(q)'
  <2>1. Places(p)'
    BY <1>1, <1>0, BytesBounds, StartupAssumption
       DEF IInv, TypeOK, HandshakeTypeOK, startVars, MapFirst, Joined, MakeEntries, Places,
           After, Mapped, Alive, Ended
  <2> QED
    BY <1>2, <2>1, PlacesOther DEF IInv
<1>4. \A q \in Proc : Links(q)'
  <2>1. UNCHANGED <<ports, conn, backlog, acc>> /\ \A q \in Proc : mpc[q] # "off" => mpc'[q] # "off"
    BY DEF IInv, TypeOK, startVars, MapFirst, Joined, MakeEntries
  <2> QED
    BY <2>1, LinksKept DEF IInv
<1>5. \A q \in Proc : Roles(q)'
  BY <1>1
     DEF IInv, TypeOK, HandshakeTypeOK, startVars, MapFirst, Joined, MakeEntries, Roles,
         Places, Alive, Ended
<1>6. \A q \in Proc : Early(q)'
  BY <1>1
     DEF IInv, TypeOK, HandshakeTypeOK, startVars, MapFirst, Joined, MakeEntries, Early,
         PidDue, Places, Alive, Ended
<1>7. \A w \in Proc : Kinds(w)' /\ Written(w)'
  <2> SUFFICES ASSUME NEW w \in Proc PROVE Kinds(w)' /\ Written(w)'
    OBVIOUS
  <2>1. Quiet(w)
    BY <1>1, <1>2
       DEF IInv, TypeOK, HandshakeTypeOK, startVars, MapFirst, Joined, MakeEntries, Quiet,
           Read, InfoTaken, PidDue, Places, Links, After, Alive, Ended, Local
  <2> QED
    BY <2>1, QuietKept DEF IInv
<1>8. \A q \in Proc : Taken(q)'
  BY <1>1
     DEF IInv, TypeOK, HandshakeTypeOK, startVars, MapFirst, Joined, MakeEntries, Taken,
         InfoTaken, After, Places, Early, PidDue
<1>9. \A q \in Proc : Same(q)'
  BY <1>1
     DEF IInv, TypeOK, HandshakeTypeOK, startVars, MapFirst, Joined, MakeEntries, Same,
         After, Mapped, Places
<1> QED
  BY <1>1, <1>3, <1>4, <1>5, <1>6, <1>7, <1>8, <1>9 DEF IInv

\* What p writes reaches its own connection only, if anybody can read it.
LEMMA WriteEffect ==
  ASSUME IInv, NEW p \in Proc, NEW m \in Message, Write(p, m)
  PROVE  /\ stream' \in [Proc -> Seq(Message)]
         /\ Read(p) => stream'[p] = Append(stream[p], m)
         /\ ~Read(p) => stream'[p] = stream[p] \/ stream'[p] = Append(stream[p], m)
         /\ \A w \in Proc : w # p => stream'[w] = stream[w]
  BY AppendOf DEF IInv, TypeOK, HandshakeTypeOK, Write, Read

\* What p reads is taken from the connection it accepted only.
LEMMA ReadEffect ==
  ASSUME IInv, NEW p \in Proc, acc[p] \in Proc, HasData(p), Consume(p)
  PROVE  /\ stream' \in [Proc -> Seq(Message)]
         /\ stream'[acc[p]] = Tail(stream[acc[p]])
         /\ \A w \in Proc : w # acc[p] => stream'[w] = stream[w]
  BY TailOf DEF IInv, TypeOK, HandshakeTypeOK, HasData, Consume

\* A role that is known stays as it was justified when a step writes.
LEMMA RolesKept ==
  ASSUME NEW q \in Proc, Roles(q), Places(q), UNCHANGED <<first[q], acc[q]>>,
         mpc[acc[q]] = "dead" =>
           mpc'[acc[q]] = "dead" /\ (stream[acc[q]] = <<>> => stream'[acc[q]] = <<>>)
  PROVE  Roles(q)'
  BY DEF Roles

\* Connecting: a connection that is new has nothing in it.
LEMMA StepConnect ==
  ASSUME IInv, NEW p \in Proc, Connect(p) /\ UNCHANGED startVars
  PROVE  IInv'
<1> PICK x \in Proc : /\ hpc[x] \in {"accept", "read", "done"}
                      /\ ports[x].listen = ports[p].send
                      /\ conn' = [conn EXCEPT ![p] = x]
                      /\ backlog' = [backlog EXCEPT ![x] = Append(@, p)]
  BY DEF Connect
<1>1. /\ mpc[p] = "connect" /\ mpc' = [mpc EXCEPT ![p] = "pid"]
      /\ UNCHANGED <<ports, hpc, acc, stream, first, prog, asked, len, entries>>
  BY DEF Connect, startVars
<1>2. /\ backlog \in [Proc -> Seq(Proc)] /\ conn \in [Proc -> Proc \cup {Nobody}]
      /\ mpc \in [Proc -> {"off", "connect", "pid", "join", "inform", "register",
                           "alone", "loop", "return", "returned", "dead"}]
      /\ acc \in [Proc -> Proc \cup {Nobody}] /\ ports \in Configs
  BY DEF IInv, TypeOK, HandshakeTypeOK
<1>3. Append(backlog[x], p) \in Seq(Proc)
  BY <1>2, AppendOf
<1>4. TypeOK'
  BY <1>1, <1>2, <1>3 DEF IInv, TypeOK, HandshakeTypeOK
<1>5. /\ Places(p) /\ conn[p] = Nobody /\ mpc[x] # "off"
      /\ stream[p] = <<>> /\ \A q \in Proc : acc[q] # p
  <2>1. Places(p) /\ Places(x) /\ Early(p) /\ Links(p)
    BY DEF IInv
  <2>2. conn[p] = Nobody /\ stream[p] = <<>>
    BY <1>1, <2>1 DEF Places, Early
  <2>3. \A q \in Proc : acc[q] # p
    BY <2>1, <2>2 DEF Links
  <2> QED
    BY <2>1, <2>2, <2>3 DEF Places, Alive
<1>6. Local(p)
  BY <1>1, <1>2 DEF Local
<1>7. \A q \in Proc : Places(q)'
  <2>1. Places(p)'
    BY <1>1, <1>2, <1>5 DEF Places, Alive, Ended, After
  <2> QED
    BY <1>6, <2>1, PlacesOther DEF IInv
<1>8. \A q \in Proc : Links(q)'
  <2> SUFFICES ASSUME NEW q \in Proc PROVE Links(q)'
    OBVIOUS
  <2>1. Links(q) /\ \A i \in 1 .. Len(backlog[q]) : conn[backlog[q][i]] = q
    BY DEF IInv, Links
  <2>2. \A r \in Proc : acc'[r] = q => conn'[q] = r
    BY <1>1, <1>2, <1>5, <2>1 DEF Links
  <2>3. \A i \in 1 .. Len(backlog'[q]) : conn'[backlog'[q][i]] = q
    <3>1. \A i \in 1 .. Len(backlog[q]) : backlog[q][i] \in Proc /\ backlog[q][i] # p
      BY <1>2, <1>5, <2>1, ElementOfSeq
    <3>2. CASE q = x
      <4>1. /\ Len(backlog'[q]) = Len(backlog[q]) + 1 /\ Len(backlog[q]) \in Nat
            /\ backlog'[q][Len(backlog[q]) + 1] = p
            /\ \A i \in 1 .. Len(backlog[q]) : backlog'[q][i] = backlog[q][i]
        BY <1>2, <3>2, AppendOf
      <4> QED
        BY <1>2, <2>1, <3>1, <3>2, <4>1
    <3>3. CASE q # x
      BY <1>2, <2>1, <3>1, <3>3
    <3> QED
      BY <3>2, <3>3
  <2>4. conn'[q] \in Proc =>
          mpc'[conn'[q]] # "off" /\ ports'[conn'[q]].listen = ports'[q].send
    BY <1>1, <1>2, <1>5, <2>1 DEF Links
  <2> QED
    BY <2>2, <2>3, <2>4 DEF Links
<1>9. \A q \in Proc : Roles(q)'
  BY <1>1, <1>2, RolesKept DEF IInv, Places
<1>10. \A q \in Proc : Early(q)' /\ Taken(q)'
  BY <1>1, <1>2, <1>5 DEF IInv, Early, Taken, PidDue, InfoTaken, After
<1>11. \A w \in Proc : Kinds(w)' /\ Written(w)'
  <2>1. Kinds(p)' /\ Written(p)'
    BY <1>1, <1>2, <1>5, EmptySeq DEF Kinds, Written, After
  <2>2. ASSUME NEW w \in Proc, w # p PROVE Quiet(w)
    BY <1>1, <1>2, <2>2 DEF Quiet, Read, Alive, Ended, PidDue, InfoTaken, After
  <2> QED
    BY <2>1, <2>2, QuietKept DEF IInv
<1>12. \A q \in Proc : Same(q)'
  BY <1>1, <1>2, SameKept DEF IInv, After
<1> QED
  BY <1>4, <1>7, <1>8, <1>9, <1>10, <1>11, <1>12 DEF IInv

\* Sending the pid: it is the first message.
LEMMA StepSendPid ==
  ASSUME IInv, NEW p \in Proc, SendPid(p) /\ UNCHANGED startVars
  PROVE  IInv'
<1> DEFINE m == [kind |-> "pid", val |-> p]
<1>1. /\ mpc[p] = "pid" /\ mpc' = [mpc EXCEPT ![p] = "join"] /\ Write(p, m)
      /\ UNCHANGED <<ports, hpc, conn, backlog, acc, first, prog, asked, len, entries>>
  BY DEF SendPid, startVars
<1>2. m \in Message /\ m.kind = "pid" /\ m.val = p
  BY DEF Message
<1> HIDE DEF m
<1>3. /\ stream' \in [Proc -> Seq(Message)]
      /\ Read(p) => stream'[p] = Append(stream[p], m)
      /\ \A w \in Proc : w # p => stream'[w] = stream[w]
  BY <1>1, <1>2, WriteEffect
<1>4. TypeOK'
  BY <1>1, <1>3 DEF IInv, TypeOK, HandshakeTypeOK
<1>5. /\ mpc \in [Proc -> {"off", "connect", "pid", "join", "inform", "register",
                           "alone", "loop", "return", "returned", "dead"}]
      /\ stream[p] \in Seq(Message) /\ stream[p] = <<>> /\ Len(stream[p]) = 0 /\ PidDue(p)
  BY <1>1, EmptySeq DEF IInv, TypeOK, HandshakeTypeOK, Early
<1>6. Local(p)
  BY <1>1, <1>5 DEF Local
<1>7. \A q \in Proc : Places(q)'
  <2>1. Places(p)'
    BY <1>1, <1>5 DEF IInv, Places, Alive, Ended, After
  <2> QED
    BY <1>6, <2>1, PlacesOther DEF IInv
<1>8. \A q \in Proc : Links(q)'
  BY <1>1, <1>5, LinksKept DEF IInv
<1>9. \A q \in Proc : Roles(q)'
  <2> SUFFICES ASSUME NEW q \in Proc PROVE Roles(q)'
    OBVIOUS
  <2>1. first[q] # Undecided => acc[q] \in Proc
    BY DEF IInv, Places
  <2> QED
    BY <1>1, <1>3, <1>5, <2>1 DEF IInv, Roles
<1>10. \A q \in Proc : Early(q)' /\ Taken(q)'
  BY <1>1, <1>3, <1>5 DEF IInv, Early, Taken, PidDue, InfoTaken, After
<1>11. \A w \in Proc : Kinds(w)' /\ Written(w)'
  <2>1. /\ Read(p)' => Read(p)
        /\ PidDue(p)' <=> PidDue(p)
        /\ InfoTaken(p)' <=> InfoTaken(p)
    BY <1>1, <1>5 DEF Read, Alive, Ended, PidDue, InfoTaken, After
  <2>2. Kinds(p)'
    <3>1. /\ Kinds(p) /\ InfoAt(p) = 2 /\ mpc[p] \notin After \cup {"dead"}
          /\ stream[p] \in Seq(Message) /\ Len(stream[p]) = 0 /\ PidDue(p)
      BY <1>1, <1>5 DEF IInv, After, InfoAt
    <3>2. Read(p)' => Read(p) /\ stream'[p] = Append(stream[p], m)
      BY <1>3, <2>1
    <3> QED
      BY <1>1, <1>2, <2>1, <3>1, <3>2, AppendKept
  <2>3. Written(p)'
    <3>1. mpc'[p] = "join"
      BY <1>1, <1>5
    <3>2. Read(p)' => stream'[p] # <<>>
      <4>1. Append(stream[p], m) # <<>>
        BY <1>2, <1>5, AppendOf
      <4> QED
        BY <1>3, <2>1, <4>1
    <3> QED
      BY <3>1, <3>2 DEF Written, After
  <2>4. ASSUME NEW w \in Proc, w # p PROVE Quiet(w)
    BY <1>1, <1>3, <1>5, <2>4 DEF Quiet, Read, Alive, Ended, PidDue, InfoTaken, After
  <2> QED
    BY <2>2, <2>3, <2>4, QuietKept DEF IInv
<1>12. \A q \in Proc : Same(q)'
  BY <1>1, <1>5, SameKept DEF IInv, After
<1> QED
  BY <1>4, <1>7, <1>8, <1>9, <1>10, <1>11, <1>12 DEF IInv

\* Describing the region: the description comes right after the pid.
LEMMA StepInform ==
  ASSUME IInv, NEW p \in Proc, Inform(p)
  PROVE  IInv'
<1> DEFINE m == [kind |-> "info", val |-> len[p]]
<1>1. /\ mpc[p] = "inform" /\ mpc' = [mpc EXCEPT ![p] = AfterMap] /\ Write(p, m)
      /\ AfterMap \in {"return", "register"} /\ (AfterMap = "return" => prog = "P1b")
      /\ UNCHANGED <<ports, hpc, conn, backlog, acc, first, prog, asked, len, entries>>
  BY DEF Inform, startVars, AfterMap
<1>2. len \in [Proc -> 0 .. IntMod \div 2] /\ IntMod \div 2 \in Nat
  BY StartupAssumption DEF IInv, TypeOK
<1>3. m \in Message /\ m.kind = "info" /\ m.val = len[p]
  BY <1>2 DEF Message
<1> HIDE DEF m
<1>4. /\ stream' \in [Proc -> Seq(Message)]
      /\ Read(p) => stream'[p] = Append(stream[p], m)
      /\ ~Read(p) => stream'[p] = stream[p] \/ stream'[p] = Append(stream[p], m)
      /\ \A w \in Proc : w # p => stream'[w] = stream[w]
  BY <1>1, <1>3, WriteEffect
<1>5. TypeOK'
  BY <1>1, <1>4 DEF IInv, TypeOK, HandshakeTypeOK
<1>6. /\ mpc \in [Proc -> {"off", "connect", "pid", "join", "inform", "register",
                           "alone", "loop", "return", "returned", "dead"}]
      /\ stream[p] \in Seq(Message) /\ Len(stream[p]) \in Nat
      /\ first[p] = 1 /\ Mapped(p) /\ ~InfoTaken(p) /\ hpc[p] \in {"done", "off"}
      /\ Kinds(p) /\ Written(p) /\ Places(p)
  <2>1. Places(p) /\ Taken(p) /\ Kinds(p) /\ Written(p)
    BY DEF IInv
  <2>2. first[p] = 1 /\ Mapped(p) /\ hpc[p] \in {"done", "off"}
    BY <1>1, <2>1 DEF Places
  <2>3. ~InfoTaken(p)
    BY <1>1, <2>1 DEF Taken, After
  <2> QED
    BY <2>1, <2>2, <2>3, LenProperties DEF IInv, TypeOK, HandshakeTypeOK
<1>7. Local(p)
  BY <1>1, <1>6 DEF Local
<1>8. \A q \in Proc : Places(q)'
  <2>1. Places(p)'
    BY <1>1, <1>6 DEF Places, Alive, Ended, After, Mapped
  <2> QED
    BY <1>7, <2>1, PlacesOther DEF IInv
<1>9. \A q \in Proc : Links(q)'
  BY <1>1, <1>6, LinksKept DEF IInv
<1>10. \A q \in Proc : Roles(q)'
  <2> SUFFICES ASSUME NEW q \in Proc PROVE Roles(q)'
    OBVIOUS
  <2>1. first[q] # Undecided => acc[q] \in Proc
    BY DEF IInv, Places
  <2> QED
    BY <1>1, <1>4, <1>6, <2>1 DEF IInv, Roles
<1>11. \A q \in Proc : Early(q)' /\ Taken(q)'
  BY <1>1, <1>4, <1>6 DEF IInv, Early, Taken, PidDue, InfoTaken, After
<1>12. \A w \in Proc : Kinds(w)' /\ Written(w)'
  <2>1. /\ Read(p)' => Read(p)
        /\ PidDue(p)' <=> PidDue(p)
        /\ InfoTaken(p)' <=> InfoTaken(p)
    BY <1>1, <1>6 DEF Read, Alive, Ended, PidDue, InfoTaken, After
  <2>2. Read(p) => Len(stream[p]) + 1 = InfoAt(p)
    <3> SUFFICES ASSUME Read(p) PROVE Len(stream[p]) + 1 = InfoAt(p)
      OBVIOUS
    <3>1. \A i \in 1 .. Len(stream[p]) : i = 1 /\ PidDue(p)
      BY <1>1, <1>6 DEF Kinds, After
    <3>2. PidDue(p) => Len(stream[p]) # 0
      BY <1>1, <1>6, EmptyOf DEF Written
    <3>3. Len(stream[p]) <= 1 /\ (~PidDue(p) => Len(stream[p]) = 0)
      BY <1>6, <3>1
    <3> QED
      BY <1>6, <3>2, <3>3 DEF InfoAt
  <2>3. Kinds(p)'
    <3>1. mpc'[p] \in After
      BY <1>1, <1>6 DEF After
    <3>2. Read(p)' => Read(p) /\ stream'[p] = Append(stream[p], m)
      BY <1>4, <2>1
    <3>3. ~(Len(stream[p]) = 0 /\ PidDue(p)) \/ ~Read(p)
      BY <2>2 DEF InfoAt
    <3> QED
      BY <1>1, <1>3, <1>6, <2>1, <2>2, <3>1, <3>2, <3>3, AppendKept
  <2>4. Written(p)'
    <3>1. InfoAt(p)' = InfoAt(p)
      BY <2>1 DEF InfoAt
    <3>2. Append(stream[p], m) # <<>> /\ Len(Append(stream[p], m)) = Len(stream[p]) + 1
      BY <1>3, <1>6, AppendOf
    <3> QED
      BY <1>4, <1>6, <2>1, <2>2, <3>1, <3>2 DEF Written
  <2>5. ASSUME NEW w \in Proc, w # p PROVE Quiet(w)
    BY <1>1, <1>4, <1>6, <2>5 DEF Quiet, Read, Alive, Ended, PidDue, InfoTaken, After
  <2> QED
    BY <2>3, <2>4, <2>5, QuietKept DEF IInv
<1>13. \A q \in Proc : Same(q)'
  <2> SUFFICES ASSUME NEW q \in Proc PROVE Same(q)'
    OBVIOUS
  <2>1. Same(q)
    BY DEF IInv
  <2> QED
    BY <1>1, <1>6, <2>1, SameKept DEF After
<1> QED
  BY <1>5, <1>8, <1>9, <1>10, <1>11, <1>12, <1>13 DEF IInv

\* Sending a request: pid and description are before it, or were read.
LEMMA StepSendRequest ==
  ASSUME IInv, NEW p \in Proc, SendRequest(p)
  PROVE  IInv'
<1> DEFINE m == [kind |-> "request", val |-> 0]
<1>1. /\ mpc[p] = "loop" /\ Write(p, m)
      /\ UNCHANGED <<ports, mpc, hpc, conn, backlog, acc, first, prog, asked, len, entries>>
  BY DEF SendRequest, startVars
<1>2. m \in Message /\ m.kind = "request"
  BY DEF Message
<1> HIDE DEF m
<1>3. /\ stream' \in [Proc -> Seq(Message)]
      /\ Read(p) => stream'[p] = Append(stream[p], m)
      /\ ~Read(p) => stream'[p] = stream[p] \/ stream'[p] = Append(stream[p], m)
      /\ \A w \in Proc : w # p => stream'[w] = stream[w]
  BY <1>1, <1>2, WriteEffect
<1>4. TypeOK'
  BY <1>1, <1>3 DEF IInv, TypeOK, HandshakeTypeOK
<1>5. /\ stream[p] \in Seq(Message) /\ Len(stream[p]) \in Nat
      /\ Kinds(p) /\ Written(p) /\ Places(p)
  BY LenProperties DEF IInv, TypeOK, HandshakeTypeOK
<1>6. Local(p)
  BY <1>1 DEF Local
<1>7. \A q \in Proc : Places(q)'
  <2>1. Places(p)'
    BY <1>1, <1>5 DEF Places, Alive, Ended, After, Mapped
  <2> QED
    BY <1>6, <2>1, PlacesOther DEF IInv
<1>8. \A q \in Proc : Links(q)'
  BY <1>1, LinksKept DEF IInv
<1>9. \A q \in Proc : Roles(q)'
  <2> SUFFICES ASSUME NEW q \in Proc PROVE Roles(q)'
    OBVIOUS
  <2>1. first[q] # Undecided => acc[q] \in Proc
    BY DEF IInv, Places
  <2> QED
    BY <1>1, <1>3, <2>1 DEF IInv, Roles
<1>10. \A q \in Proc : Early(q)' /\ Taken(q)'
  BY <1>1, <1>3 DEF IInv, Early, Taken, PidDue, InfoTaken, After
<1>11. \A w \in Proc : (Read(w)' <=> Read(w)) /\ (PidDue(w)' <=> PidDue(w))
                       /\ (InfoTaken(w)' <=> InfoTaken(w))
  BY <1>1 DEF Read, Alive, Ended, PidDue, InfoTaken
<1>12. \A w \in Proc : Kinds(w)' /\ Written(w)'
  <2>1. /\ mpc[p] \in After /\ first[p] # Undecided
        /\ mpc[p] \notin {"off", "connect", "pid", "dead"}
    BY <1>1, <1>5 DEF Places, After
  <2>2. Read(p) => /\ PidDue(p) => Len(stream[p]) # 0
                   /\ first[p] = 1 /\ ~InfoTaken(p) => Len(stream[p]) >= InfoAt(p)
    BY <1>5, <2>1, EmptyOf DEF Written
  <2>3. InfoAt(p)' = InfoAt(p) /\ InfoAt(p) \in {1, 2}
    BY <1>11 DEF InfoAt
  <2>4. Kinds(p)'
    <3>1. Read(p)' => Read(p) /\ stream'[p] = Append(stream[p], m)
      BY <1>3, <1>11
    <3>2. Read(p) => /\ ~(Len(stream[p]) = 0 /\ PidDue(p))
                     /\ ~(first[p] = 1 /\ Len(stream[p]) + 1 = InfoAt(p) /\ ~InfoTaken(p))
      BY <1>5, <2>2, <2>3
    <3>3. mpc'[p] = mpc[p]
      BY <1>1
    <3> QED
      BY <1>1, <1>2, <1>5, <1>11, <2>1, <3>1, <3>2, <3>3, AppendKept
  <2>5. Written(p)'
    <3>1. Append(stream[p], m) # <<>> /\ Len(Append(stream[p], m)) = Len(stream[p]) + 1
      BY <1>2, <1>5, AppendOf
    <3> QED
      BY <1>1, <1>3, <1>5, <1>11, <2>1, <2>2, <2>3, <3>1 DEF Written
  <2>6. ASSUME NEW w \in Proc, w # p PROVE Quiet(w)
    BY <1>1, <1>3, <1>11, <2>6 DEF Quiet
  <2> QED
    BY <2>4, <2>5, <2>6, QuietKept DEF IInv
<1>13. \A q \in Proc : Same(q)'
  BY <1>1, SameKept DEF IInv
<1> QED
  BY <1>4, <1>7, <1>8, <1>9, <1>10, <1>12, <1>13 DEF IInv

\* Reading the pid: it tells the role, and leaves the description in front.
LEMMA StepReadPid ==
  ASSUME IInv, NEW p \in Proc, ReadPid(p) /\ UNCHANGED startVars
  PROVE  IInv'
<1>1. /\ hpc[p] = "read" /\ HasData(p) /\ Consume(p)
      /\ first' = [first EXCEPT ![p] = IF p < Head(stream[acc[p]]).val THEN 1 ELSE 0]
      /\ hpc' = [hpc EXCEPT ![p] = "done"]
      /\ UNCHANGED <<ports, mpc, conn, backlog, acc, prog, asked, len, entries>>
  BY DEF ReadPid, startVars
<1>2. /\ hpc \in [Proc -> {"off", "bind", "accept", "read", "done"}]
      /\ first \in [Proc -> {Undecided, 0, 1}]
  BY DEF IInv, TypeOK, HandshakeTypeOK
<1>3. Alive(p) /\ acc[p] \in Proc /\ first[p] = Undecided /\ mpc[p] \notin After
  BY <1>1 DEF IInv, Places
<1>4. PICK w \in Proc : w = acc[p]
  BY <1>3
<1>5. /\ conn[w] = p /\ Read(w) /\ \A q \in Proc : acc[q] = w => q = p
      /\ stream[w] \in Seq(Message) /\ 1 \in 1 .. Len(stream[w]) /\ stream[w] # <<>>
      /\ Head(stream[w]) = stream[w][1]
      /\ PidDue(w) /\ mpc[w] \notin {"off", "connect", "pid"}
  BY <1>1, <1>3, <1>4, Reader DEF HasData
<1>6. Kinds(w) /\ Written(w) /\ Places(w)
  BY DEF IInv
<1>7. Head(stream[w]).val = w
  BY <1>5, <1>6 DEF Kinds
<1>8. first'[p] = IF p < w THEN 1 ELSE 0
  BY <1>1, <1>2, <1>4, <1>7
<1>9. /\ stream' \in [Proc -> Seq(Message)]
      /\ stream'[w] = Tail(stream[w])
      /\ \A v \in Proc : v # w => stream'[v] = stream[v]
  BY <1>1, <1>3, <1>4, ReadEffect
<1>10. TypeOK'
  BY <1>1, <1>2, <1>8, <1>9 DEF IInv, TypeOK, HandshakeTypeOK
<1>11. Local(p)
  BY <1>1, <1>2 DEF Local
<1>12. \A q \in Proc : Places(q)'
  <2>1. Places(p)'
    BY <1>1, <1>2, <1>3, <1>8 DEF IInv, Places, Alive, Ended, After, Mapped
  <2> QED
    BY <1>11, <2>1, PlacesOther DEF IInv
<1>13. \A q \in Proc : Links(q)'
  BY <1>1, LinksKept DEF IInv
<1>14. \A q \in Proc : Roles(q)'
  <2>1. Roles(p)'
    BY <1>1, <1>4, <1>8 DEF Roles
  <2>2. ASSUME NEW q \in Proc, q # p PROVE Roles(q)'
    <3>1. first[q] # Undecided => acc[q] \in Proc /\ acc[q] # w
      BY <1>5, <2>2 DEF IInv, Places
    <3> QED
      BY <1>1, <1>2, <1>9, <2>2, <3>1 DEF IInv, Roles
  <2> QED
    BY <2>1, <2>2
<1>15. \A q \in Proc : (Read(q)' <=> Read(q)) /\ (InfoTaken(q)' <=> InfoTaken(q))
                       /\ (q # w => (PidDue(q)' <=> PidDue(q)))
  BY <1>1, <1>2, <1>3, <1>4 DEF Read, Alive, Ended, InfoTaken, PidDue
<1>16. ~PidDue(w)'
  BY <1>1, <1>4, <1>8 DEF PidDue
<1>17. \A q \in Proc : Early(q)' /\ Taken(q)'
  BY <1>1, <1>5, <1>9, <1>15 DEF IInv, Early, Taken
<1>18. \A v \in Proc : Kinds(v)' /\ Written(v)'
  <2>1. first'[w] = first[w] \/ first[w] = Undecided
    BY <1>1, <1>2, <1>3
  <2>2. Kinds(w)'
    BY <1>1, <1>5, <1>6, <1>9, <1>15, <1>16, <2>1, TailKept
  <2>3. Written(w)'
    <3>1. first'[w] = 1 /\ mpc[w] \in After => first[w] = 1
      BY <1>6, <2>1 DEF Places
    <3>2. Len(stream'[w]) = Len(stream[w]) - 1 /\ Len(stream[w]) \in Nat
      BY <1>5, <1>9, TailOf
    <3>3. InfoAt(w) = 2 /\ InfoAt(w)' = 1
      BY <1>5, <1>16 DEF InfoAt
    <3> QED
      BY <1>1, <1>5, <1>6, <1>15, <1>16, <3>1, <3>2, <3>3 DEF Written
  <2>4. ASSUME NEW v \in Proc, v # w PROVE Quiet(v)
    BY <1>1, <1>2, <1>3, <1>9, <1>15, <2>4 DEF Quiet
  <2> QED
    BY <2>2, <2>3, <2>4, QuietKept DEF IInv
<1>19. \A q \in Proc : Same(q)'
  <2> SUFFICES ASSUME NEW q \in Proc PROVE Same(q)'
    OBVIOUS
  <2>1. Same(q)
    BY DEF IInv
  <2> QED
    BY <1>1, <1>2, <1>3, <2>1, SameKept
<1> QED
  BY <1>10, <1>12, <1>13, <1>14, <1>17, <1>18, <1>19 DEF IInv

\* Serving a request: no description is left in front of it.
LEMMA StepServeRequest ==
  ASSUME IInv, NEW p \in Proc, ServeRequest(p)
  PROVE  IInv'
<1>1. /\ mpc[p] = "loop" /\ HasData(p) /\ Consume(p)
      /\ UNCHANGED <<ports, mpc, hpc, conn, backlog, acc, first, prog, asked, len, entries>>
  BY DEF ServeRequest, startVars
<1>2. Alive(p) /\ acc[p] \in Proc
  BY <1>1 DEF IInv, Places, Alive, Ended, After
<1>3. PICK w \in Proc : w = acc[p]
  BY <1>2
<1>4. /\ Read(w) /\ \A q \in Proc : acc[q] = w => q = p
      /\ stream[w] \in Seq(Message) /\ stream[w] # <<>>
      /\ ~PidDue(w) /\ mpc[w] \notin {"off", "connect", "pid"}
      /\ first[p] # Undecided /\ (first[w] = 1 => InfoTaken(w))
      /\ Kinds(w) /\ Written(w)
  BY <1>1, <1>2, <1>3, Reader, DecidedReader DEF HasData, IInv
<1>5. /\ stream' \in [Proc -> Seq(Message)]
      /\ stream'[w] = Tail(stream[w])
      /\ \A v \in Proc : v # w => stream'[v] = stream[v]
  BY <1>1, <1>2, <1>3, ReadEffect
<1>6. TypeOK'
  BY <1>1, <1>5 DEF IInv, TypeOK, HandshakeTypeOK
<1>7. Local(p)
  BY <1>1 DEF Local
<1>8. \A q \in Proc : Places(q)'
  BY <1>1 DEF IInv, Places, Alive, Ended, After, Mapped
<1>9. \A q \in Proc : Links(q)'
  BY <1>1, LinksKept DEF IInv
<1>10. \A q \in Proc : Roles(q)'
  <2> SUFFICES ASSUME NEW q \in Proc PROVE Roles(q)'
    OBVIOUS
  <2>1. /\ first[q] # Undecided => acc[q] \in Proc
        /\ acc[q] = w => stream[acc[q]] # <<>>
    BY <1>4 DEF IInv, Places
  <2> QED
    BY <1>1, <1>5, <2>1 DEF IInv, Roles
<1>11. \A q \in Proc : (Read(q)' <=> Read(q)) /\ (InfoTaken(q)' <=> InfoTaken(q))
                       /\ (PidDue(q)' <=> PidDue(q))
  BY <1>1 DEF Read, Alive, Ended, InfoTaken, PidDue
<1>12. \A q \in Proc : Early(q)' /\ Taken(q)'
  BY <1>1, <1>4, <1>5, <1>11 DEF IInv, Early, Taken
<1>13. \A v \in Proc : Kinds(v)' /\ Written(v)'
  <2>1. Kinds(w)'
    BY <1>1, <1>4, <1>5, <1>11, TailKept
  <2>2. Written(w)'
    BY <1>1, <1>4, <1>11 DEF Written
  <2>3. ASSUME NEW v \in Proc, v # w PROVE Quiet(v)
    BY <1>1, <1>5, <1>11, <2>3 DEF Quiet
  <2> QED
    BY <2>1, <2>2, <2>3, QuietKept DEF IInv
<1>14. \A q \in Proc : Same(q)'
  BY <1>1, SameKept DEF IInv
<1> QED
  BY <1>6, <1>8, <1>9, <1>10, <1>12, <1>13, <1>14 DEF IInv

\* The second process takes the description (Receive, or ReceiveAnything with
\* something to read).
Takes(p) ==
  /\ Joined(p) /\ first[p] = 0 /\ HasData(p) /\ Consume(p)
  /\ len' = [len EXCEPT ![p] = Head(stream[acc[p]]).val]
  /\ entries' \in [Proc -> Nat] /\ (prog = "P2" => entries'[p] = len'[p] \div PageSize)
  /\ \A q \in Proc : q # p => entries'[q] = entries[q]
  /\ mpc' = [mpc EXCEPT ![p] = IF prog = "P1b" THEN "return" ELSE "register"]
  /\ UNCHANGED <<ports, hpc, conn, backlog, acc, first, prog, asked>>

\* It then has the length of its peer's region.
LEMMA StepTakes ==
  ASSUME IInv, NEW p \in Proc, Takes(p)
  PROVE  IInv'
<1>1. /\ Joined(p) /\ first[p] = 0 /\ HasData(p) /\ Consume(p)
      /\ mpc' = [mpc EXCEPT ![p] = IF prog = "P1b" THEN "return" ELSE "register"]
      /\ UNCHANGED <<ports, hpc, conn, backlog, acc, first, prog, asked>>
  BY DEF Takes
<1>2. /\ mpc \in [Proc -> {"off", "connect", "pid", "join", "inform", "register",
                           "alone", "loop", "return", "returned", "dead"}]
      /\ len \in [Proc -> 0 .. IntMod \div 2]
  BY DEF IInv, TypeOK
<1>3. Alive(p) /\ acc[p] \in Proc /\ mpc[p] = "join" /\ hpc[p] = "done"
  BY <1>1 DEF IInv, Places, Joined, Alive, Ended
<1>4. PICK w \in Proc : w = acc[p]
  BY <1>3
<1>5. /\ Read(w) /\ \A q \in Proc : acc[q] = w => q = p
      /\ stream[w] \in Seq(Message) /\ stream[w] # <<>>
      /\ ~PidDue(w) /\ mpc[w] \in After \cup {"dead"} /\ w = 1 - p /\ first[w] = 1
      /\ ~InfoTaken(w) /\ Head(stream[w]).val = len[w] /\ Mapped(w)
      /\ Kinds(w) /\ Written(w)
  BY <1>1, <1>3, <1>4, Reader, DecidedReader DEF HasData, IInv
<1>6. /\ stream' \in [Proc -> Seq(Message)]
      /\ stream'[w] = Tail(stream[w])
      /\ \A v \in Proc : v # w => stream'[v] = stream[v]
  BY <1>1, <1>3, <1>4, ReadEffect
<1>7. /\ len' = [len EXCEPT ![p] = len[w]] /\ entries' \in [Proc -> Nat]
      /\ prog = "P2" => entries'[p] = len'[p] \div PageSize
      /\ entries'[w] = entries[w]
  <2>1. Head(stream[acc[p]]).val = len[w] /\ w # p
    BY <1>4, <1>5
  <2> QED
    BY <2>1 DEF Takes
<1>8. TypeOK'
  BY <1>1, <1>2, <1>6, <1>7 DEF IInv, TypeOK, HandshakeTypeOK
<1>9. Local(p)
  BY <1>1, <1>2, <1>7 DEF Local, Takes
<1>10. Mapped(p)' /\ Mapped(w)' /\ len'[p] = len'[w] /\ len'[w] = len[w]
  <2>1. len'[p] = len[w] /\ len'[w] = len[w]
    BY <1>2, <1>5, <1>7
  <2>2. prog = "P2" => len[w] \div PageSize >= 1
    BY <1>5 DEF Mapped
  <2>3. prog = "P2" => entries'[p] \in Nat /\ entries'[p] = len[w] \div PageSize
    BY <1>7, <2>1
  <2> QED
    BY <1>1, <1>5, <1>7, <2>1, <2>2, <2>3 DEF Mapped
<1>11. \A q \in Proc : Places(q)'
  <2>1. Places(p)'
    BY <1>1, <1>2, <1>3 DEF IInv, Places, Alive, Ended, After, Joined
  <2> QED
    BY <1>9, <2>1, PlacesOther DEF IInv
<1>12. \A q \in Proc : Links(q)'
  BY <1>1, <1>2, LinksKept DEF IInv
<1>13. \A q \in Proc : Roles(q)'
  <2> SUFFICES ASSUME NEW q \in Proc PROVE Roles(q)'
    OBVIOUS
  <2>1. /\ first[q] # Undecided => acc[q] \in Proc
        /\ acc[q] = w => stream[acc[q]] # <<>>
        /\ mpc[p] # "dead"
    BY <1>3, <1>5 DEF IInv, Places
  <2> QED
    BY <1>1, <1>2, <1>6, <2>1 DEF IInv, Roles
<1>14. \A q \in Proc : /\ Read(q)' <=> Read(q)
                       /\ PidDue(q)' <=> PidDue(q)
                       /\ q # w => (InfoTaken(q)' <=> InfoTaken(q))
  BY <1>1, <1>2, <1>3, <1>4 DEF Read, Alive, Ended, InfoTaken, PidDue, After
<1>15. InfoTaken(w)'
  BY <1>1, <1>2, <1>4 DEF InfoTaken, After
<1>16. \A q \in Proc : Early(q)' /\ Taken(q)'
  BY <1>1, <1>2, <1>3, <1>5, <1>6, <1>14 DEF IInv, Early, Taken, After
<1>17. \A v \in Proc : Kinds(v)' /\ Written(v)'
  <2>1. mpc'[w] = mpc[w] /\ w # p
    BY <1>1, <1>2, <1>3, <1>5
  <2>2. Kinds(w)'
    BY <1>1, <1>5, <1>6, <1>7, <1>10, <1>14, <1>15, <2>1, TailKept
  <2>3. Written(w)'
    BY <1>5, <1>14, <1>15 DEF Written
  <2>4. Quiet(p)
    BY <1>1, <1>2, <1>3, <1>6, <1>14, <2>1 DEF Quiet, After
  <2> QED
    BY <1>5, <2>2, <2>3, <2>4, QuietKept DEF IInv
<1>18. \A q \in Proc : Same(q)'
  <2>1. Same(p)'
    BY <1>1, <1>2, <1>3, <1>4, <1>5, <1>10 DEF Same
  <2>2. Same(w)'
    BY <1>1, <1>5 DEF Same
  <2> QED
    BY <1>5, <2>1, <2>2
<1> QED
  BY <1>8, <1>11, <1>12, <1>13, <1>16, <1>17, <1>18 DEF IInv

\* Both ways to receive with something to read are such steps.
LEMMA ReceiveTakes ==
  ASSUME IInv, NEW p \in Proc,
         Receive(p) \/ (ReceiveAnything(p) /\ ~AtEnd(p))
  PROVE  Takes(p)
<1>1. len \in [Proc -> 0 .. IntMod \div 2] /\ entries \in [Proc -> Nat]
  BY DEF IInv, TypeOK
<1>2. CASE Receive(p)
  <2>1. /\ Joined(p) /\ first[p] = 0 /\ HasData(p) /\ Consume(p) /\ prog # "P1b"
        /\ len' = [len EXCEPT ![p] = Head(stream[acc[p]]).val]
        /\ entries' = [entries EXCEPT ![p] =
             IF prog = "P2" THEN Head(stream[acc[p]]).val \div PageSize ELSE 0]
        /\ mpc' = [mpc EXCEPT ![p] = "register"]
        /\ UNCHANGED <<ports, hpc, conn, backlog, acc, first, prog, asked>>
    BY <1>2 DEF Receive, MakeEntries
  <2>2. PICK w \in Proc : w = acc[p]
    BY <2>1 DEF IInv, Places, Joined
  <2>3. Head(stream[acc[p]]).val = len[w]
    BY <2>1, <2>2, DecidedReader DEF HasData
  <2>4. len[w] \in Nat /\ len[w] \div PageSize \in Nat /\ len'[p] = len[w]
    BY <1>1, <2>1, <2>3, StartupAssumption
  <2> QED
    BY <1>1, <2>1, <2>3, <2>4 DEF Takes
<1>3. CASE ReceiveAnything(p) /\ ~AtEnd(p)
  BY <1>1, <1>3 DEF ReceiveAnything, Takes
<1> QED
  BY <1>2, <1>3

\* The peer of a second process that waits and finds the end of its
\* connection was killed: one that returned has left its description.
LEMMA EndedPeer ==
  ASSUME IInv, NEW p \in Proc, Joined(p), first[p] = 0, AtEnd(p),
         NEW w \in Proc, w = acc[p]
  PROVE  w # p /\ mpc[w] = "dead" /\ stream[w] = <<>>
<1>1. /\ mpc[p] = "join" /\ hpc[p] = "done" /\ Alive(p)
      /\ Ended(w) /\ stream[w] = <<>> /\ Len(stream[w]) = 0
  BY EmptySeq DEF Joined, AtEnd, Alive, Ended
<1>2. w # p
  BY <1>1 DEF Alive
<1>3. conn[w] = p /\ Read(w) /\ \A q \in Proc : acc[q] = w => q = p
  BY <1>1 DEF IInv, Links, Read
<1>4. mpc[w] # "returned"
  <2> SUFFICES ASSUME mpc[w] = "returned" PROVE FALSE
    OBVIOUS
  <2>1. Places(w) /\ Roles(w) /\ Roles(p) /\ Written(w) /\ Links(p)
    BY DEF IInv
  <2>2. first[w] # Undecided /\ acc[w] \in Proc
    BY <2>1 DEF Places, After
  <2>3. acc[w] = p
    BY <1>2, <1>3, <2>2
  <2>4. w < p
    BY <1>1, <1>2, <2>1 DEF Roles
  <2>5. first[w] = 1
    BY <1>1, <2>1, <2>2, <2>3, <2>4 DEF Roles
  <2>6. ~InfoTaken(w)
    BY <1>1, <1>3 DEF InfoTaken, After
  <2> QED
    BY <1>1, <1>3, <2>1, <2>5, <2>6 DEF Written, InfoAt, After
<1> QED
  BY <1>1, <1>2, <1>4 DEF Ended

\* P1b takes what its stack holds for the description: its peer was killed.
LEMMA StepTakesGarbage ==
  ASSUME IInv, NEW p \in Proc, ReceiveAnything(p), AtEnd(p)
  PROVE  IInv'
<1>1. PICK garbage \in {Bytes(n) : n \in Answers} \cap Nat :
        /\ Joined(p) /\ first[p] = 0 /\ prog = "P1b"
        /\ len' = [len EXCEPT ![p] = garbage]
        /\ mpc' = [mpc EXCEPT ![p] = "return"]
        /\ UNCHANGED <<ports, hpc, conn, backlog, acc, stream, first, prog, asked, entries>>
  BY DEF ReceiveAnything, HasData, AtEnd
<1>2. garbage \in 0 .. IntMod \div 2
  BY BytesBounds, StartupAssumption
<1>3. /\ mpc \in [Proc -> {"off", "connect", "pid", "join", "inform", "register",
                           "alone", "loop", "return", "returned", "dead"}]
      /\ len \in [Proc -> 0 .. IntMod \div 2]
  BY DEF IInv, TypeOK
<1>4. Alive(p) /\ acc[p] \in Proc /\ mpc[p] = "join" /\ hpc[p] = "done"
  BY <1>1 DEF IInv, Places, Joined, Alive, Ended
<1>5. PICK w \in Proc : w = acc[p]
  BY <1>4
<1>6. w # p /\ w = 1 - p /\ mpc[w] = "dead" /\ stream[w] = <<>> /\ Len(stream[w]) = 0
  BY <1>1, <1>5, EndedPeer, EmptySeq
<1>7. TypeOK'
  BY <1>1, <1>2, <1>3 DEF IInv, TypeOK, HandshakeTypeOK
<1>8. Local(p)
  BY <1>1, <1>3 DEF Local
<1>9. \A q \in Proc : Places(q)'
  <2>1. Places(p)'
    BY <1>1, <1>3, <1>4 DEF IInv, Places, Alive, Ended, After, Joined
  <2> QED
    BY <1>8, <2>1, PlacesOther DEF IInv
<1>10. \A q \in Proc : Links(q)'
  BY <1>1, <1>3, LinksKept DEF IInv
<1>11. \A q \in Proc : Roles(q)'
  <2> SUFFICES ASSUME NEW q \in Proc PROVE Roles(q)'
    OBVIOUS
  <2>1. first[q] # Undecided => acc[q] \in Proc
    BY DEF IInv, Places
  <2> QED
    BY <1>1, <1>3, <1>4, <2>1 DEF IInv, Roles
<1>12. \A q \in Proc : /\ Read(q)' <=> Read(q)
                       /\ PidDue(q)' <=> PidDue(q)
                       /\ q # w => (InfoTaken(q)' <=> InfoTaken(q))
  BY <1>1, <1>3, <1>4, <1>5 DEF Read, Alive, Ended, InfoTaken, PidDue, After
<1>13. \A q \in Proc : Early(q)' /\ Taken(q)'
  BY <1>1, <1>3, <1>4, <1>6, <1>12 DEF IInv, Early, Taken, After
<1>14. \A v \in Proc : Kinds(v)' /\ Written(v)'
  <2>1. mpc'[w] = "dead" /\ stream'[w] = <<>> /\ Len(stream'[w]) = 0
    BY <1>1, <1>3, <1>6
  <2>2. Kinds(w)' /\ Written(w)'
    BY <2>1 DEF Kinds, Written, After
  <2>3. Quiet(p)
    BY <1>1, <1>3, <1>4, <1>6, <1>12 DEF Quiet, After
  <2> QED
    BY <1>6, <2>2, <2>3, QuietKept DEF IInv
<1>15. \A q \in Proc : Same(q)'
  <2>1. Same(p)'
    BY <1>1, <1>3, <1>6 DEF Same
  <2>2. Same(w)'
    BY <1>1, <1>3, <1>6 DEF Same, After
  <2> QED
    BY <1>6, <2>1, <2>2
<1> QED
  BY <1>7, <1>9, <1>10, <1>11, <1>13, <1>14, <1>15 DEF IInv

\* All ends by exit or a signal are such steps.
LEMMA DeathsDie ==
  ASSUME IInv, NEW p \in Proc,
         \/ (BindFails(p) \/ Killed(p)) /\ UNCHANGED startVars
         \/ MapFails(p) \/ ReceiveEnd(p) \/ ServerEnd(p)
  PROVE  Dies(p)
<1>1. hpc[p] # "off" => Alive(p)
  BY DEF IInv, Places
<1>2. mpc[p] = "loop" => Alive(p)
  BY DEF Alive, Ended
<1> QED
  BY <1>1, <1>2 DEF BindFails, Killed, MapFails, ReceiveEnd, ServerEnd, Joined, Dies, startVars

-----------------------------------------------------------------------------
(* The theorems                                                            *)

\* Before the programs are started nothing is connected, written or mapped.
LEMMA InitIInv == Init => IInv
<1> SUFFICES ASSUME Init PROVE IInv
  OBVIOUS
<1> USE DEF Init, HandshakeInit
<1>1. TypeOK
  BY StartupAssumption, EmptySeq DEF TypeOK, HandshakeTypeOK
<1>2. \A p \in Proc : Places(p) /\ Links(p) /\ Roles(p)
  BY EmptySeq DEF Places, Links, Roles, Alive, Ended, After
<1>3. \A p \in Proc : Early(p) /\ Kinds(p) /\ Written(p) /\ Taken(p)
  BY EmptySeq DEF Early, Kinds, Written, Taken, Read, PidDue, InfoTaken, After
<1>4. \A p \in Proc : Same(p)
  BY DEF Same, After
<1> QED
  BY <1>1, <1>2, <1>3, <1>4 DEF IInv

\* Every step keeps the invariant.
LEMMA StepIInv == IInv /\ [Next]_vars => IInv'
<1> SUFFICES ASSUME IInv, [Next]_vars PROVE IInv'
  OBVIOUS
<1>1. CASE UNCHANGED vars
  BY <1>1 DEF vars, hsVars, startVars, IInv, TypeOK, HandshakeTypeOK, Places, Links, Roles,
              Early, Kinds, Written, Taken, Same, Read, PidDue, InfoTaken, InfoAt, Mapped,
              Alive, Ended
<1>2. CASE Next
  <2>1. PICK p \in Proc : \/ Start(p)
                          \/ BindFails(p) /\ UNCHANGED startVars
                          \/ Answer(p)
                          \/ Step(p)
                          \/ SendRequest(p)
                          \/ Killed(p) /\ UNCHANGED startVars
    BY <1>2 DEF Next
  <2>2. CASE \/ (BindFails(p) \/ Killed(p)) /\ UNCHANGED startVars
             \/ MapFails(p) \/ ReceiveEnd(p) \/ ServerEnd(p)
    BY <2>2, DeathsDie, StepDies
  <2>3. CASE Start(p) \/ SendRequest(p)
    BY <2>3, StepStart, StepSendRequest
  <2>4. CASE \E n \in Answers : MapFirst(p, n)
    BY <2>4, StepMapFirst
  <2>5. CASE HandshakeStep(p) /\ UNCHANGED startVars
    BY <2>5, StepBind, StepConnect, StepSendPid, StepAccept, StepReadPid, StepReadNoPid
       DEF HandshakeStep
  <2>6. CASE Receive(p) \/ ReceiveAnything(p)
    BY <2>6, ReceiveTakes, StepTakes, StepTakesGarbage
  <2>7. CASE Inform(p) \/ Return(p) \/ Separate(p) \/ Register(p) \/ ServeRequest(p)
    BY <2>7, StepInform, StepReturn, StepSeparate, StepRegister, StepServeRequest
  <2> QED
    BY <2>1, <2>2, <2>3, <2>4, <2>5, <2>6, <2>7 DEF Answer, Step
<1> QED
  BY <1>1, <1>2

\* The invariant holds throughout.
LEMMA Invariant == Spec => []IInv
  BY InitIInv, StepIInv, PTL DEF Spec

\* Every variable keeps its type; in particular a length that was received is
\* one that an int holds.
THEOREM TypeCorrect == Spec => []TypeOK
<1>1. IInv => TypeOK
  BY DEF IInv
<1> QED
  BY <1>1, Invariant, PTL

\* Two processes on each other's ports that both know their role have
\* different roles, unless one was killed.
THEOREM OneFirst == Spec => []RolesDiffer
<1>1. IInv => RolesDiffer
  <2> SUFFICES ASSUME IInv, Crossed, \A p \in Proc : mpc[p] # "dead" /\ first[p] # Undecided
      PROVE  first[0] # first[1]
    BY DEF RolesDiffer
  <2>1. ASSUME NEW p \in Proc PROVE acc[p] = 1 - p
    <3>1. acc[p] \in Proc
      BY DEF IInv, Places
    <3>2. conn[acc[p]] = p
      BY <3>1 DEF IInv, Links
    <3>3. ports[p].listen = ports[acc[p]].send
      BY <3>1, <3>2 DEF IInv, Links
    <3> QED
      BY <3>1, <3>3 DEF Crossed
  <2>2. ASSUME NEW p \in Proc PROVE first[p] = 1 <=> p < 1 - p
    BY <2>1 DEF IInv, Roles
  <2> QED
    BY <2>2
<1> QED
  BY <1>1, Invariant, PTL

\* A handshake thread finds a pid, the second process the description of the
\* region and a server a request, although nothing separates them and the
\* writer may be ahead of the reader.
THEOREM FramesFound == Spec => []FramesMatch
<1>1. IInv => FramesMatch
  <2> SUFFICES ASSUME IInv PROVE FramesMatch
    OBVIOUS
  <2>1. PidFirst
    <3> SUFFICES ASSUME NEW p \in Proc, hpc[p] = "read", HasData(p)
        PROVE  Head(stream[acc[p]]).kind = "pid"
      BY DEF PidFirst
    <3>1. Alive(p) /\ acc[p] \in Proc /\ first[p] = Undecided
      BY DEF IInv, Places
    <3>2. PICK w \in Proc : w = acc[p]
      BY <3>1
    <3>3. Read(w) /\ PidDue(w) /\ 1 \in 1 .. Len(stream[w]) /\ Head(stream[w]) = stream[w][1]
      BY <3>1, <3>2, Reader DEF HasData
    <3> QED
      BY <3>2, <3>3 DEF IInv, Kinds
  <2>2. ASSUME NEW p \in Proc, acc[p] # Nobody, HasData(p)
        PROVE  /\ Joined(p) /\ first[p] = 0 => Head(stream[acc[p]]).kind = "info"
               /\ mpc[p] = "loop" => Head(stream[acc[p]]).kind = "request"
    <3>1. acc[p] \in Proc
      BY <2>2 DEF IInv, TypeOK, HandshakeTypeOK
    <3> QED
      BY <2>2, <3>1, DecidedReader DEF HasData
  <2> QED
    BY <2>1, <2>2 DEF FramesMatch
<1> QED
  BY <1>1, Invariant, PTL

\* A second process that has mapped a region has mapped the length its peer
\* mapped, at least a page, wherever page_size * pages wrapped; in P2 no page
\* that a command loop accepts lies outside either msi_array.
THEOREM RegionShared == Spec => []SameRegion
<1>1. IInv => SameRegion
  <2> SUFFICES ASSUME IInv, NEW p \in Proc, first[p] = 0,
                      mpc[p] \in {"register", "alone", "loop", "return", "returned"},
                      prog = "P1b" => mpc[1 - p] # "dead"
      PROVE  /\ len[0] = len[1]
             /\ len[p] >= PageSize
             /\ prog = "P2" => \A q \in Proc : len[q] \div PageSize \in 1 .. entries[q]
    BY DEF SameRegion
  <2>1. Same(p)
    BY DEF IInv
  <2>2. len[p] = len[1 - p] /\ Mapped(p) /\ Mapped(1 - p)
    BY <2>1 DEF Same, After
  <2> QED
    BY <2>2 DEF Mapped
<1> QED
  BY <1>1, Invariant, PTL
=============================================================================
