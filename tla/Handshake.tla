----------------------------- MODULE Handshake -----------------------------
(***************************************************************************)
(* How two processes of HW3 find each other (s2dsm_P1b.c, and unchanged in *)
(* s2dsm_P1c.c and s2dsm_P2.c).  main starts a handshake thread that       *)
(* listens on the first port, and itself connects to the second port,      *)
(* retrying until somebody listens there.  Each sends its pid over the     *)
(* connection it made and reads one from the connection it accepted; the   *)
(* process with the smaller pid becomes the first.                         *)
(*                                                                         *)
(* Process p has pid p.  What main does after pthread_join is left to the  *)
(* modules that extend this one: a main whose role is decided is Joined.   *)
(***************************************************************************)
EXTENDS Integers, Sequences

CONSTANTS
  Configs    \* the port arguments of the two processes, one record per process

Proc == {0, 1}
Nobody == 2          \* no process
Undecided == -1      \* first_process before the handshake

ASSUME ConfigsAssumption ==
  \A c \in Configs : \A p \in Proc : c[p].listen \in Nat /\ c[p].send \in Nat

VARIABLES
  ports,     \* ports[p]: the two arguments of p
  mpc,       \* mpc[p]: where main is
  hpc,       \* hpc[p]: where the handshake thread is
  conn,      \* conn[p]: the process p's connect_socket reaches
  backlog,   \* backlog[p]: processes connected to p and not accepted yet
  acc,       \* acc[p]: the process behind p's accepted_socket
  stream,    \* stream[p]: what p has written to connect_socket, unread
  first      \* first[p]: first_process

hsVars == <<ports, mpc, hpc, conn, backlog, acc, stream, first>>

\* A process has ended when one of its threads called exit ("dead") or its
\* main returned.
Ended(p) == mpc[p] \in {"dead", "returned"}
Alive(p) == mpc[p] # "off" /\ ~Ended(p)

HandshakeInit ==
  /\ ports \in Configs
  /\ mpc = [p \in Proc |-> "off"]
  /\ hpc = [p \in Proc |-> "off"]
  /\ conn = [p \in Proc |-> Nobody]
  /\ backlog = [p \in Proc |-> <<>>]
  /\ acc = [p \in Proc |-> Nobody]
  /\ stream = [p \in Proc |-> <<>>]
  /\ first = [p \in Proc |-> Undecided]

\* p ends, and its listening socket with it.
End(p, how) ==
  /\ mpc' = [mpc EXCEPT ![p] = how]
  /\ hpc' = [hpc EXCEPT ![p] = "off"]

Die(p) == End(p, "dead")

\* write(connect_socket): nobody reads what is sent to a dead process.
Write(p, msg) ==
  stream' = IF Alive(conn[p]) THEN [stream EXCEPT ![p] = Append(@, msg)] ELSE stream

\* read(accepted_socket) has data, or has reached the end of the connection.
HasData(p) == stream[acc[p]] # <<>>
AtEnd(p) == Ended(acc[p]) /\ stream[acc[p]] = <<>>

Consume(p) == stream' = [stream EXCEPT ![acc[p]] = Tail(@)]

\* The user starts the program: main creates the handshake thread.
Launch(p) ==
  /\ mpc[p] = "off"
  /\ mpc' = [mpc EXCEPT ![p] = "connect"]
  /\ hpc' = [hpc EXCEPT ![p] = "bind"]
  /\ UNCHANGED <<ports, conn, backlog, acc, stream, first>>

Bind(p) ==
  /\ hpc[p] = "bind"
  /\ hpc' = [hpc EXCEPT ![p] = "accept"]
  /\ UNCHANGED <<ports, mpc, conn, backlog, acc, stream, first>>

\* The port is taken by another program.  (The two processes themselves may
\* share a port: the option set is SO_REUSEPORT.)
BindFails(p) ==
  /\ hpc[p] = "bind"
  /\ Die(p)
  /\ UNCHANGED <<ports, conn, backlog, acc, stream, first>>

\* Faulty variant of Connect: main first waits for the handshake thread.
ConnectAfterJoin(p) ==
  /\ mpc[p] = "connect"
  /\ hpc[p] = "done"
  /\ \E q \in Proc :
       /\ hpc[q] \in {"accept", "read", "done"}
       /\ ports[q].listen = ports[p].send
       /\ conn' = [conn EXCEPT ![p] = q]
       /\ backlog' = [backlog EXCEPT ![q] = Append(@, p)]
  /\ mpc' = [mpc EXCEPT ![p] = "pid"]
  /\ UNCHANGED <<ports, hpc, acc, stream, first>>

\* connect() succeeds as soon as anyone, p itself included, listens on the
\* port; the listening socket is never closed.
Connect(p) ==
  /\ mpc[p] = "connect"
  /\ \E q \in Proc :
       /\ hpc[q] \in {"accept", "read", "done"}
       /\ ports[q].listen = ports[p].send
       /\ conn' = [conn EXCEPT ![p] = q]
       /\ backlog' = [backlog EXCEPT ![q] = Append(@, p)]
  /\ mpc' = [mpc EXCEPT ![p] = "pid"]
  /\ UNCHANGED <<ports, hpc, acc, stream, first>>

SendPid(p) ==
  /\ mpc[p] = "pid"
  /\ Write(p, [kind |-> "pid", val |-> p])
  /\ mpc' = [mpc EXCEPT ![p] = "join"]
  /\ UNCHANGED <<ports, hpc, conn, backlog, acc, first>>

Accept(p) ==
  /\ hpc[p] = "accept"
  /\ backlog[p] # <<>>
  /\ acc' = [acc EXCEPT ![p] = Head(backlog[p])]
  /\ backlog' = [backlog EXCEPT ![p] = Tail(@)]
  /\ hpc' = [hpc EXCEPT ![p] = "read"]
  /\ UNCHANGED <<ports, mpc, conn, stream, first>>

\* Faulty variant of ReadPid: the process that connected first wins.
ReadPidByArrival(p) ==
  /\ hpc[p] = "read"
  /\ HasData(p)
  /\ first' = [first EXCEPT ![p] = IF mpc[p] = "join" THEN 1 ELSE 0]
  /\ Consume(p)
  /\ hpc' = [hpc EXCEPT ![p] = "done"]
  /\ UNCHANGED <<ports, mpc, conn, backlog, acc>>

ReadPid(p) ==
  /\ hpc[p] = "read"
  /\ HasData(p)
  /\ first' = [first EXCEPT ![p] = IF p < Head(stream[acc[p]]).val THEN 1 ELSE 0]
  /\ Consume(p)
  /\ hpc' = [hpc EXCEPT ![p] = "done"]
  /\ UNCHANGED <<ports, mpc, conn, backlog, acc>>

\* The peer died before sending its pid: read() returns 0 and the pid
\* compared is whatever malloc returned.
ReadNoPid(p) ==
  /\ hpc[p] = "read"
  /\ AtEnd(p)
  /\ first' \in {[first EXCEPT ![p] = r] : r \in {0, 1}}
  /\ hpc' = [hpc EXCEPT ![p] = "done"]
  /\ UNCHANGED <<ports, mpc, conn, backlog, acc, stream>>

\* pthread_join returns: main goes on with its role known.
Joined(p) == mpc[p] = "join" /\ hpc[p] = "done"

HandshakeStep(p) ==
  \/ Bind(p) \/ Connect(p) \/ SendPid(p) \/ Accept(p) \/ ReadPid(p) \/ ReadNoPid(p)

\* A process may end at any moment: killed, interrupted by its user, or by
\* SIGPIPE when it writes to a connection whose peer is gone.
Killed(p) ==
  /\ Alive(p)
  /\ Die(p)
  /\ UNCHANGED <<ports, conn, backlog, acc, stream, first>>

-----------------------------------------------------------------------------
Message == [kind : {"pid", "info", "request"}, val : Int]

HandshakeTypeOK ==
  /\ ports \in Configs
  /\ hpc \in [Proc -> {"off", "bind", "accept", "read", "done"}]
  /\ conn \in [Proc -> Proc \cup {Nobody}]
  /\ backlog \in [Proc -> Seq(Proc)]
  /\ acc \in [Proc -> Proc \cup {Nobody}]
  /\ stream \in [Proc -> Seq(Message)]
  /\ first \in [Proc -> {Undecided, 0, 1}]

\* Each process listens on the port the other sends to.
Crossed ==
  /\ ports[0].listen = ports[1].send /\ ports[1].listen = ports[0].send
  /\ ports[0].listen # ports[1].listen

\* Started on each other's ports, two processes that both know their role have
\* different roles, however their connections and pids interleave, unless one
\* of them was killed: the other may then have read no pid at all.
RolesDiffer ==
  Crossed /\ (\A p \in Proc : mpc[p] # "dead" /\ first[p] # Undecided) => first[0] # first[1]

\* The connection carries no framing: a pid, the description of the region
\* and requests follow each other as raw structures.  A handshake thread that
\* is about to read finds a pid at the head, never the message that follows.
PidFirst ==
  \A p \in Proc : hpc[p] = "read" /\ HasData(p) => Head(stream[acc[p]]).kind = "pid"
=============================================================================
