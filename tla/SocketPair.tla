----------------------------- MODULE SocketPair -----------------------------
(***************************************************************************)
(* HW1: server.c and client.c.  A server accepts one connection, waits for *)
(* a key, reads a message, answers and returns; a client connects once,    *)
(* waits for a key, sends its message, reads the answer and returns.       *)
(* Several clients may be started: those the server has not accepted stay  *)
(* in its queue until its end resets them.                                 *)
(***************************************************************************)
EXTENDS Integers, Sequences

CONSTANTS
  Clients,    \* the clients started
  Nobody,     \* no client
  QueueSize   \* connections the kernel completes before accept

ASSUME SocketAssumption == Nobody \notin Clients /\ QueueSize \in Nat \ {0}

VARIABLES
  spc,      \* where the server is
  queue,    \* clients connected and not accepted
  client,   \* the client behind new_socket
  heard,    \* what the server has printed: "nothing", "hello" or "empty"
  cpc,      \* cpc[c]: where client c is
  sent,     \* sent[c]: messages of c on its connection, unread
  answer,   \* answer[c]: messages to c on its connection, unread
  shown,    \* shown[c]: what c has printed, as heard, or "failed"
  killed    \* history: the programs killed, and the server if it failed

serverVars == <<spc, client, heard>>
pairVars == <<serverVars, queue, cpc, sent, answer, shown, killed>>

Server == Nobody     \* the server's name among those killed

PairInit ==
  /\ spc = "off"
  /\ queue = <<>>
  /\ client = Nobody
  /\ heard = "nothing"
  /\ cpc = [c \in Clients |-> "off"]
  /\ sent = [c \in Clients |-> 0]
  /\ answer = [c \in Clients |-> 0]
  /\ shown = [c \in Clients |-> "nothing"]
  /\ killed = {}

ClientAt(c, from, to) == cpc[c] = from /\ cpc' = [cpc EXCEPT ![c] = to]

\* socket, setsockopt, bind and listen, any of which may end the program.
Listen ==
  /\ spc = "off"
  /\ spc' \in {"accept", "ended"}
  /\ UNCHANGED <<queue, client, heard, cpc, sent, answer, shown, killed>>

Listening == spc \notin {"off", "ended"}

Accept ==
  /\ spc = "accept"
  /\ queue # <<>>
  /\ client' = Head(queue)
  /\ queue' = Tail(queue)
  /\ spc' = "key"
  /\ UNCHANGED <<heard, cpc, sent, answer, shown, killed>>

\* getchar() returns.
ServerKey ==
  /\ spc = "key"
  /\ spc' = "read"
  /\ UNCHANGED <<queue, client, heard, cpc, sent, answer, shown, killed>>

\* read() waits for the message, or for the end of a client that is gone: it
\* then returns 0 and the buffer, all zero, is printed.
ServerRead ==
  /\ spc = "read"
  /\ \/ /\ sent[client] > 0
        /\ heard' = "hello"
        /\ sent' = [sent EXCEPT ![client] = 0]
     \/ /\ sent[client] = 0 /\ cpc[client] = "ended"
        /\ heard' = "empty"
        /\ UNCHANGED sent
  /\ spc' = "send"
  /\ UNCHANGED <<queue, client, cpc, answer, shown, killed>>

\* accept() or read() returns -1, and the server exits.
ServerFails ==
  /\ spc \in {"accept", "read"}
  /\ spc' = "ended"
  /\ killed' = killed \cup {Server}
  /\ UNCHANGED <<queue, client, heard, cpc, sent, answer, shown>>

\* Faulty variant of ServerSend: the server returns without its answer.
ServerSendSkipped ==
  /\ spc = "send"
  /\ spc' = "ended"
  /\ UNCHANGED <<queue, client, heard, cpc, sent, answer, shown, killed>>

\* The answer; then the server returns.
ServerSend ==
  /\ spc = "send"
  /\ answer' = [answer EXCEPT ![client] = IF cpc[client] = "ended" THEN 0 ELSE 1]
  /\ spc' = "ended"
  /\ UNCHANGED <<queue, client, heard, cpc, sent, shown, killed>>

\* connect() is refused where nobody listens, and waits while the queue is full.
Connect(c) ==
  /\ Listening /\ Len(queue) < QueueSize
  /\ ClientAt(c, "off", "key")
  /\ queue' = Append(queue, c)
  /\ UNCHANGED <<serverVars, sent, answer, shown, killed>>

Refused(c) ==
  /\ ~Listening
  /\ ClientAt(c, "off", "ended")
  /\ UNCHANGED <<serverVars, queue, sent, answer, shown, killed>>

ClientKey(c) ==
  /\ ClientAt(c, "key", "send")
  /\ UNCHANGED <<serverVars, queue, sent, answer, shown, killed>>

\* Faulty variant of ClientSend: the client reads before it sends.
ClientSendLast(c) ==
  /\ answer[c] > 0
  /\ ClientAt(c, "send", "read")
  /\ sent' = [sent EXCEPT ![c] = 1]
  /\ UNCHANGED <<serverVars, queue, answer, shown, killed>>

\* The result of send() is not looked at: the message of a client whose
\* connection was reset is lost.
ClientSend(c) ==
  /\ ClientAt(c, "send", "read")
  /\ sent' = [sent EXCEPT ![c] = IF Listening THEN 1 ELSE 0]
  /\ UNCHANGED <<serverVars, queue, answer, shown, killed>>

\* read() waits for the answer; a connection the server has left, with an end
\* or with a reset, gives an empty message or an error.
ClientRead(c) ==
  /\ ClientAt(c, "read", "ended")
  /\ \/ /\ answer[c] > 0
        /\ shown' = [shown EXCEPT ![c] = "hello"]
        /\ answer' = [answer EXCEPT ![c] = 0]
     \/ /\ answer[c] = 0 /\ spc = "ended"
        /\ shown' \in {[shown EXCEPT ![c] = s] : s \in {"empty", "failed"}}
        /\ UNCHANGED answer
  /\ UNCHANGED <<serverVars, queue, sent, killed>>

\* A program may be killed at any moment.
KillServer ==
  /\ Listening
  /\ spc' = "ended"
  /\ killed' = killed \cup {Server}
  /\ UNCHANGED <<queue, client, heard, cpc, sent, answer, shown>>

KillClient(c) ==
  /\ cpc[c] \in {"key", "send", "read"}
  /\ cpc' = [cpc EXCEPT ![c] = "ended"]
  /\ killed' = killed \cup {c}
  /\ UNCHANGED <<serverVars, queue, sent, answer, shown>>

ServerStep == Listen \/ Accept \/ ServerKey \/ ServerRead \/ ServerSend
ClientStep(c) ==
  Connect(c) \/ Refused(c) \/ ClientKey(c) \/ ClientSend(c) \/ ClientRead(c)

PairNext ==
  \/ ServerStep \/ ServerFails \/ KillServer
  \/ \E c \in Clients : ClientStep(c) \/ KillClient(c)

\* All programs are started and run, and their users press a key.
PairFairness ==
  WF_pairVars(ServerStep) /\ \A c \in Clients : WF_pairVars(ClientStep(c))

PairSpec == PairInit /\ [][PairNext]_pairVars /\ PairFairness

-----------------------------------------------------------------------------
\* Whom the answer reaches.  Only the client that was accepted prints it, and
\* it does unless it was killed, or the server was killed or failed; the server
\* answers after it has read, and what it read is empty only if that client was
\* killed.  All others get an empty message or an error, although each of them
\* has printed that its message was sent.
Answered ==
  /\ \A c \in Clients :
       /\ shown[c] = "hello" => c = client /\ spc = "ended" /\ heard # "nothing"
       /\ c = client /\ cpc[c] = "ended" /\ {c, Server} \cap killed = {} => shown[c] = "hello"
  /\ heard = "empty" => client \in killed

\* Nobody waits for ever: every client ends, and so does the server, whoever
\* is killed or fails, if one client connects at all.
AllEnd ==
  /\ \A c \in Clients : <>(cpc[c] = "ended")
  /\ queue # <<>> ~> spc = "ended"
=============================================================================
