--------------------------- MODULE HomeworkProofs ---------------------------
(***************************************************************************)
(* The small programs: HW1's socket pair, for every set of clients and     *)
(* every length of the server's queue; HW2's data structures, for every    *)
(* parameter, number of buckets and capacity; HW5's file system, for every *)
(* message, set of readers and number of failing allocations.  The three   *)
(* share no state, and no proof about one uses anything of another.        *)
(***************************************************************************)
EXTENDS SocketPair, Kds, S2fs, SequenceTheorems, FiniteSetTheorems,
        WellFoundedInduction, TLAPS

-----------------------------------------------------------------------------
(***************************************************************************)
(* HW1: whom the server's answer reaches.                                  *)
(***************************************************************************)

-----------------------------------------------------------------------------
(* The inductive invariant                                                 *)

\* The types of the two programs' variables.
PairTypes ==
  /\ spc \in {"off", "accept", "key", "read", "send", "ended"}
  /\ queue \in Seq(Clients)
  /\ client \in Clients \cup {Nobody}
  /\ heard \in {"nothing", "hello", "empty"}
  /\ cpc \in [Clients -> {"off", "key", "send", "read", "ended"}]
  /\ sent \in [Clients -> {0, 1}]
  /\ answer \in [Clients -> {0, 1}]
  /\ shown \in [Clients -> {"nothing", "hello", "empty", "failed"}]
  /\ killed \subseteq Clients \cup {Server}

\* Nobody connects before listen(); the server has its client from accept on,
\* and has read before it answers.
Served ==
  /\ spc = "off" => queue = <<>>
  /\ spc \in {"off", "accept"} => client = Nobody
  /\ spc \in {"key", "read", "send"} => client \in Clients
  /\ spc \in {"off", "accept", "key", "read"} => heard = "nothing"
  /\ spc = "send" => heard # "nothing"

\* c is on a connection, and if it has ended while the server runs it was killed.
Linked(c) == cpc[c] # "off" /\ (Listening /\ cpc[c] = "ended" => c \in killed)

Connected ==
  /\ client \in Clients => Linked(client)
  /\ \A i \in DOMAIN queue : Linked(queue[i])

\* Only the accepted client has an answer or has shown one, and a server that
\* was not killed has answered before its end.
Delivered ==
  /\ \A c \in Clients : answer[c] = 1 \/ shown[c] = "hello" =>
                          c = client /\ spc = "ended" /\ heard # "nothing"
  /\ spc = "ended" /\ client \in Clients /\ {client, Server} \cap killed = {} =>
       answer[client] = 1 \/ (cpc[client] = "ended" /\ shown[client] = "hello")
  /\ \A c \in Clients : /\ shown[c] = "hello" => cpc[c] = "ended"
                        /\ answer[c] = 1 /\ cpc[c] = "ended" => c \in killed

\* The server printed an empty message only for a client that was killed.
Emptied == heard = "empty" => client \in killed

PairInv == PairTypes /\ Served /\ Connected /\ Delivered /\ Emptied

-----------------------------------------------------------------------------
(* The steps                                                               *)

\* A program starts with nobody connected and nothing sent.
LEMMA PairInvInit == PairInit => PairInv
  BY SocketAssumption
     DEF PairInit, PairInv, PairTypes, Served, Connected, Delivered, Emptied, Linked,
                          Server, Listening

\* The steps of the server, and its end, keep the invariant.
LEMMA ServerKeeps == PairInv /\ (ServerStep \/ ServerFails \/ KillServer) => PairInv'
<1> SUFFICES ASSUME PairInv, ServerStep \/ ServerFails \/ KillServer PROVE PairInv'
  OBVIOUS
<1> USE SocketAssumption DEF PairInv, Server
<1>1. CASE Listen
  BY <1>1 DEF Listen, PairTypes, Served, Connected, Delivered, Emptied, Linked, Listening
<1>2. CASE Accept
  <2>1. queue # <<>> /\ queue \in Seq(Clients)
    BY <1>2 DEF Accept, PairTypes
  <2>2. Head(queue) = queue[1] /\ Head(queue) \in Clients /\ Tail(queue) \in Seq(Clients)
    BY <2>1, HeadTailProperties
  <2>3. 1 \in DOMAIN queue
    BY <2>1, EmptySeq, LenProperties
  <2>4. \A i \in DOMAIN Tail(queue) : i + 1 \in DOMAIN queue /\ Tail(queue)[i] = queue[i + 1]
    BY <2>1, HeadTailProperties, LenProperties
  <2>5. PairTypes' /\ Served' /\ Emptied'
    BY <1>2, <2>2 DEF Accept, PairTypes, Served, Emptied
  <2>6. Connected'
    BY <1>2, <2>2, <2>3, <2>4 DEF Accept, Connected, Linked, Listening
  <2>7. Delivered'
    BY <1>2 DEF Accept, Delivered
  <2> QED
    BY <2>5, <2>6, <2>7
<1>3. CASE ServerKey
  BY <1>3 DEF ServerKey, PairTypes, Served, Connected, Delivered, Emptied, Linked, Listening
<1>4. CASE ServerRead
  <2>1. client \in Clients
    BY <1>4 DEF ServerRead, Served
  <2>2. PairTypes' /\ Served' /\ Connected'
    BY <1>4, <2>1 DEF ServerRead, PairTypes, Served, Connected, Linked, Listening
  <2>3. Delivered'
    BY <1>4 DEF ServerRead, Delivered
  <2>4. Emptied'
    BY <1>4, <2>1 DEF ServerRead, Emptied, Connected, Linked, Listening
  <2> QED
    BY <2>2, <2>3, <2>4
<1>5. CASE ServerSend
  <2>1. client \in Clients /\ heard # "nothing" /\ Linked(client)
    BY <1>5 DEF ServerSend, Served, Connected
  <2>2. PairTypes' /\ Served' /\ Connected' /\ Emptied'
    BY <1>5, <2>1 DEF ServerSend, PairTypes, Served, Connected, Linked, Listening, Emptied
  <2>3. Delivered'
    BY <1>5, <2>1 DEF ServerSend, Delivered, PairTypes, Linked, Listening
  <2> QED
    BY <2>2, <2>3
<1>6. CASE KillServer
  BY <1>6 DEF KillServer, PairTypes, Served, Connected, Delivered, Emptied, Linked, Listening
<1>7. CASE ServerFails
  BY <1>7 DEF ServerFails, PairTypes, Served, Connected, Delivered, Emptied, Linked, Listening
<1> QED
  BY <1>1, <1>2, <1>3, <1>4, <1>5, <1>6, <1>7 DEF ServerStep

\* The steps of a client, and its end, keep the invariant.
LEMMA ClientKeeps ==
  ASSUME NEW c \in Clients
  PROVE  PairInv /\ (ClientStep(c) \/ KillClient(c)) => PairInv'
<1> SUFFICES ASSUME PairInv, ClientStep(c) \/ KillClient(c) PROVE PairInv'
  OBVIOUS
<1> USE SocketAssumption DEF PairInv, Server, ClientAt
<1>1. CASE Connect(c)
  <2>1. queue \in Seq(Clients) /\ queue' = Append(queue, c)
    BY <1>1 DEF Connect, PairTypes
  <2>2. queue' \in Seq(Clients) /\ \A i \in DOMAIN queue' :
           queue'[i] = c \/ (i \in DOMAIN queue /\ queue'[i] = queue[i])
    BY <2>1, AppendProperties, LenProperties
  <2>3. PairTypes' /\ Served' /\ Delivered' /\ Emptied'
    BY <1>1, <2>2 DEF Connect, PairTypes, Served, Delivered, Emptied, serverVars, Listening
  <2>4. \A d \in Clients : d = c \/ Linked(d) => Linked(d)'
    BY <1>1 DEF Connect, PairTypes, Linked, Listening, serverVars
  <2>5. \A i \in DOMAIN queue : queue[i] \in Clients
    BY <2>1
  <2>6. Connected'
    BY <1>1, <2>2, <2>4, <2>5 DEF Connect, Connected, serverVars
  <2> QED
    BY <2>3, <2>6
<1>2. CASE Refused(c)
  <2>1. \A i \in DOMAIN queue : queue[i] \in Clients
    BY DEF PairTypes
  <2>2. PairTypes' /\ Served' /\ Emptied'
    BY <1>2 DEF Refused, PairTypes, Served, Emptied, serverVars
  <2>3. answer[c] # 1
    BY <1>2 DEF Refused, Delivered, Connected, Linked
  <2>4. Delivered'
    BY <1>2, <2>3 DEF Refused, Delivered, PairTypes, serverVars
  <2>5. Connected'
    BY <1>2, <2>1 DEF Refused, PairTypes, Connected, Linked, Listening, serverVars
  <2> QED
    BY <2>2, <2>4, <2>5
<1>3. CASE ClientKey(c) \/ ClientSend(c)
  <2>1. \A i \in DOMAIN queue : queue[i] \in Clients
    BY DEF PairTypes
  <2>2. PairTypes' /\ Served' /\ Delivered' /\ Emptied'
    BY <1>3 DEF ClientKey, ClientSend, PairTypes, Served, Delivered, Emptied, serverVars
  <2>3. Connected'
    BY <1>3, <2>1
       DEF ClientKey, ClientSend, PairTypes, Connected, Linked, Listening, serverVars
  <2> QED
    BY <2>2, <2>3
<1>4. CASE ClientRead(c)
  <2>1. spc = "ended"
    BY <1>4 DEF ClientRead, Delivered, PairTypes
  <2>2. \A i \in DOMAIN queue : queue[i] \in Clients
    BY DEF PairTypes
  <2>3. PairTypes' /\ Served' /\ Emptied'
    BY <1>4 DEF ClientRead, PairTypes, Served, Emptied, serverVars
  <2>4. Connected'
    BY <1>4, <2>1, <2>2 DEF ClientRead, PairTypes, Connected, Linked, Listening, serverVars
  <2>5. CASE answer[c] > 0 /\ shown' = [shown EXCEPT ![c] = "hello"]
               /\ answer' = [answer EXCEPT ![c] = 0]
    <3>1. answer[c] = 1 /\ c = client /\ heard # "nothing"
      BY <2>5 DEF PairTypes, Delivered
    <3>2. Delivered'
      BY <1>4, <2>1, <2>5, <3>1 DEF ClientRead, Delivered, PairTypes, serverVars
    <3> QED
      BY <2>3, <2>4, <3>2
  <2>6. CASE answer[c] = 0 /\ UNCHANGED answer
               /\ shown' \in {[shown EXCEPT ![c] = s] : s \in {"empty", "failed"}}
    <3>1. /\ cpc[c] = "read" /\ cpc' = [cpc EXCEPT ![c] = "ended"]
          /\ UNCHANGED <<spc, client, heard, killed>>
      BY <1>4 DEF ClientRead, serverVars
    <3>2. shown[c] # "hello"
      BY <3>1 DEF Delivered
    <3>3. \A d \in Clients : shown'[d] = "hello" => d # c /\ shown[d] = "hello"
      BY <2>6 DEF PairTypes
    <3>4. Delivered'
      BY <2>6, <3>1, <3>2, <3>3 DEF Delivered, PairTypes
    <3> QED
      BY <2>3, <2>4, <3>4
  <2> QED
    BY <1>4, <2>1, <2>5, <2>6 DEF ClientRead
<1>5. CASE KillClient(c)
  <2>1. \A i \in DOMAIN queue : queue[i] \in Clients
    BY DEF PairTypes
  <2>2. PairTypes' /\ Served' /\ Emptied'
    BY <1>5 DEF KillClient, PairTypes, Served, Emptied, serverVars
  <2>3. Delivered'
    BY <1>5 DEF KillClient, Delivered, PairTypes, serverVars
  <2>4. Connected'
    BY <1>5, <2>1 DEF KillClient, PairTypes, Connected, Linked, Listening, serverVars
  <2> QED
    BY <2>2, <2>3, <2>4
<1> QED
  BY <1>1, <1>2, <1>3, <1>4, <1>5 DEF ClientStep

\* A step that changes nothing keeps the invariant.
LEMMA PairStutter == PairInv /\ UNCHANGED pairVars => PairInv'
  BY DEF pairVars, serverVars, PairInv, PairTypes, Served, Connected, Delivered, Emptied,
         Linked, Listening

\* The invariant holds of every behaviour.
LEMMA PairInvariant == PairSpec => []PairInv
<1>1. PairInv /\ [PairNext]_pairVars => PairInv'
  BY ServerKeeps, ClientKeeps, PairStutter DEF PairNext
<1> QED
  BY <1>1, PairInvInit, PTL DEF PairSpec

-----------------------------------------------------------------------------
(* The theorem                                                             *)

\* Only the accepted client prints the answer, and it does unless it was killed
\* or the server was killed or failed; an empty message is read only from a
\* killed client.
THEOREM AnswersDelivered == PairSpec => []Answered
<1>1. PairInv => Answered
  <2> SUFFICES ASSUME PairInv PROVE Answered
    OBVIOUS
  <2>1. ASSUME NEW c \in Clients, c = client, cpc[c] = "ended", {c, Server} \cap killed = {}
        PROVE  shown[c] = "hello"
    <3>1. spc = "ended"
      BY <2>1, SocketAssumption DEF PairInv, Connected, Linked, Listening, PairTypes, Served
    <3> QED
      BY <2>1, <3>1 DEF PairInv, Delivered
  <2> QED
    BY <2>1 DEF PairInv, Delivered, Emptied, Answered
<1> QED
  BY <1>1, PairInvariant, PTL

-----------------------------------------------------------------------------
(***************************************************************************)
(* HW2: what is parsed, printed and left allocated.                        *)
(***************************************************************************)

-----------------------------------------------------------------------------
(* The inductive invariant                                                 *)

EntryType == [id : Plays \X Nat, data : Int]

KdsTypes ==
  /\ text \in Texts
  /\ {slow, temp} \subseteq 1 .. Len(text) + 1 /\ slow <= temp
  /\ nums \in Seq(Ints) /\ Len(nums) <= MaxNums
  /\ stage \in {"start", "parse"} \cup Plays \cup Ended
  /\ ptr \in 1 .. Len(nums) + 1
  /\ store \in Seq(EntryType)
  /\ table \in [0 .. Buckets - 1 -> Seq(EntryType)]
  /\ heap \subseteq Allocated
  /\ spare \in 0 .. Shortages
  /\ \E S : printed \in Seq(S)

\* The words that end before position k, and what is known of them once the
\* parser has passed it.
Before(k) == {w \in Words : w[2] < k}
Reads(k, ns) ==
  /\ Len(ns) = Cardinality(Before(k))
  /\ \A w \in Before(k) : Accepted(Word(w)) /\ ns[Place(w)] = Number(Word(w))

\* What lies between the two pointers has no space, and a space is before it.
Scanning ==
  /\ stage \in {"start", "parse"} =>
       /\ \A n \in slow .. temp - 1 : text[n] # Space
       /\ slow = 1 \/ text[slow - 1] = Space
       /\ Reads(slow, nums)
       /\ printed = <<>>
       /\ heap \subseteq {<<"nums", 0>>}
       /\ stage = "start" => heap = {} /\ spare = Shortages
       /\ stage = "parse" => <<"nums", 0>> \in heap \/ spare < Shortages
  /\ Parsed

\* Entries are those of numbers already passed, each allocated by this function.
Stored ==
  /\ \A n \in DOMAIN store : \E m \in 1 .. ptr - 1 : store[n] = EntryOf(stage, m)
  /\ stage \in Plays => \A m \in 1 .. ptr - 1 : <<stage, m>> \in heap
  /\ stage \notin {"list", "rb", "radix", "xarray"} => store = <<>>
  /\ stage # "hash" => table = NoTable
  /\ stage \notin Plays \ {"bitmap"} => ptr = 1

Listed ==
  stage = "list" =>
    /\ Len(store) = ptr - 1
    /\ \A n \in 1 .. ptr - 1 : store[n] = EntryOf("list", ptr - n)

\* The numbers passed, each once, in ascending order.
Sorted ==
  stage = "rb" =>
    /\ \A n \in DOMAIN store : \A m \in 1 .. n - 1 :
         store[m].data <= store[n].data /\ store[m].id # store[n].id
    /\ \A m \in 1 .. ptr - 1 : <<"rb", m>> \in Ids(store)

\* The numbers passed, each once in its bucket, the later ones in front.
Hashed ==
  stage = "hash" =>
    /\ \A b \in 0 .. Buckets - 1 :
         /\ \A n \in DOMAIN table[b] : \E m \in 1 .. ptr - 1 :
              Hash(nums[m]) = b /\ table[b][n] = EntryOf("hash", m)
         /\ \A n \in DOMAIN table[b] : \A m \in 1 .. n - 1 :
              table[b][n].id[2] < table[b][m].id[2]
    /\ \A m \in 1 .. ptr - 1 : <<"hash", m>> \in Ids(table[Hash(nums[m])])

\* Every number passed is found, unless there was no node for one.
Indexed ==
  stage \in {"radix", "xarray"} /\ spare = Shortages =>
    \A m \in 1 .. ptr - 1 : HasKey(store, nums[m])

\* What has been printed is by functions that came before the one that runs,
\* so that none of them allocates any more.
Rank == [list |-> 1, rb |-> 2, hash |-> 3, radix |-> 4, xarray |-> 5, bitmap |-> 6]
Ranked ==
  \A n \in DOMAIN printed :
    printed[n].by \in Plays /\ (stage \in Plays => Rank[printed[n].by] < Rank[stage])

KdsInv ==
  /\ KdsTypes /\ Scanning /\ Stored
  /\ Listed /\ Sorted /\ Hashed /\ Indexed
  /\ Ranked /\ OthersFreed /\ Printed

-----------------------------------------------------------------------------
(* Numbers                                                                 *)

\* A set of numbers has a least one.
LEMMA Least ==
  ASSUME NEW T, T \subseteq Nat, T # {}
  PROVE  \E x \in T : \A y \in T : x <= y
<1> DEFINE R == OpToRel(<, Nat)
<1>1. PICK x \in T : \A y \in T : ~ (<<y, x>> \in R)
  BY NatLessThanWellFounded, WFMin
<1>2. \A y, z \in Nat : y < z => <<y, z>> \in R
  BY DEF OpToRel
<1> HIDE DEF R
<1>3. ASSUME NEW y \in T PROVE x <= y
  <2>1. ~(y < x)
    BY <1>1, <1>2
  <2> QED
    BY <2>1
<1> QED
  BY <1>3

\* What a long is cut to is an int.
LEMMA NumberIsInt ==
  ASSUME NEW w, Accepted(w)
  PROVE  Number(w) \in Ints
<1>1. PICK k : k = Long(w)
  OBVIOUS
<1>2. k \in -LongMax - 1 .. LongMax /\ LongMax \in Nat /\ IntMax \in Nat
  BY <1>1, KdsAssumption DEF Accepted
<1>3. k \in Int /\ 2 * (IntMax + 1) \in Nat \ {0}
  BY <1>2
<1>4. PICK d \in Nat \ {0} : d = 2 * (IntMax + 1)
  BY <1>3
<1>5. PICK j \in Int : j = k + IntMax + 1
  BY <1>2, <1>3
<1>6. j % d \in 0 .. d - 1
  BY <1>4, <1>5
<1>7. CutToInt(k) = (j % d) - IntMax - 1
  BY <1>4, <1>5 DEF CutToInt
<1>8. CutToInt(k) \in Ints
  <2>1. PICK r \in 0 .. d - 1 : r = j % d
    BY <1>6
  <2> QED
    BY <1>2, <1>4, <1>7, <2>1 DEF Ints
<1> QED
  BY <1>1, <1>8 DEF Number

\* An int is an integer.
LEMMA IntsAreInts == Ints \subseteq Int /\ Seq(Ints) \subseteq Seq(Int)
<1>1. IntMax \in Nat
  BY KdsAssumption
<1>2. Ints \subseteq Int
  BY <1>1 DEF Ints
<1> QED
  BY <1>2, SeqMonotonic

-----------------------------------------------------------------------------
(* The parser                                                              *)

\* The parameter is a sequence of characters.
LEMMA TextFacts ==
  ASSUME text \in Texts
  PROVE  /\ text \in Seq(Chars) /\ Len(text) \in Nat
         /\ \A n \in 1 .. Len(text) : text[n] \in Chars
<1>1. text \in Seq(Chars)
  BY KdsAssumption
<1> QED
  BY <1>1, LenProperties, ElementOfSeq

\* There are finitely many words, and the bounds of each are numbers.
LEMMA WordsFinite ==
  ASSUME text \in Texts
  PROVE  /\ IsFiniteSet(Words)
         /\ \A w \in Words : w = <<w[1], w[2]>> /\ w[1] \in 1 .. Len(text)
                               /\ w[2] \in w[1] .. Len(text)
<1>1. Len(text) \in Nat
  BY TextFacts
<1>2. IsFiniteSet((1 .. Len(text)) \X (1 .. Len(text)))
  <2>1. IsFiniteSet(1 .. Len(text))
    BY <1>1, FS_Interval
  <2> QED
    BY <2>1, FS_Product
<1>3. Words \subseteq (1 .. Len(text)) \X (1 .. Len(text))
  BY DEF Words
<1>4. IsFiniteSet(Words)
  BY <1>2, <1>3, FS_Subset
<1> QED
  BY <1>1, <1>4 DEF Words

\* What the invariant says of the parser while it runs.
Pointers ==
  /\ text \in Texts
  /\ {slow, temp} \subseteq 1 .. Len(text) + 1 /\ slow <= temp
  /\ \A n \in slow .. temp - 1 : text[n] # Space
  /\ slow = 1 \/ text[slow - 1] = Space

\* A character ends a number where the string ends or with a space.
LEMMA EndOfWord ==
  ASSUME Pointers, AtEnd
  PROVE  temp = Len(text) + 1 \/ text[temp] = Space
  BY DEF AtEnd, AtNul, Pointers

\* The pointers are numbers.
LEMMA PointersNat ==
  ASSUME Pointers
  PROVE  /\ Len(text) \in Nat /\ slow \in Nat /\ temp \in Nat
         /\ 1 <= slow /\ slow <= temp /\ temp <= Len(text) + 1
<1>1. Len(text) \in Nat
  BY TextFacts DEF Pointers
<1> QED
  BY <1>1 DEF Pointers

\* A word that does not end before the slow pointer begins there or later.
LEMMA WordAhead ==
  ASSUME Pointers, NEW w \in Words, slow <= w[2]
  PROVE  slow <= w[1]
<1>1. w[1] \in 1 .. Len(text) /\ w[2] \in w[1] .. Len(text)
  BY WordsFinite DEF Pointers
<1>2. SUFFICES ASSUME w[1] < slow PROVE FALSE
  BY <1>1, PointersNat
<1>3. slow - 1 \in w[1] .. w[2] /\ slow # 1
  BY <1>1, <1>2, PointersNat
<1>4. text[slow - 1] # Space
  BY <1>3 DEF Words
<1> QED
  BY <1>3, <1>4 DEF Pointers

\* At the end of a number, the word that begins between the pointers is what
\* is between them.
LEMMA WordHere ==
  ASSUME Pointers, AtEnd, NEW w \in Words, slow <= w[2], w[1] <= temp
  PROVE  w = <<slow, temp - 1>> /\ slow < temp
<1>1. w = <<w[1], w[2]>> /\ w[1] \in 1 .. Len(text) /\ w[2] \in w[1] .. Len(text)
  BY WordsFinite DEF Pointers
<1>2. \A n \in w[1] .. w[2] : text[n] # Space
  BY DEF Words
<1>3. slow <= w[1]
  BY WordAhead
<1>4. w[1] < temp /\ w[2] < temp
  <2> SUFFICES ASSUME temp \in w[1] .. w[2] PROVE FALSE
    BY <1>1, PointersNat
  <2>1. text[temp] # Space /\ temp <= Len(text)
    BY <1>1, <1>2, PointersNat
  <2> QED
    BY <2>1, EndOfWord, PointersNat
<1>5. w[1] = slow
  <2> SUFFICES ASSUME slow < w[1] PROVE FALSE
    BY <1>1, <1>3, PointersNat
  <2>1. w[1] - 1 \in slow .. temp - 1 /\ w[1] # 1
    BY <1>1, <1>4, PointersNat
  <2>2. text[w[1] - 1] = Space
    BY <2>1 DEF Words
  <2> QED
    BY <2>1, <2>2 DEF Pointers
<1>6. w[2] = temp - 1
  <2> SUFFICES ASSUME w[2] + 1 < temp PROVE FALSE
    BY <1>1, <1>4, PointersNat
  <2>1. w[2] + 1 \in slow .. temp - 1 /\ w[2] # Len(text)
    BY <1>1, <1>3, PointersNat
  <2>2. text[w[2] + 1] = Space
    BY <2>1 DEF Words
  <2> QED
    BY <2>1, <2>2 DEF Pointers
<1> QED
  BY <1>1, <1>4, <1>5, <1>6

\* What is between the pointers at the end of a number is a word.
LEMMA TokenIsWord ==
  ASSUME Pointers, AtEnd, slow < temp
  PROVE  <<slow, temp - 1>> \in Words
<1>1. slow \in 1 .. Len(text) /\ temp - 1 \in 1 .. Len(text)
  BY PointersNat
<1>2. temp - 1 = Len(text) \/ text[temp - 1 + 1] = Space
  BY EndOfWord, PointersNat
<1>3. \A n \in slow .. temp - 1 : text[n] # Space
  BY DEF Pointers
<1>4. slow = 1 \/ text[slow - 1] = Space
  BY DEF Pointers
<1> DEFINE w == <<slow, temp - 1>>
<1>5. w[1] = slow /\ w[2] = temp - 1 /\ w \in (1 .. Len(text)) \X (1 .. Len(text))
  BY <1>1
<1>6. w[1] <= w[2]
  BY <1>5, PointersNat
<1> HIDE DEF w
<1>7. w \in Words
  BY <1>2, <1>3, <1>4, <1>5, <1>6 DEF Words
<1> QED
  BY <1>7 DEF w

\* Past the end of a number, that word has been read too, if there is one.
LEMMA ReadNext ==
  ASSUME Pointers, AtEnd
  PROVE  /\ Before(temp + 1) = Before(slow) \cup (IF slow < temp THEN {<<slow, temp - 1>>} ELSE {})
         /\ slow < temp => /\ <<slow, temp - 1>> \notin Before(slow)
                           /\ {v \in Words : v[1] <= slow} = Before(temp + 1)
<1> DEFINE new == IF slow < temp THEN {<<slow, temp - 1>>} ELSE {}
<1>1. \A w \in Words : w[1] \in Nat /\ w[2] \in Nat /\ w[1] <= w[2]
  BY WordsFinite, PointersNat DEF Pointers
<1>2. \A w \in Words : slow <= w[2] /\ w[1] <= temp => slow < temp /\ w = <<slow, temp - 1>>
  BY WordHere
<1>3. slow < temp => <<slow, temp - 1>> \in Words
  BY TokenIsWord
<1>4. Before(temp + 1) \subseteq Before(slow) \cup new
  BY <1>1, <1>2, PointersNat DEF Before
<1>5. Before(slow) \cup new \subseteq Before(temp + 1)
  BY <1>1, <1>3, PointersNat DEF Before
<1>6. slow < temp => <<slow, temp - 1>> \notin Before(slow)
  BY PointersNat DEF Before
<1>7. slow < temp => {v \in Words : v[1] <= slow} = Before(temp + 1)
  <2> SUFFICES ASSUME slow < temp, NEW v \in Words
               PROVE  v[1] <= slow <=> v[2] < temp + 1
    BY DEF Before
  <2>1. CASE v[2] < slow
    BY <1>1, <2>1, PointersNat
  <2>2. CASE slow <= v[2]
    BY <1>1, <1>2, <2>2, PointersNat
  <2> QED
    BY <1>1, <2>1, <2>2, PointersNat
<1> QED
  BY <1>4, <1>5, <1>6, <1>7

\* At the end of the string all words have been read.
LEMMA ReadAll ==
  ASSUME Pointers, AtNul
  PROVE  Before(temp + 1) = Words
<1>1. \A w \in Words : w[2] \in Nat /\ w[2] <= Len(text)
  BY WordsFinite, PointersNat DEF Pointers
<1> QED
  BY <1>1, PointersNat DEF Before, AtNul

\* The place of a word that has been read is one of those filled.
LEMMA PlaceRead ==
  ASSUME Pointers, NEW w \in Before(slow)
  PROVE  Place(w) \in 1 .. Cardinality(Before(slow))
<1> DEFINE upTo == {v \in Words : v[1] <= w[1]}
<1>1. IsFiniteSet(Words) /\ \A v \in Words : v[1] \in Nat /\ v[2] \in Nat /\ v[1] <= v[2]
  BY WordsFinite, PointersNat DEF Pointers
<1>2. w \in Words /\ w[2] < slow
  BY DEF Before
<1>3. upTo \subseteq Before(slow)
  <2> SUFFICES ASSUME NEW v \in Words, v[1] <= w[1], slow <= v[2] PROVE FALSE
    BY <1>1, PointersNat DEF Before
  <2>1. slow <= v[1]
    BY WordAhead
  <2> QED
    BY <1>1, <1>2, <2>1, PointersNat
<1>4. IsFiniteSet(Before(slow))
  BY <1>1, FS_Subset DEF Before
<1>5. /\ IsFiniteSet(upTo) /\ Cardinality(upTo) <= Cardinality(Before(slow))
      /\ Cardinality(upTo) \in Nat /\ Cardinality(Before(slow)) \in Nat
  BY <1>3, <1>4, FS_Subset, FS_CardinalityType
<1>6. w \in upTo
  BY <1>1, <1>2
<1>7. Cardinality(upTo) # 0
  BY <1>5, <1>6, FS_EmptySet
<1> QED
  BY <1>5, <1>7 DEF Place

\* What is between the pointers, as a sequence.
LEMMA TokenFacts ==
  ASSUME Pointers
  PROVE  /\ Token \in Seq(Chars) /\ Len(Token) = temp - slow
         /\ \A n \in 1 .. temp - slow : Token[n] = text[slow + n - 1]
         /\ Token = <<>> <=> slow = temp
<1>1. \A n \in slow .. temp - 1 : text[n] \in Chars
  BY TextFacts, PointersNat DEF Pointers
<1>2. /\ Token \in Seq(Chars)
      /\ Len(Token) = IF slow <= temp - 1 THEN temp - 1 - slow + 1 ELSE 0
      /\ \A n \in 1 .. temp - 1 - slow + 1 : Token[n] = text[slow + n - 1]
  BY <1>1, PointersNat, SubSeqProperties DEF Token
<1>3. Len(Token) = temp - slow
  BY <1>2, PointersNat
<1>4. temp - 1 - slow + 1 = temp - slow
  BY PointersNat
<1>5. Token = <<>> <=> Len(Token) = 0
  BY <1>2, EmptySeq
<1> QED
  BY <1>2, <1>3, <1>4, <1>5, PointersNat

\* The number between the pointers is that word.
LEMMA TokenWord == Word(<<slow, temp - 1>>) = Token
<1>1. PICK w : w = <<slow, temp - 1>>
  OBVIOUS
<1>2. w[1] = slow /\ w[2] = temp - 1
  BY <1>1
<1> QED
  BY <1>1, <1>2 DEF Word, Token

\* The words are those of the parameter, which no step changes.
LEMMA WordsKept ==
  ASSUME text' = text
  PROVE  /\ Words' = Words
         /\ \A k : Before(k)' = Before(k)
         /\ \A w : Place(w)' = Place(w) /\ Word(w)' = Word(w)
<1>1. Words' = Words
  BY DEF Words
<1>2. \A k : Before(k)' = Before(k)
  BY <1>1 DEF Before
<1>3. \A w : Place(w)' = Place(w)
  BY <1>1 DEF Place
<1>4. \A w : Word(w)' = Word(w)
  BY DEF Word
<1> QED
  BY <1>1, <1>2, <1>3, <1>4

\* Reading up to the end of a number leaves the words before it read.
LEMMA SkipReads ==
  ASSUME Pointers, AtEnd, slow = temp, Reads(slow, nums)
  PROVE  Reads(temp + 1, nums)
<1>1. ~(slow < temp)
  BY PointersNat
<1>2. Before(temp + 1) = Before(slow) \cup {}
  BY <1>1, ReadNext
<1> QED
  BY <1>2 DEF Reads

\* A number that is stored is that of the next word.
LEMMA NumberReads ==
  ASSUME Pointers, AtEnd, slow < temp, Accepted(Token), Reads(slow, nums), nums \in Seq(Ints),
         NEW ns, ns = Append(nums, Number(Token))
  PROVE  ns \in Seq(Ints) /\ Len(ns) = Len(nums) + 1 /\ Reads(temp + 1, ns)
<1> DEFINE w0 == <<slow, temp - 1>>
<1>1. /\ ns \in Seq(Ints) /\ Len(ns) = Len(nums) + 1 /\ Len(nums) \in Nat
      /\ \A n \in 1 .. Len(nums) : ns[n] = nums[n]
      /\ ns[Len(nums) + 1] = Number(Token)
  BY NumberIsInt, AppendProperties, LenProperties
<1>2. Before(temp + 1) = Before(slow) \cup {w0} /\ w0 \notin Before(slow) /\ w0[1] = slow
      /\ {v \in Words : v[1] <= slow} = Before(temp + 1)
  BY ReadNext
<1>3. IsFiniteSet(Before(slow))
  BY WordsFinite, FS_Subset DEF Pointers, Before
<1>4. Cardinality(Before(temp + 1)) = Len(nums) + 1
  <2> HIDE DEF w0
  <2>1. Cardinality(Before(slow) \cup {w0}) = Cardinality(Before(slow)) + 1
    BY <1>2, <1>3, FS_AddElement
  <2> QED
    BY <1>2, <2>1 DEF Reads
<1>5. Place(w0) = Len(nums) + 1
  BY <1>2, <1>4 DEF Place
<1>6. ASSUME NEW w \in Before(temp + 1)
      PROVE  Accepted(Word(w)) /\ ns[Place(w)] = Number(Word(w))
  <2>1. CASE w = w0
    BY <1>1, <1>5, <2>1, TokenWord
  <2>2. CASE w \in Before(slow)
    <3>1. Place(w) \in 1 .. Len(nums)
      BY <2>2, PlaceRead DEF Reads
    <3> QED
      BY <1>1, <2>2, <3>1 DEF Reads
  <2> QED
    BY <1>2, <2>1, <2>2
<1> QED
  BY <1>1, <1>4, <1>6 DEF Reads

\* Words that have been read stay so, up to the slow pointer or all of them.
LEMMA ReadsKept ==
  ASSUME text' = text, NEW k, Reads(k, nums')
  PROVE  /\ slow' = k => Reads(slow, nums)'
         /\ Before(k) = Words => /\ Len(nums') = Cardinality(Words')
                                 /\ \A w \in Words' : Accepted(Word(w)') /\ nums'[Place(w)'] = Number(Word(w)')
<1>1. Len(nums') = Cardinality(Before(k)')
  BY WordsKept DEF Reads
<1>2. \A w \in Before(k)' : Accepted(Word(w)') /\ nums'[Place(w)'] = Number(Word(w)')
  BY WordsKept DEF Reads
<1>3. Before(k)' = Before(k) /\ Words' = Words
  BY WordsKept
<1>4. ASSUME slow' = k PROVE Before(slow)' = Before(k)'
  BY <1>4 DEF Before
<1>5. ASSUME slow' = k PROVE Reads(slow, nums)'
  BY <1>1, <1>2, <1>4, <1>5 DEF Reads
<1> QED
  BY <1>1, <1>2, <1>3, <1>5

-----------------------------------------------------------------------------
(* The steps of the parser                                                 *)

\* Where a function begins, or none runs.
Fresh == ptr = 1 /\ store = <<>> /\ table = NoTable
Structures == Stored /\ Listed /\ Sorted /\ Hashed /\ Indexed

\* Nothing is stored where a function begins.
LEMMA FreshStored == KdsTypes /\ Fresh => Structures
<1> SUFFICES ASSUME KdsTypes, Fresh PROVE Structures
  OBVIOUS
<1>1. 1 .. ptr - 1 = {} /\ Len(store) = 0 /\ DOMAIN store = {}
  BY DEF Fresh
<1>2. stage = "hash" => \A b \in 0 .. Buckets - 1 : DOMAIN table[b] = {}
  BY DEF Fresh, NoTable
<1>3. Stored
  BY <1>1 DEF Stored, Fresh
<1>4. Listed
  BY <1>1 DEF Listed, Fresh
<1>5. Sorted
  BY <1>1 DEF Sorted
<1>6. Hashed
  BY <1>1, <1>2 DEF Hashed
<1>7. Indexed
  BY <1>1 DEF Indexed
<1> QED
  BY <1>3, <1>4, <1>5, <1>6, <1>7 DEF Structures

\* The same after a step.
LEMMA FreshAfter == (KdsTypes /\ Fresh)' => Structures'
  BY FreshStored, PTL

\* An empty structure is one.
LEMMA FreshTypes ==
  /\ <<>> \in Seq(EntryType) /\ NoTable \in [0 .. Buckets - 1 -> Seq(EntryType)]
<1>1. <<>> \in Seq(EntryType)
  OBVIOUS
<1> QED
  BY <1>1 DEF NoTable

\* The module is loaded with nothing allocated and the pointers at the first character.
LEMMA KdsInvInit == KdsInit => KdsInv
<1> SUFFICES ASSUME KdsInit PROVE KdsInv
  OBVIOUS
<1> USE DEF KdsInit
<1>1. Len(text) \in Nat
  BY TextFacts
<1>2. KdsTypes
  <2>1. nums \in Seq(Ints) /\ Len(nums) = 0 /\ printed \in Seq({})
    OBVIOUS
  <2>2. MaxNums \in Nat /\ Shortages \in Nat
    BY KdsAssumption
  <2> QED
    BY <1>1, <2>1, <2>2, FreshTypes DEF KdsTypes, Allocated
<1>3. Fresh
  BY DEF Fresh
<1>4. Structures
  BY <1>2, <1>3, FreshStored
<1>5. Before(1) = {}
  BY WordsFinite, <1>1 DEF Before
<1>6. Reads(slow, nums)
  BY <1>5, FS_EmptySet DEF Reads
<1>7. Scanning
  BY <1>1, <1>6 DEF Scanning, Parsed, Plays, After
<1>8. Ranked /\ OthersFreed /\ Printed
  BY DEF Ranked, OthersFreed, Printed
<1> QED
  BY <1>2, <1>4, <1>7, <1>8 DEF KdsInv, Structures

\* What the invariant gives while the parser runs.
LEMMA ParserState ==
  ASSUME KdsInv, stage \in {"start", "parse"}
  PROVE  /\ Pointers /\ Reads(slow, nums) /\ Fresh
         /\ printed = <<>> /\ heap \subseteq {<<"nums", 0>>}
         /\ stage = "start" => heap = {} /\ spare = Shortages
         /\ stage = "parse" => <<"nums", 0>> \in heap \/ spare < Shortages
         /\ nums \in Seq(Ints) /\ Len(nums) \in Nat /\ Len(nums) <= MaxNums
<1>1. Pointers /\ nums \in Seq(Ints) /\ Len(nums) <= MaxNums
  BY DEF KdsInv, KdsTypes, Scanning, Pointers
<1>2. Fresh
  BY DEF KdsInv, Stored, Fresh, Plays, After
<1> QED
  BY <1>1, <1>2, LenProperties DEF KdsInv, Scanning

\* While nothing has been printed, what is printed and freed is as it should be.
LEMMA NothingPrinted ==
  ASSUME printed' = <<>>, stage' # "done",
         stage' = "refused" => heap' \subseteq {<<"nums", 0>>},
         stage' = "full" => heap' = {},
         stage' = "oops" => spare' < Shortages
  PROVE  Ranked' /\ OthersFreed' /\ Printed'
<1>1. DOMAIN printed' = {}
  OBVIOUS
<1> QED
  BY <1>1 DEF Ranked, OthersFreed, Printed

\* The functions by name.
LEMMA PlayNames ==
  /\ Plays = {"list", "rb", "hash", "radix", "xarray", "bitmap"}
  /\ After["list"] = "rb" /\ After["rb"] = "hash" /\ After["hash"] = "radix"
  /\ After["radix"] = "xarray" /\ After["xarray"] = "bitmap" /\ After["bitmap"] = "done"
  BY DEF Plays, After

\* A step of the parser that moves the pointers past the end of a number keeps
\* the invariant if what it has read is stored.
LEMMA AdvanceEnd ==
  ASSUME KdsInv, stage = "parse", AtEnd, Advance, text' = text,
         nums' \in Seq(Ints), Len(nums') <= MaxNums, NEW k, k = temp + 1, Reads(k, nums'),
         UNCHANGED <<ptr, store, table, heap, spare, printed>>
  PROVE  KdsInv'
<1>1. /\ Pointers /\ Fresh /\ printed = <<>>
      /\ heap \subseteq {<<"nums", 0>>} /\ (<<"nums", 0>> \in heap \/ spare < Shortages)
      /\ Len(nums') \in Nat
  BY ParserState, LenProperties
<1>2. /\ temp' = (IF AtNul THEN temp ELSE temp + 1)
      /\ slow' = (IF ~AtNul THEN temp + 1 ELSE slow)
      /\ stage' = (IF AtNul THEN "list" ELSE "parse")
  BY DEF Advance
<1>3. AtNul <=> temp = Len(text) + 1
  BY DEF AtNul
<1>4. KdsTypes'
  <2>1. {slow', temp'} \subseteq 1 .. Len(text) + 1 /\ slow' <= temp'
    BY <1>1, <1>2, <1>3, PointersNat
  <2>2. stage' \in {"parse"} \cup Plays
    BY <1>2, PlayNames
  <2>3. ptr' \in 1 .. Len(nums') + 1
    BY <1>1 DEF Fresh
  <2> QED
    BY <2>1, <2>2, <2>3 DEF KdsInv, KdsTypes
<1>5. Structures'
  BY <1>1, <1>4, FreshAfter DEF Fresh
<1>6. Scanning'
  <2>1. CASE AtNul
    <3>1. Before(k) = Words
      BY <1>1, <2>1, ReadAll
    <3>2. /\ Len(nums') = Cardinality(Words')
          /\ \A w \in Words' : Accepted(Word(w)') /\ nums'[Place(w)'] = Number(Word(w)')
      BY <3>1, ReadsKept
    <3>3. stage' = "list"
      BY <1>2, <2>1
    <3> QED
      BY <3>2, <3>3 DEF Scanning, Parsed
  <2>2. CASE ~AtNul
    <3>1. slow' = k /\ temp' = k /\ stage' = "parse"
      BY <1>2, <2>2
    <3>2. Reads(slow, nums)'
      BY <3>1, ReadsKept
    <3>3. text'[slow' - 1] = Space
      <4>1. slow' - 1 = temp
        BY <1>1, <3>1, PointersNat
      <4> QED
        BY <1>1, <1>3, <2>2, <4>1, EndOfWord
    <3>4. slow' .. temp' - 1 = {}
      BY <1>1, <3>1, PointersNat
    <3> QED
      BY <1>1, <3>1, <3>2, <3>3, <3>4, PlayNames DEF Scanning, Parsed
  <2> QED
    BY <2>1, <2>2
<1>7. Ranked' /\ OthersFreed' /\ Printed'
  BY <1>1, <1>2, NothingPrinted
<1> QED
  BY <1>4, <1>5, <1>6, <1>7 DEF KdsInv, Structures

\* A character that is skipped.
LEMMA StepSkip == KdsInv /\ Skip => KdsInv'
<1> SUFFICES ASSUME KdsInv, Skip PROVE KdsInv'
  OBVIOUS
<1>1. /\ stage = "parse" /\ Advance /\ (~AtEnd \/ Token = <<>>)
      /\ UNCHANGED <<text, nums, ptr, store, table, heap, spare, printed>>
  BY DEF Skip
<1>2. /\ Pointers /\ Reads(slow, nums) /\ Fresh /\ printed = <<>>
      /\ heap \subseteq {<<"nums", 0>>} /\ (<<"nums", 0>> \in heap \/ spare < Shortages)
      /\ nums \in Seq(Ints) /\ Len(nums) \in Nat /\ Len(nums) <= MaxNums
  BY <1>1, ParserState
<1>3. CASE AtEnd
  <2>1. Reads(temp + 1, nums)
    BY <1>1, <1>2, <1>3, SkipReads, TokenFacts
  <2>2. PICK k : k = temp + 1
    OBVIOUS
  <2>3. Reads(k, nums')
    BY <1>1, <2>1, <2>2
  <2> QED
    BY <1>1, <1>2, <1>3, <2>2, <2>3, AdvanceEnd
<1>4. CASE ~AtEnd
  <2>1. temp # Len(text) + 1 /\ text[temp] # Space /\ ~AtNul
    BY <1>4 DEF AtEnd, AtNul
  <2>2. temp' = temp + 1 /\ slow' = slow /\ stage' = "parse"
    BY <1>1, <1>4, <2>1 DEF Advance
  <2>3. KdsTypes'
    <3>1. {slow', temp'} \subseteq 1 .. Len(text) + 1 /\ slow' <= temp'
      BY <1>2, <2>1, <2>2, PointersNat
    <3> QED
      BY <1>1, <2>2, <3>1 DEF KdsInv, KdsTypes
  <2>4. Structures'
    BY <1>1, <1>2, <2>3, FreshAfter DEF Fresh
  <2>5. Scanning'
    <3>1. \A n \in slow .. temp' - 1 : text[n] # Space
      BY <1>2, <2>1, <2>2, PointersNat DEF Pointers
    <3>2. PICK k : k = slow
      OBVIOUS
    <3>3. Reads(k, nums') /\ slow' = k
      BY <1>1, <1>2, <2>2, <3>2
    <3>4. Reads(slow, nums)'
      BY <1>1, <3>3, ReadsKept
    <3>5. slow' = 1 \/ text'[slow' - 1] = Space
      BY <1>1, <1>2, <2>2 DEF Pointers
    <3> QED
      BY <1>1, <1>2, <2>2, <3>1, <3>4, <3>5, PlayNames DEF Scanning, Parsed
  <2>6. Ranked' /\ OthersFreed' /\ Printed'
    BY <1>1, <1>2, <2>2, NothingPrinted
  <2> QED
    BY <2>3, <2>4, <2>5, <2>6 DEF KdsInv, Structures
<1> QED
  BY <1>3, <1>4

\* A number is stored.
LEMMA StepParse == KdsInv /\ ParseNumber => KdsInv'
<1> SUFFICES ASSUME KdsInv, ParseNumber PROVE KdsInv'
  OBVIOUS
<1>1. /\ stage = "parse" /\ AtEnd /\ Token # <<>> /\ Accepted(Token)
      /\ Len(nums) < MaxNums /\ Advance
      /\ nums' = Append(nums, Number(Token))
      /\ UNCHANGED <<text, ptr, store, table, heap, spare, printed>>
  BY DEF ParseNumber
<1>2. Pointers /\ Reads(slow, nums) /\ nums \in Seq(Ints) /\ Len(nums) \in Nat
  BY <1>1, ParserState
<1>3. slow < temp
  BY <1>1, <1>2, TokenFacts, PointersNat
<1>4. PICK ns : ns = Append(nums, Number(Token))
  OBVIOUS
<1>5. ns \in Seq(Ints) /\ Len(ns) = Len(nums) + 1 /\ Reads(temp + 1, ns)
  BY <1>1, <1>2, <1>3, <1>4, NumberReads
<1>6. PICK k : k = temp + 1
  OBVIOUS
<1>7. nums' = ns
  BY <1>1, <1>4
<1>8. Reads(k, nums')
  BY <1>5, <1>6, <1>7
<1>9. nums' \in Seq(Ints) /\ Len(nums') <= MaxNums
  BY <1>1, <1>2, <1>5, <1>7, KdsAssumption
<1> QED
  BY <1>1, <1>6, <1>8, <1>9, AdvanceEnd

\* The first number is stored where there is no array.
LEMMA StepStoreFails == KdsInv /\ StoreFails => KdsInv'
<1> SUFFICES ASSUME KdsInv, StoreFails PROVE KdsInv'
  OBVIOUS
<1>1. /\ stage = "parse" /\ <<"nums", 0>> \notin heap /\ stage' = "oops"
      /\ UNCHANGED <<text, temp, slow, nums, ptr, store, table, heap, spare, printed>>
  BY DEF StoreFails, parseVars
<1>2. Fresh /\ printed = <<>> /\ spare < Shortages
  BY <1>1, ParserState
<1>3. KdsTypes'
  BY <1>1 DEF KdsInv, KdsTypes, Ended
<1>4. Structures'
  BY <1>1, <1>2, <1>3, FreshAfter DEF Fresh
<1>5. Scanning'
  BY <1>1, PlayNames DEF Scanning, Parsed
<1>6. Ranked' /\ OthersFreed' /\ Printed'
  BY <1>1, <1>2, NothingPrinted
<1> QED
  BY <1>3, <1>4, <1>5, <1>6 DEF KdsInv, Structures

\* The module is refused for a word that is no number or no long.
LEMMA StepFails == KdsInv /\ ParseFails => KdsInv'
<1> SUFFICES ASSUME KdsInv, ParseFails PROVE KdsInv'
  OBVIOUS
<1>1. /\ stage = "parse" /\ AtEnd /\ Token # <<>> /\ ~Accepted(Token) /\ stage' = "refused"
      /\ UNCHANGED <<text, temp, slow, nums, ptr, store, table, heap, spare, printed>>
  BY DEF ParseFails, parseVars
<1>2. Pointers /\ Fresh /\ printed = <<>> /\ heap \subseteq {<<"nums", 0>>}
  BY <1>1, ParserState
<1>3. <<slow, temp - 1>> \in Words /\ ~Accepted(Word(<<slow, temp - 1>>))
  BY <1>1, <1>2, TokenFacts, TokenIsWord, TokenWord, PointersNat
<1>4. \E w \in Words' : ~Accepted(Word(w)')
  BY <1>1, <1>3, WordsKept
<1>5. KdsTypes'
  BY <1>1 DEF KdsInv, KdsTypes, Ended
<1>6. Structures'
  BY <1>1, <1>2, <1>5, FreshAfter DEF Fresh
<1>7. Scanning'
  BY <1>1, <1>4, PlayNames DEF Scanning, Parsed
<1>8. Ranked' /\ OthersFreed' /\ Printed'
  BY <1>1, <1>2, NothingPrinted
<1> QED
  BY <1>5, <1>6, <1>7, <1>8 DEF KdsInv, Structures

\* The array is full and the text has one more word.
LEMMA StepMany == KdsInv /\ TooMany => KdsInv'
<1> SUFFICES ASSUME KdsInv, TooMany PROVE KdsInv'
  OBVIOUS
<1>1. /\ stage = "parse" /\ AtEnd /\ Token # <<>> /\ stage' = "full" /\ Len(nums) >= MaxNums
      /\ heap' = heap \ {<<"nums", 0>>}
      /\ UNCHANGED <<text, temp, slow, nums, ptr, store, table, spare, printed>>
  BY DEF TooMany, parseVars
<1>2. /\ Pointers /\ Reads(slow, nums) /\ Fresh /\ printed = <<>> /\ heap \subseteq {<<"nums", 0>>}
      /\ Len(nums) \in Nat /\ Len(nums) <= MaxNums /\ MaxNums \in Nat
  BY <1>1, ParserState, KdsAssumption
<1> DEFINE w0 == <<slow, temp - 1>>
<1>3. w0 \in Words /\ w0 \notin Before(slow)
  BY <1>1, <1>2, TokenFacts, TokenIsWord, ReadNext, PointersNat
<1>4. IsFiniteSet(Words) /\ Before(slow) \subseteq Words
  BY <1>2, WordsFinite DEF Pointers, Before
<1>5. Cardinality(Words) > MaxNums
  <2>1. /\ Cardinality(Before(slow)) <= Cardinality(Words)
        /\ Cardinality(Before(slow)) = Cardinality(Words) => Before(slow) = Words
    BY <1>4, FS_Subset
  <2>2. Cardinality(Words) \in Nat
    BY <1>4, FS_CardinalityType
  <2>3. Cardinality(Before(slow)) = MaxNums
    BY <1>1, <1>2 DEF Reads
  <2> HIDE DEF w0
  <2> QED
    BY <1>2, <1>3, <2>1, <2>2, <2>3
<1>6. Cardinality(Words') > MaxNums
  BY <1>1, <1>5, WordsKept
<1>7. KdsTypes'
  BY <1>1 DEF KdsInv, KdsTypes, Ended
<1>8. Structures'
  BY <1>1, <1>2, <1>7, FreshAfter DEF Fresh
<1>9. Scanning'
  BY <1>1, <1>6, PlayNames DEF Scanning, Parsed
<1>10. Ranked' /\ OthersFreed' /\ Printed'
  BY <1>1, <1>2, NothingPrinted
<1> QED
  BY <1>7, <1>8, <1>9, <1>10 DEF KdsInv, Structures

\* nums is allocated, or a failure fewer is to come.
LEMMA StepBegin == KdsInv /\ Begin => KdsInv'
<1> SUFFICES ASSUME KdsInv, Begin PROVE KdsInv'
  OBVIOUS
<1>1. /\ stage = "start" /\ stage' = "parse"
      /\ \/ heap' = {<<"nums", 0>>} /\ spare' = spare
         \/ spare > 0 /\ spare' = spare - 1 /\ heap' = heap
      /\ UNCHANGED <<text, temp, slow, nums, ptr, store, table, printed>>
  BY DEF Begin, parseVars
<1>2. Pointers /\ Reads(slow, nums) /\ Fresh /\ spare = Shortages /\ printed = <<>> /\ heap = {}
  BY <1>1, ParserState
<1>3. /\ heap' \subseteq {<<"nums", 0>>} /\ spare' \in 0 .. Shortages
      /\ <<"nums", 0>> \in heap' \/ spare' < Shortages
  BY <1>1, <1>2, KdsAssumption
<1>4. KdsTypes'
  BY <1>1, <1>3 DEF KdsInv, KdsTypes, Allocated
<1>5. Structures'
  BY <1>1, <1>2, <1>4, FreshAfter DEF Fresh
<1>6. Scanning'
  <2>1. PICK k : k = slow
    OBVIOUS
  <2>2. Reads(k, nums') /\ slow' = k
    BY <1>1, <1>2, <2>1
  <2>3. Reads(slow, nums)'
    BY <1>1, <2>2, ReadsKept
  <2> QED
    BY <1>1, <1>2, <1>3, <2>3, PlayNames DEF Scanning, Parsed, Pointers
<1>7. Ranked' /\ OthersFreed' /\ Printed'
  BY <1>1, <1>2, NothingPrinted
<1> QED
  BY <1>4, <1>5, <1>6, <1>7 DEF KdsInv, Structures

-----------------------------------------------------------------------------
(* What the steps of the six functions have in common                      *)

\* What the functions are called with stays as it was parsed.
LEMMA ScanningKept ==
  ASSUME KdsInv, UNCHANGED parseVars, stage \in Plays, stage' \in Plays \cup {"done", "oops"}
  PROVE  Scanning'
<1>1. text' = text /\ nums' = nums
  BY DEF parseVars
<1>2. /\ Len(nums) = Cardinality(Words)
      /\ \A w \in Words : Accepted(Word(w)) /\ nums[Place(w)] = Number(Word(w))
  BY DEF KdsInv, Scanning, Parsed
<1>3. /\ Len(nums') = Cardinality(Words')
      /\ \A w \in Words' : Accepted(Word(w)') /\ nums'[Place(w)'] = Number(Word(w)')
  BY <1>1, <1>2, WordsKept
<1>4. stage' \notin {"start", "parse", "refused", "full"}
  BY PlayNames
<1> QED
  BY <1>3, <1>4 DEF Scanning, Parsed

\* What is said of printed lines depends on the numbers alone.
LEMMA LinesKept ==
  ASSUME nums' = nums
  PROVE  /\ \A ph, lines : PrintedBy(ph, lines)' <=> PrintedBy(ph, lines)
         /\ \A ph, m : Shared(ph, m)' <=> Shared(ph, m)
         /\ \A ph, m : EntryOf(ph, m)' = EntryOf(ph, m)
<1>1. Odd' = Odd
  BY DEF Odd
<1>2. \A ph, m : Shared(ph, m)' <=> Shared(ph, m)
  BY DEF Shared, Hash
<1> QED
  BY <1>1, <1>2 DEF PrintedBy, EntryOf

\* Lines printed earlier stay true.
LEMMA PrintedKept ==
  ASSUME KdsInv, UNCHANGED parseVars, printed' = printed,
         stage' = "oops" => spare' < Shortages \/ ~(ToSet(nums) \subseteq 0 .. BitmapBits - 1)
  PROVE  Printed'
<1>1. nums' = nums
  BY DEF parseVars
<1> QED
  BY <1>1, LinesKept DEF KdsInv, Printed

\* The functions in their order.
LEMMA RankFacts ==
  /\ \A ph \in Plays : Rank[ph] \in 1 .. 6
  /\ \A ph \in Plays \ {"bitmap"} : After[ph] \in Plays /\ Rank[After[ph]] = Rank[ph] + 1
  BY PlayNames DEF Rank

\* What was freed earlier stays so while the next function runs or gives up.
LEMMA FreedKept ==
  ASSUME KdsInv, UNCHANGED parseVars, printed' = printed, stage \in Plays,
         stage' \in {stage, After[stage], "oops"}, stage' # "done",
         \A x \in heap' : \/ x \in heap
                          \/ stage = "hash" /\ x = <<"ht", 0>>
                          \/ \E m : x = <<stage, m>>
  PROVE  Ranked' /\ OthersFreed'
<1>1. nums' = nums /\ \A ph, m : Shared(ph, m)' <=> Shared(ph, m)
  BY LinesKept DEF parseVars
<1>2. \A n \in DOMAIN printed :
        /\ printed[n].by \in Plays /\ Rank[printed[n].by] < Rank[stage]
        /\ printed[n].by = "hash" => <<"ht", 0>> \notin heap
        /\ \A m \in DOMAIN nums : <<printed[n].by, m>> \in heap => Shared(printed[n].by, m)
  BY DEF KdsInv, Ranked, OthersFreed
<1>3. stage' \in Plays => Rank[stage'] >= Rank[stage]
  BY RankFacts, PlayNames
<1>4. \A ph \in Plays : Rank[ph] \in Nat
  BY RankFacts
<1>5. Ranked'
  <2> SUFFICES ASSUME NEW n \in DOMAIN printed
               PROVE  printed[n].by \in Plays /\ (stage' \in Plays => Rank[printed[n].by] < Rank[stage'])
    BY DEF Ranked
  <2> QED
    BY <1>2, <1>3, <1>4
<1>6. OthersFreed'
  <2>1. stage' \notin {"refused", "full", "done"}
    BY PlayNames
  <2> SUFFICES ASSUME NEW n \in DOMAIN printed
               PROVE  /\ printed[n].by = "hash" => <<"ht", 0>> \notin heap'
                      /\ \A m \in DOMAIN nums :
                           <<printed[n].by, m>> \in heap' => Shared(printed[n].by, m)
    BY <1>1, <2>1 DEF OthersFreed
  <2>2. PICK ph : ph = printed[n].by
    OBVIOUS
  <2>3. ph \in Plays /\ ph # stage
    BY <1>2, <1>4, <2>2
  <2>4. ph = "hash" => <<"ht", 0>> \notin heap'
    <3>1. \A m : <<"ht", 0>> # <<stage, m>>
      BY PlayNames
    <3> QED
      BY <1>2, <2>2, <2>3, <3>1
  <2>5. ASSUME NEW m \in DOMAIN nums, <<ph, m>> \in heap' PROVE Shared(ph, m)
    <3>1. <<ph, m>> # <<"ht", 0>> /\ \A k : <<ph, m>> # <<stage, k>>
      BY <2>3, PlayNames
    <3>2. <<ph, m>> \in heap
      BY <2>5, <3>1
    <3> QED
      BY <1>2, <2>2, <3>2
  <2> QED
    BY <2>2, <2>4, <2>5
<1> QED
  BY <1>5, <1>6

\* What has been printed, with the lines of one more function.
LEMMA OneMore ==
  ASSUME KdsInv, NEW e, printed' = Append(printed, e)
  PROVE  /\ \A n \in DOMAIN printed' :
               printed'[n] = e \/ (n \in DOMAIN printed /\ printed'[n] = printed[n])
         /\ \E S : printed' \in Seq(S)
<1>1. PICK S : printed \in Seq(S)
  BY DEF KdsInv, KdsTypes
<1>2. printed \in Seq(S \cup {e}) /\ e \in S \cup {e}
  BY <1>1, SeqMonotonic
<1>3. /\ Append(printed, e) \in Seq(S \cup {e})
      /\ Len(Append(printed, e)) = Len(printed) + 1
      /\ \A n \in 1 .. Len(printed) : Append(printed, e)[n] = printed[n]
      /\ Append(printed, e)[Len(printed) + 1] = e
  BY <1>2, AppendProperties
<1>4. DOMAIN printed = 1 .. Len(printed) /\ DOMAIN Append(printed, e) = 1 .. Len(printed) + 1
      /\ Len(printed) \in Nat
  BY <1>2, <1>3, LenProperties
<1>5. \A n \in 1 .. Len(printed) + 1 : n = Len(printed) + 1 \/ n \in 1 .. Len(printed)
  BY <1>4
<1> QED
  BY <1>3, <1>4, <1>5

\* One more function prints its lines and frees what it need not share.
LEMMA PrintedMore ==
  ASSUME KdsInv, UNCHANGED parseVars, NEW ph \in Plays, stage = ph, stage' = After[ph],
         NEW lines, PrintedBy(ph, lines),
         printed' = Append(printed, [by |-> ph, lines |-> lines]),
         heap' \subseteq heap,
         \A m \in DOMAIN nums : <<ph, m>> \in heap' => Shared(ph, m),
         ph = "hash" => <<"ht", 0>> \notin heap',
         ph = "bitmap" => <<"nums", 0>> \notin heap'
  PROVE  Printed' /\ Ranked' /\ OthersFreed' /\ \E S : printed' \in Seq(S)
<1>1. /\ nums' = nums
      /\ \A p, m : Shared(p, m)' <=> Shared(p, m)
      /\ \A p, l : PrintedBy(p, l)' <=> PrintedBy(p, l)
  BY LinesKept DEF parseVars
<1>2. PICK e : e = [by |-> ph, lines |-> lines]
  OBVIOUS
<1>3. /\ \A n \in DOMAIN printed' :
           printed'[n] = e \/ (n \in DOMAIN printed /\ printed'[n] = printed[n])
      /\ \E S : printed' \in Seq(S)
  BY <1>2, OneMore
<1>4. e.by = ph /\ e.lines = lines
  BY <1>2
<1>5. stage' \in Plays \cup {"done"} /\ (stage' = "done" => ph = "bitmap")
  BY PlayNames
<1>6. Printed'
  <2>1. \A n \in DOMAIN printed' : PrintedBy(printed'[n].by, printed'[n].lines)
    BY <1>3, <1>4 DEF KdsInv, Printed
  <2>2. stage' # "oops"
    BY <1>5, PlayNames
  <2> QED
    BY <1>1, <2>1, <2>2 DEF Printed
<1>7. Ranked'
  <2>1. stage' \in Plays => Rank[stage'] = Rank[ph] + 1
    BY RankFacts, PlayNames
  <2>2. \A p \in Plays : Rank[p] \in Nat
    BY RankFacts
  <2>3. \A n \in DOMAIN printed : printed[n].by \in Plays /\ Rank[printed[n].by] < Rank[ph]
    BY DEF KdsInv, Ranked
  <2> SUFFICES ASSUME NEW n \in DOMAIN printed'
               PROVE  /\ printed'[n].by \in Plays
                      /\ stage' \in Plays => Rank[printed'[n].by] < Rank[stage']
    BY DEF Ranked
  <2>4. CASE printed'[n] = e
    BY <1>4, <2>1, <2>2, <2>4
  <2>5. CASE n \in DOMAIN printed /\ printed'[n] = printed[n]
    <3>1. PICK p \in Plays : p = printed[n].by /\ Rank[p] < Rank[ph]
      BY <2>3, <2>5
    <3> QED
      BY <2>1, <2>2, <2>5, <3>1
  <2> QED
    BY <1>3, <2>4, <2>5
<1>8. OthersFreed'
  <2>1. stage' \notin {"refused", "full"} /\ (stage' = "done" => <<"nums", 0>> \notin heap')
    BY <1>5, PlayNames
  <2>2. \A n \in DOMAIN printed :
          /\ printed[n].by = "hash" => <<"ht", 0>> \notin heap'
          /\ \A m \in DOMAIN nums : <<printed[n].by, m>> \in heap' => Shared(printed[n].by, m)
    BY DEF KdsInv, OthersFreed
  <2>3. \A n \in DOMAIN printed' :
          /\ printed'[n].by = "hash" => <<"ht", 0>> \notin heap'
          /\ \A m \in DOMAIN nums : <<printed'[n].by, m>> \in heap' => Shared(printed'[n].by, m)
    BY <1>3, <1>4, <2>2
  <2> QED
    BY <1>1, <2>1, <2>3 DEF OthersFreed
<1> QED
  BY <1>3, <1>6, <1>7, <1>8

\* What the functions work on, and that the last begins with nothing stored.
LEMMA PhaseFacts ==
  ASSUME KdsInv, stage \in Plays
  PROVE  /\ nums \in Seq(Ints) /\ Len(nums) \in Nat /\ Len(nums) <= MaxNums /\ MaxNums \in Nat
         /\ DOMAIN nums = 1 .. Len(nums) /\ \A n \in 1 .. Len(nums) : nums[n] \in Int
         /\ ptr \in 1 .. Len(nums) + 1 /\ ptr \in Nat
         /\ store \in Seq(EntryType) /\ Len(store) \in Nat /\ DOMAIN store = 1 .. Len(store)
         /\ spare \in Nat /\ spare <= Shortages /\ Shortages \in Nat
         /\ stage = "bitmap" => Fresh
<1>1. nums \in Seq(Ints) /\ ptr \in 1 .. Len(nums) + 1 /\ store \in Seq(EntryType)
      /\ Len(nums) <= MaxNums /\ spare \in 0 .. Shortages
  BY DEF KdsInv, KdsTypes
<1>2. MaxNums \in Nat /\ Shortages \in Nat
  BY KdsAssumption
<1>3. stage = "bitmap" => Fresh
  BY DEF KdsInv, Stored, Fresh
<1> QED
  BY <1>1, <1>2, <1>3, LenProperties, ElementOfSeq, IntsAreInts

\* An allocation fails.
LEMMA StepNoMemory == KdsInv /\ NoMemory => KdsInv'
<1> SUFFICES ASSUME KdsInv, NoMemory PROVE KdsInv'
  OBVIOUS
<1>1. /\ stage \in Plays \ {"bitmap"} /\ spare > 0 /\ spare' = spare - 1
      /\ stage' = After[stage] /\ ptr' = 1 /\ store' = <<>> /\ table' = NoTable
      /\ UNCHANGED <<parseVars, heap, printed>>
  BY DEF NoMemory
<1>2. stage' \in Plays
  BY <1>1, PlayNames
<1>3. KdsTypes'
  <2>1. spare' \in 0 .. Shortages /\ 1 \in 1 .. Len(nums) + 1
    BY <1>1, PhaseFacts
  <2> QED
    BY <1>1, <1>2, <2>1, FreshTypes DEF KdsInv, KdsTypes, parseVars
<1>4. Structures'
  BY <1>1, <1>3, FreshAfter DEF Fresh
<1>5. Scanning' /\ Printed'
  <2>1. stage' # "oops"
    BY <1>2, PlayNames
  <2> QED
    BY <1>1, <1>2, <2>1, ScanningKept, PrintedKept
<1>6. Ranked' /\ OthersFreed'
  <2>1. stage \in Plays /\ stage' # "done"
    BY <1>1, <1>2, PlayNames
  <2> QED
    BY <1>1, <2>1, FreedKept
<1> QED
  BY <1>3, <1>4, <1>5, <1>6 DEF KdsInv, Structures

\* A turn of an insertion loop, but for what it does to the structure.
LEMMA TurnKeeps ==
  ASSUME KdsInv, NEW ph \in Plays \ {"bitmap"}, Turn(ph), spare' \in 0 .. Shortages
  PROVE  /\ stage = ph /\ stage' = ph /\ ptr' = ptr + 1 /\ nums' = nums
         /\ ptr \in 1 .. Len(nums) /\ Entry \in EntryType /\ Entry = EntryOf(ph, ptr)
         /\ heap' = heap \cup {<<ph, ptr>>}
         /\ store' \in Seq(EntryType) /\ table' \in [0 .. Buckets - 1 -> Seq(EntryType)]
              => KdsTypes'
         /\ Scanning' /\ Printed' /\ Ranked' /\ OthersFreed'
<1>1. /\ stage = ph /\ ptr <= Len(nums) /\ heap' = heap \cup {<<ph, ptr>>} /\ ptr' = ptr + 1
      /\ UNCHANGED <<parseVars, stage, printed>>
  BY DEF Turn
<1>2. nums' = nums
  BY <1>1 DEF parseVars
<1>3. ptr \in 1 .. Len(nums) /\ nums[ptr] \in Int
  BY <1>1, PhaseFacts
<1>4. Entry \in EntryType /\ Entry = EntryOf(ph, ptr)
  BY <1>1, <1>3 DEF Entry, EntryOf, EntryType
<1>5. heap' \subseteq Allocated
  <2>1. <<ph, ptr>> \in Allocated
    BY <1>3, PhaseFacts, <1>1 DEF Allocated
  <2> QED
    BY <1>1, <2>1 DEF KdsInv, KdsTypes
<1>6. ASSUME store' \in Seq(EntryType), table' \in [0 .. Buckets - 1 -> Seq(EntryType)]
      PROVE  KdsTypes'
  <2>1. ptr' \in 1 .. Len(nums') + 1
    BY <1>1, <1>2, <1>3, PhaseFacts
  <2> QED
    BY <1>1, <1>5, <1>6, <2>1 DEF KdsInv, KdsTypes, parseVars
<1>7. Scanning' /\ Printed'
  <2>1. stage' # "oops" /\ stage \in Plays /\ stage' \in Plays
    BY <1>1, PlayNames
  <2> QED
    BY <1>1, <2>1, ScanningKept, PrintedKept
<1>8. Ranked' /\ OthersFreed'
  <2>1. stage' # "done" /\ stage \in Plays
    BY <1>1, PlayNames
  <2>2. \A x \in heap' : x \in heap \/ \E m : x = <<stage, m>>
    BY <1>1
  <2> QED
    BY <1>1, <2>1, <2>2, FreedKept
<1> QED
  BY <1>1, <1>2, <1>3, <1>4, <1>5, <1>6, <1>7, <1>8

-----------------------------------------------------------------------------
(* Insertion into sequences                                                *)

\* The sequence with e in front.
LEMMA Prepended ==
  ASSUME NEW S, NEW s \in Seq(S), NEW e \in S
  PROVE  /\ <<e>> \o s \in Seq(S) /\ Len(<<e>> \o s) = Len(s) + 1
         /\ (<<e>> \o s)[1] = e
         /\ \A n \in 1 .. Len(s) : (<<e>> \o s)[n + 1] = s[n]
         /\ DOMAIN (<<e>> \o s) = 1 .. Len(s) + 1 /\ DOMAIN s = 1 .. Len(s) /\ Len(s) \in Nat
<1>1. <<e>> \in Seq(S) /\ Len(<<e>>) = 1 /\ <<e>>[1] = e
  OBVIOUS
<1>2. Len(s) \in Nat /\ DOMAIN s = 1 .. Len(s)
  BY LenProperties
<1>3. /\ <<e>> \o s \in Seq(S) /\ Len(<<e>> \o s) = 1 + Len(s)
      /\ \A n \in 1 .. 1 + Len(s) : (<<e>> \o s)[n] = IF n <= 1 THEN <<e>>[1] ELSE s[n - 1]
  <2>1. \A n \in 1 .. Len(<<e>>) + Len(s) : (<<e>> \o s)[n] =
           IF n <= Len(<<e>>) THEN <<e>>[n] ELSE s[n - Len(<<e>>)]
    BY <1>1, ConcatProperties
  <2>2. \A n \in 1 .. 1 + Len(s) : n <= 1 => n = 1
    OBVIOUS
  <2> QED
    BY <1>1, <2>1, <2>2, ConcatProperties
<1>4. DOMAIN (<<e>> \o s) = 1 .. Len(s) + 1
  BY <1>2, <1>3, LenProperties
<1>5. (<<e>> \o s)[1] = e
  BY <1>1, <1>2, <1>3
<1>6. \A n \in 1 .. Len(s) : (<<e>> \o s)[n + 1] = s[n]
  BY <1>2, <1>3
<1> QED
  BY <1>2, <1>3, <1>4, <1>5, <1>6

\* The sequence with e as its k-th element.
LEMMA Inserted ==
  ASSUME NEW S, NEW s \in Seq(S), NEW k \in 1 .. Len(s) + 1, NEW e \in S
  PROVE  /\ InsertAt(s, k, e) \in Seq(S)
         /\ Len(InsertAt(s, k, e)) = Len(s) + 1
         /\ InsertAt(s, k, e)[k] = e
         /\ \A j \in 1 .. Len(s) : InsertAt(s, k, e)[IF j < k THEN j ELSE j + 1] = s[j]
<1> DEFINE a == SubSeq(s, 1, k - 1)
           b == SubSeq(s, k, Len(s))
           m == a \o <<e>>
<1>1. Len(s) \in Nat /\ \A i \in 1 .. Len(s) : s[i] \in S
  BY LenProperties, ElementOfSeq
<1>2. a \in Seq(S) /\ Len(a) = k - 1 /\ \A j \in 1 .. k - 1 : a[j] = s[j]
  BY <1>1, SubSeqProperties
<1>3. b \in Seq(S) /\ Len(b) = Len(s) + 1 - k /\ \A j \in 1 .. Len(s) + 1 - k : b[j] = s[k + j - 1]
  BY <1>1, SubSeqProperties
<1> HIDE DEF a, b
<1>4. /\ m \in Seq(S) /\ Len(m) = k /\ m[k] = e
      /\ \A j \in 1 .. k - 1 : m[j] = s[j]
  <2>1. <<e>> \in Seq(S) /\ Len(<<e>>) = 1 /\ <<e>>[1] = e
    OBVIOUS
  <2> QED
    BY <1>1, <1>2, <2>1, ConcatProperties
<1> HIDE DEF m
<1>5. /\ m \o b \in Seq(S) /\ Len(m \o b) = Len(m) + Len(b)
      /\ \A i \in 1 .. Len(m) + Len(b) : (m \o b)[i] = IF i <= Len(m) THEN m[i] ELSE b[i - Len(m)]
  BY <1>3, <1>4, ConcatProperties
<1>6. ASSUME NEW j \in 1 .. Len(s)
      PROVE  (m \o b)[IF j < k THEN j ELSE j + 1] = s[j]
  <2>1. CASE j < k
    BY <1>1, <1>3, <1>4, <1>5, <2>1
  <2>2. CASE ~(j < k)
    <3>1. (m \o b)[j + 1] = b[j + 1 - k] /\ j + 1 - k \in 1 .. Len(s) + 1 - k
      BY <1>1, <1>3, <1>4, <1>5, <2>2
    <3>2. k + (j + 1 - k) - 1 = j
      BY <1>1
    <3>3. b[j + 1 - k] = s[k + (j + 1 - k) - 1]
      BY <1>3, <3>1
    <3> QED
      BY <2>2, <3>1, <3>2, <3>3
  <2> QED
    BY <2>1, <2>2
<1>7. InsertAt(s, k, e) = m \o b
  BY DEF a, b, m, InsertAt
<1>8. (m \o b)[k] = e
  BY <1>1, <1>3, <1>4, <1>5
<1> QED
  BY <1>1, <1>3, <1>4, <1>5, <1>6, <1>7, <1>8

\* A set of places that has all those before any of its own is the first ones.
LEMMA FirstPlaces ==
  ASSUME NEW L \in Nat, NEW P, P \subseteq 1 .. L, \A n \in P : \A m \in 1 .. n : m \in P
  PROVE  Cardinality(P) \in 0 .. L /\ P = 1 .. Cardinality(P)
<1> DEFINE T == (1 .. L + 1) \ P
<1>1. PICK c \in T : \A y \in T : c <= y
  <2>1. T \subseteq Nat /\ L + 1 \in T
    OBVIOUS
  <2> HIDE DEF T
  <2> QED
    BY <2>1, Least
<1>2. c \in 1 .. L + 1 /\ c \notin P /\ \A m \in 1 .. c - 1 : m \in P
  <2>1. c \in 1 .. L + 1 /\ c \notin P
    OBVIOUS
  <2>2. ASSUME NEW m \in 1 .. c - 1 PROVE m \in P
    BY <1>1, <2>1, <2>2
  <2> QED
    BY <2>1, <2>2
<1>3. P = 1 .. c - 1
  <2>1. ASSUME NEW n \in P PROVE n \in 1 .. c - 1
    <3>1. n \in 1 .. L /\ ~(c \in 1 .. n)
      BY <1>2
    <3> QED
      BY <1>2, <3>1
  <2> QED
    BY <1>2, <2>1
<1>4. Cardinality(1 .. c - 1) = c - 1
  BY <1>2, FS_Interval
<1> QED
  BY <1>2, <1>3, <1>4

-----------------------------------------------------------------------------
(* The insertion loops                                                     *)

\* What is known of the entries of a structure kept as a sequence.
LEMMA StoredFacts ==
  ASSUME KdsInv, stage \in {"list", "rb", "radix", "xarray"}
  PROVE  /\ \A n \in DOMAIN store : \E m \in 1 .. ptr - 1 : store[n] = EntryOf(stage, m)
         /\ \A n \in DOMAIN store : /\ store[n] \in EntryType
                                    /\ store[n].id[1] = stage /\ store[n].id[2] \in 1 .. ptr - 1
                                    /\ store[n].id = <<stage, store[n].id[2]>>
                                    /\ store[n].data = nums[store[n].id[2]] /\ store[n].data \in Int
         /\ table = NoTable
<1>1. \A n \in DOMAIN store : \E m \in 1 .. ptr - 1 : store[n] = EntryOf(stage, m)
  BY DEF KdsInv, Stored
<1>2. \A m : EntryOf(stage, m).id = <<stage, m>> /\ EntryOf(stage, m).data = nums[m]
  BY DEF EntryOf
<1>3. \A n \in DOMAIN store : store[n] \in EntryType
  BY PhaseFacts, ElementOfSeq, PlayNames
<1>4. \A n \in DOMAIN store : store[n].data \in Int
  BY <1>3 DEF EntryType
<1> QED
  BY <1>1, <1>2, <1>3, <1>4 DEF KdsInv, Stored

\* Of a structure kept as a sequence, what a turn has to keep.
LEMMA StoreKeeps ==
  ASSUME KdsInv, NEW ph \in {"list", "rb", "radix", "xarray"}, NEW s, Turn(ph),
         store' = s, table' = table, spare' \in 0 .. Shortages, s \in Seq(EntryType),
         \A n \in DOMAIN s : s[n] = Entry \/ \E m \in DOMAIN store : s[n] = store[m]
  PROVE  KdsTypes' /\ Stored' /\ Hashed'
<1>1. ph \in Plays \ {"bitmap"}
  BY PlayNames
<1>2. /\ stage = ph /\ stage' = ph /\ ptr' = ptr + 1 /\ nums' = nums /\ ptr \in 1 .. Len(nums)
      /\ heap' = heap \cup {<<ph, ptr>>} /\ Entry = EntryOf(ph, ptr)
  BY <1>1, TurnKeeps
<1>3. KdsTypes'
  <2>1. table' \in [0 .. Buckets - 1 -> Seq(EntryType)]
    BY <1>1 DEF KdsInv, KdsTypes
  <2> QED
    BY <1>1, <2>1, TurnKeeps
<1>4. Stored'
  <2>1. Len(nums) \in Nat
    BY <1>1, <1>2, PhaseFacts
  <2>2. \A n \in DOMAIN store' : \E m \in 1 .. ptr' - 1 : store'[n] = EntryOf(stage, m)'
    <3>1. \A m \in 1 .. ptr - 1 : m \in 1 .. ptr' - 1
      BY <1>2, <2>1
    <3>2. ptr \in 1 .. ptr' - 1
      BY <1>2, <2>1
    <3>3. \A n \in DOMAIN s : \E m \in 1 .. ptr' - 1 : s[n] = EntryOf(ph, m)
      BY <1>2, <3>1, <3>2, StoredFacts
    <3> QED
      BY <1>1, <1>2, <3>3, LinesKept
  <2>3. \A m \in 1 .. ptr' - 1 : <<ph, m>> \in heap'
    <3>1. \A m \in 1 .. ptr' - 1 : m = ptr \/ m \in 1 .. ptr - 1
      BY <1>2, <2>1
    <3>2. \A m \in 1 .. ptr - 1 : <<ph, m>> \in heap
      BY <1>1, <1>2 DEF KdsInv, Stored
    <3> QED
      BY <1>2, <3>1, <3>2
  <2>4. table' = NoTable
    BY <1>1, <1>2, StoredFacts
  <2> QED
    BY <1>2, <2>2, <2>3, <2>4, PlayNames DEF Stored
<1>5. Hashed'
  BY <1>2 DEF Hashed
<1> QED
  BY <1>3, <1>4, <1>5

\* What a turn keeps of everything else.
LEMMA RestKeeps ==
  ASSUME KdsInv, NEW ph \in Plays \ {"bitmap"}, Turn(ph), spare' \in 0 .. Shortages,
         KdsTypes', Structures'
  PROVE  KdsInv'
<1>1. Scanning' /\ Printed' /\ Ranked' /\ OthersFreed'
  BY TurnKeeps
<1> QED
  BY <1>1 DEF KdsInv, Structures

\* An entry in front of the list.
LEMMA StepAddList == KdsInv /\ AddList => KdsInv'
<1> SUFFICES ASSUME KdsInv, AddList PROVE KdsInv'
  OBVIOUS
<1> DEFINE s == <<Entry>> \o store
<1>1. /\ Turn("list") /\ store' = s /\ table' = table /\ "list" \in Plays \ {"bitmap"}
      /\ spare' = spare /\ spare' \in 0 .. Shortages
  BY PlayNames DEF AddList, Insert, KdsInv, KdsTypes
<1>2. /\ stage = "list" /\ stage' = "list" /\ ptr' = ptr + 1 /\ nums' = nums
      /\ ptr \in 1 .. Len(nums)
      /\ Entry \in EntryType /\ Entry = EntryOf("list", ptr)
  BY <1>1, TurnKeeps
<1>3. store \in Seq(EntryType) /\ ptr \in Nat
  BY <1>1, <1>2, PhaseFacts
<1>4. /\ s \in Seq(EntryType) /\ Len(s) = Len(store) + 1 /\ s[1] = Entry
      /\ \A n \in 1 .. Len(store) : s[n + 1] = store[n]
      /\ DOMAIN s = 1 .. Len(store) + 1 /\ DOMAIN store = 1 .. Len(store) /\ Len(store) \in Nat
  BY <1>2, <1>3, Prepended
<1> HIDE DEF s
<1>5. Len(store) = ptr - 1 /\ \A n \in 1 .. ptr - 1 : store[n] = EntryOf("list", ptr - n)
  BY <1>2 DEF KdsInv, Listed
<1>6. \A n \in DOMAIN s : n = 1 \/ (n - 1 \in DOMAIN store /\ s[n] = store[n - 1])
  <2> SUFFICES ASSUME NEW n \in 1 .. Len(store) + 1, n # 1
               PROVE  n - 1 \in 1 .. Len(store) /\ s[n] = store[n - 1]
    BY <1>4
  <2>1. n - 1 \in 1 .. Len(store) /\ (n - 1) + 1 = n
    BY <1>4
  <2> QED
    BY <1>4, <2>1
<1>7. KdsTypes' /\ Stored' /\ Hashed'
  BY <1>1, <1>4, <1>6, StoreKeeps
<1>8. Listed'
  <2>1. Len(s) = ptr' - 1
    BY <1>2, <1>3, <1>4, <1>5
  <2>2. ASSUME NEW n \in 1 .. ptr' - 1 PROVE s[n] = EntryOf("list", ptr' - n)
    <3>1. CASE n = 1
      <4>1. ptr' - n = ptr
        BY <1>2, <1>3, <3>1
      <4> QED
        BY <1>2, <1>4, <3>1, <4>1
    <3>2. CASE n # 1
      <4>1. n \in DOMAIN s /\ n - 1 \in 1 .. ptr - 1 /\ ptr - (n - 1) = ptr' - n
        BY <1>2, <1>3, <1>4, <1>5, <3>2
      <4> QED
        BY <1>5, <1>6, <3>2, <4>1
    <3> QED
      BY <3>1, <3>2
  <2> QED
    BY <1>1, <1>2, <2>1, <2>2, LinesKept DEF Listed
<1>9. Sorted' /\ Indexed'
  BY <1>2 DEF Sorted, Indexed
<1> QED
  BY <1>1, <1>7, <1>8, <1>9, RestKeeps DEF Structures

\* The place my_rb_insert finds: after what is not greater, before what is.
LEMMA RbPlaceFacts ==
  ASSUME KdsInv, stage = "rb", ptr \in 1 .. Len(nums)
  PROVE  /\ RbPlace \in 1 .. Len(store) + 1
         /\ \A n \in 1 .. Len(store) :
              n < RbPlace <=> store[n].data <= nums[ptr]
<1> DEFINE P == {n \in DOMAIN store : store[n].data <= nums[ptr]}
<1>1. /\ Len(store) \in Nat /\ DOMAIN store = 1 .. Len(store) /\ nums[ptr] \in Int
      /\ \A n \in 1 .. Len(store) : store[n].data \in Int
  BY PhaseFacts, PlayNames, StoredFacts
<1>2. \A n \in DOMAIN store : \A m \in 1 .. n - 1 : store[m].data <= store[n].data
  BY DEF KdsInv, Sorted
<1>3. ASSUME NEW n \in P, NEW m \in 1 .. n PROVE m \in P
  <2>1. n \in 1 .. Len(store) /\ m \in 1 .. Len(store) /\ store[n].data <= nums[ptr]
    BY <1>1, <1>3
  <2>2. m = n \/ m \in 1 .. n - 1
    BY <1>1, <2>1
  <2>3. store[m].data <= store[n].data
    BY <1>1, <1>2, <2>1, <2>2
  <2> QED
    BY <1>1, <2>1, <2>3
<1>4. P \subseteq 1 .. Len(store) /\ RbPlace = 1 + Cardinality(P)
  BY <1>1 DEF RbPlace
<1> HIDE DEF P
<1>5. Cardinality(P) \in 0 .. Len(store) /\ P = 1 .. Cardinality(P)
  BY <1>1, <1>3, <1>4, FirstPlaces
<1>6. \A n \in 1 .. Len(store) : n \in P <=> store[n].data <= nums[ptr]
  BY <1>1 DEF P
<1>7. \A n \in 1 .. Len(store) : n \in P <=> n < RbPlace
  BY <1>1, <1>4, <1>5
<1> QED
  BY <1>1, <1>4, <1>5, <1>6, <1>7

\* An entry in its place in the tree.
LEMMA StepAddRb == KdsInv /\ AddRb => KdsInv'
<1> SUFFICES ASSUME KdsInv, AddRb PROVE KdsInv'
  OBVIOUS
<1> DEFINE s == InsertAt(store, RbPlace, Entry)
           L == Len(store)
<1>1. /\ Turn("rb") /\ store' = s /\ table' = table /\ "rb" \in Plays \ {"bitmap"}
      /\ spare' = spare /\ spare' \in 0 .. Shortages
  BY PlayNames DEF AddRb, Insert, KdsInv, KdsTypes
<1>2. /\ stage = "rb" /\ stage' = "rb" /\ ptr' = ptr + 1 /\ nums' = nums /\ ptr \in 1 .. Len(nums)
      /\ Entry \in EntryType /\ Entry = EntryOf("rb", ptr)
  BY <1>1, TurnKeeps
<1>3. /\ store \in Seq(EntryType) /\ ptr \in Nat /\ L \in Nat
      /\ DOMAIN store = 1 .. L /\ nums[ptr] \in Int
  BY <1>1, <1>2, PhaseFacts
<1>4. PICK k \in 1 .. L + 1 :
        k = RbPlace /\ \A n \in 1 .. L : n < k <=> store[n].data <= nums[ptr]
  BY <1>2, RbPlaceFacts
<1>5. /\ s \in Seq(EntryType) /\ Len(s) = L + 1 /\ s[k] = Entry
      /\ \A j \in 1 .. L : s[IF j < k THEN j ELSE j + 1] = store[j]
  <2>1. PICK e \in EntryType : e = Entry
    BY <1>2
  <2>2. /\ InsertAt(store, k, e) \in Seq(EntryType)
        /\ Len(InsertAt(store, k, e)) = Len(store) + 1
        /\ InsertAt(store, k, e)[k] = e
        /\ \A j \in 1 .. Len(store) : InsertAt(store, k, e)[IF j < k THEN j ELSE j + 1] = store[j]
    <3>1. PICK q \in Seq(EntryType) : q = store
      BY <1>3
    <3>2. PICK i \in 1 .. Len(q) + 1 : i = k
      BY <1>3, <3>1
    <3>3. /\ InsertAt(q, i, e) \in Seq(EntryType)
          /\ Len(InsertAt(q, i, e)) = Len(q) + 1
          /\ InsertAt(q, i, e)[i] = e
          /\ \A j \in 1 .. Len(q) : InsertAt(q, i, e)[IF j < i THEN j ELSE j + 1] = q[j]
      BY Inserted
    <3> HIDE DEF s, L
    <3> QED
      BY <3>1, <3>2, <3>3
  <2>3. s = InsertAt(store, k, e)
    BY <1>4, <2>1
  <2> HIDE DEF s
  <2> QED
    BY <2>1, <2>2, <2>3
<1>6. DOMAIN s = 1 .. L + 1
  BY <1>5, LenProperties
<1> HIDE DEF s, L
<1> DEFINE at(n) == IF n < k THEN n ELSE n - 1
<1>7. ASSUME NEW n \in 1 .. L + 1, n # k PROVE at(n) \in 1 .. L /\ s[n] = store[at(n)]
  <2>1. at(n) \in 1 .. L /\ (IF at(n) < k THEN at(n) ELSE at(n) + 1) = n
    BY <1>3, <1>4, <1>7
  <2> QED
    BY <1>5, <2>1
<1>8. \A n \in DOMAIN s : s[n] = Entry \/ \E m \in DOMAIN store : s[n] = store[m]
  BY <1>3, <1>4, <1>5, <1>6, <1>7
<1>9. KdsTypes' /\ Stored' /\ Hashed'
  BY <1>1, <1>5, <1>8, StoreKeeps
<1>10. /\ Entry.id = <<"rb", ptr>> /\ Entry.data = nums[ptr]
       /\ \A n \in 1 .. L : /\ store[n].id # <<"rb", ptr>> /\ store[n].data \in Int
                            /\ store[n].id = <<"rb", store[n].id[2]>>
  <2>1. Entry.id = <<"rb", ptr>> /\ Entry.data = nums[ptr]
    BY <1>2 DEF EntryOf
  <2>2. \A n \in 1 .. L : /\ store[n].id[2] \in 1 .. ptr - 1 /\ store[n].data \in Int
                          /\ store[n].id = <<"rb", store[n].id[2]>>
    BY <1>2, <1>3, StoredFacts
  <2> QED
    BY <1>3, <2>1, <2>2
<1>11. \A n \in 1 .. L : \A m \in 1 .. n - 1 :
         store[m].data <= store[n].data /\ store[m].id # store[n].id
  BY <1>2, <1>3 DEF KdsInv, Sorted
<1>12. ASSUME NEW n \in 1 .. L + 1, NEW m \in 1 .. n - 1
       PROVE  s[m].data <= s[n].data /\ s[m].id # s[n].id
  <2>1. m \in 1 .. L + 1 /\ m < n
    BY <1>3
  <2>2. CASE n = k
    <3>1. at(m) = m /\ m \in 1 .. L /\ m < k
      BY <1>3, <1>4, <2>1, <2>2
    <3>2. s[m] = store[m] /\ store[m].data <= nums[ptr]
      BY <1>4, <1>7, <2>1, <3>1
    <3> QED
      BY <1>5, <1>10, <2>2, <3>1, <3>2
  <2>3. CASE m = k
    <3>1. at(n) = n - 1 /\ n - 1 \in 1 .. L /\ ~(n - 1 < k) /\ n # k
      BY <1>3, <1>4, <2>1, <2>3
    <3>2. s[n] = store[n - 1] /\ ~(store[n - 1].data <= nums[ptr])
      BY <1>4, <1>7, <3>1
    <3> QED
      BY <1>3, <1>5, <1>10, <2>3, <3>1, <3>2
  <2>4. CASE n # k /\ m # k
    <3>1. at(m) \in 1 .. at(n) - 1 /\ at(n) \in 1 .. L
      BY <1>3, <1>4, <2>1, <2>4
    <3>2. s[n] = store[at(n)] /\ s[m] = store[at(m)]
      BY <1>7, <2>1, <2>4
    <3> HIDE DEF at
    <3> QED
      BY <1>11, <3>1, <3>2
  <2> QED
    BY <2>2, <2>3, <2>4
<1>13. ASSUME NEW m \in 1 .. ptr PROVE <<"rb", m>> \in Ids(s)
  <2>1. CASE m = ptr
    BY <1>3, <1>4, <1>5, <1>6, <1>10, <2>1 DEF Ids
  <2>2. CASE m # ptr
    <3>1. <<"rb", m>> \in Ids(store)
      <4>1. m \in 1 .. ptr - 1
        BY <1>3, <2>2
      <4> QED
        BY <1>2, <4>1 DEF KdsInv, Sorted
    <3>2. PICK j \in 1 .. L : store[j].id = <<"rb", m>>
      BY <1>3, <3>1 DEF Ids
    <3>3. (IF j < k THEN j ELSE j + 1) \in DOMAIN s
      BY <1>3, <1>6
    <3> QED
      BY <1>5, <3>2, <3>3 DEF Ids
  <2> QED
    BY <2>1, <2>2
<1>14. Sorted'
  <2>1. ptr' - 1 = ptr
    BY <1>2, <1>3
  <2>2. \A m \in 1 .. ptr' - 1 : <<"rb", m>> \in Ids(store)'
    <3>1. Ids(store)' = Ids(s)
      BY <1>1 DEF Ids
    <3> QED
      BY <1>13, <2>1, <3>1
  <2> QED
    BY <1>1, <1>6, <1>12, <2>2 DEF Sorted
<1>15. Listed' /\ Indexed'
  BY <1>2 DEF Listed, Indexed
<1> QED
  BY <1>1, <1>9, <1>14, <1>15, RestKeeps DEF Structures

\* What is found under a key is the entry of a number passed with that key.
LEMMA KeyFacts ==
  ASSUME KdsInv, stage \in {"radix", "xarray"}, NEW k, HasKey(store, k)
  PROVE  \E n \in DOMAIN store : \E m \in 1 .. ptr - 1 :
           store[n].data = k /\ store[n].id = <<stage, m>> /\ nums[m] = k
<1>1. PICK n \in DOMAIN store : store[n].data = k
  BY DEF HasKey
<1>2. /\ store[n].id[2] \in 1 .. ptr - 1 /\ store[n].data = nums[store[n].id[2]]
      /\ store[n].id = <<stage, store[n].id[2]>>
  BY StoredFacts
<1> QED
  BY <1>1, <1>2

\* An index that keeps its keys and gains that of the number inserted has all of
\* those passed.
LEMMA IndexGrows ==
  ASSUME KdsInv, NEW ph \in {"radix", "xarray"}, Turn(ph), spare' = spare,
         spare \in 0 .. Shortages,
         \A k : HasKey(store, k) => HasKey(store', k), HasKey(store', nums[ptr])
  PROVE  Indexed'
<1>1. ph \in Plays \ {"bitmap"}
  BY PlayNames
<1>2. stage = ph /\ ptr' = ptr + 1 /\ nums' = nums /\ ptr \in 1 .. Len(nums)
  BY <1>1, TurnKeeps
<1>3. \A m \in 1 .. ptr' - 1 : m = ptr \/ m \in 1 .. ptr - 1
  BY <1>1, <1>2, PhaseFacts
<1>4. \A m \in 1 .. ptr' - 1 : spare = Shortages => HasKey(store', nums[m])
  BY <1>2, <1>3 DEF KdsInv, Indexed
<1>5. \A k : HasKey(store, k)' <=> HasKey(store', k)
  BY DEF HasKey
<1> QED
  BY <1>2, <1>4 DEF Indexed, HasKey

\* A key of the radix tree is taken, or gets an entry of its own.
LEMMA StepAddRadix == KdsInv /\ AddRadix => KdsInv'
<1> SUFFICES ASSUME KdsInv, AddRadix PROVE KdsInv'
  OBVIOUS
<1> DEFINE s == IF HasKey(store, nums[ptr]) THEN store ELSE Append(store, Entry)
<1>1. /\ Turn("radix") /\ store' = s /\ table' = table /\ "radix" \in Plays \ {"bitmap"}
      /\ spare' = spare /\ spare' \in 0 .. Shortages
  BY PlayNames DEF AddRadix, Insert, KdsInv, KdsTypes
<1>2. /\ stage = "radix" /\ stage' = "radix" /\ ptr' = ptr + 1 /\ nums' = nums
      /\ ptr \in 1 .. Len(nums) /\ Entry \in EntryType /\ Entry = EntryOf("radix", ptr)
  BY <1>1, TurnKeeps
<1>3. /\ store \in Seq(EntryType) /\ ptr \in Nat /\ ptr' - 1 = ptr
      /\ Len(store) \in Nat /\ DOMAIN store = 1 .. Len(store)
  BY <1>1, <1>2, PhaseFacts
<1>4. Entry.id = <<"radix", ptr>> /\ Entry.data = nums[ptr]
  BY <1>2 DEF EntryOf
<1>5. /\ s \in Seq(EntryType)
      /\ \A n \in DOMAIN s : (n \in DOMAIN store /\ s[n] = store[n]) \/ s[n] = Entry
      /\ \A n \in DOMAIN store : n \in DOMAIN s /\ s[n] = store[n]
  <2>1. /\ Append(store, Entry) \in Seq(EntryType)
        /\ DOMAIN Append(store, Entry) = 1 .. Len(store) + 1
        /\ \A n \in 1 .. Len(store) : Append(store, Entry)[n] = store[n]
        /\ Append(store, Entry)[Len(store) + 1] = Entry
    BY <1>2, <1>3, AppendProperties, LenProperties
  <2>2. \A n \in 1 .. Len(store) + 1 : n \in 1 .. Len(store) \/ n = Len(store) + 1
    BY <1>3
  <2> QED
    BY <1>3, <2>1, <2>2
<1>6. HasKey(s, nums[ptr])
  <2>1. CASE HasKey(store, nums[ptr])
    BY <2>1
  <2>2. CASE ~HasKey(store, nums[ptr])
    <3>1. /\ DOMAIN Append(store, Entry) = 1 .. Len(store) + 1
          /\ Append(store, Entry)[Len(store) + 1] = Entry
      BY <1>2, <1>3, AppendProperties, LenProperties
    <3>2. Len(store) + 1 \in DOMAIN s /\ s[Len(store) + 1].data = nums[ptr]
      BY <1>3, <1>4, <2>2, <3>1
    <3> QED
      BY <3>2 DEF HasKey
  <2> QED
    BY <2>1, <2>2
<1> HIDE DEF s
<1>7. KdsTypes' /\ Stored' /\ Hashed'
  BY <1>1, <1>5, StoreKeeps
<1>8. Indexed'
  <2>1. \A k : HasKey(store, k) => HasKey(s, k)
    BY <1>5 DEF HasKey
  <2> QED
    BY <1>1, <1>6, <2>1, IndexGrows
<1>9. Listed' /\ Sorted'
  BY <1>2 DEF Listed, Sorted
<1> QED
  BY <1>1, <1>7, <1>8, <1>9, RestKeeps DEF Structures

\* A key of the xarray gets the new entry, in the place of the old one or its own.
LEMMA StepAddXarray == KdsInv /\ AddXarray => KdsInv'
<1> SUFFICES ASSUME KdsInv, AddXarray PROVE KdsInv'
  OBVIOUS
<1> DEFINE r == [n \in DOMAIN store |-> IF store[n].data = nums[ptr] THEN Entry ELSE store[n]]
           s == IF HasKey(store, nums[ptr]) THEN r ELSE Append(store, Entry)
<1>1. /\ Turn("xarray") /\ store' = s /\ table' = table /\ "xarray" \in Plays \ {"bitmap"}
      /\ spare' = spare /\ spare' \in 0 .. Shortages
  BY PlayNames DEF AddXarray, Insert, KdsInv, KdsTypes
<1>2. /\ stage = "xarray" /\ stage' = "xarray" /\ ptr' = ptr + 1 /\ nums' = nums
      /\ ptr \in 1 .. Len(nums) /\ Entry \in EntryType /\ Entry = EntryOf("xarray", ptr)
  BY <1>1, TurnKeeps
<1>3. /\ store \in Seq(EntryType) /\ ptr \in Nat /\ ptr' - 1 = ptr
      /\ Len(store) \in Nat /\ DOMAIN store = 1 .. Len(store)
  BY <1>1, <1>2, PhaseFacts
<1>4. Entry.id = <<"xarray", ptr>> /\ Entry.data = nums[ptr]
  BY <1>2 DEF EntryOf
<1>5. ASSUME HasKey(store, nums[ptr])
      PROVE  s \in Seq(EntryType) /\ DOMAIN s = DOMAIN store
             /\ \A n \in DOMAIN s : s[n] = IF store[n].data = nums[ptr] THEN Entry ELSE store[n]
  <2>1. s = r
    BY <1>5
  <2>2. \A n \in 1 .. Len(store) : store[n] \in EntryType
    BY <1>3, ElementOfSeq
  <2>3. r \in [1 .. Len(store) -> EntryType]
    BY <1>2, <1>3, <2>2
  <2>4. r \in Seq(EntryType)
    BY <1>3, <2>3, SeqDef
  <2> QED
    BY <2>1, <2>4
<1>6. ASSUME ~HasKey(store, nums[ptr])
      PROVE  /\ s \in Seq(EntryType) /\ DOMAIN s = 1 .. Len(store) + 1
             /\ \A n \in 1 .. Len(store) : s[n] = store[n] /\ store[n].data # nums[ptr]
             /\ s[Len(store) + 1] = Entry
  <2>1. s = Append(store, Entry)
    BY <1>6
  <2>2. /\ Append(store, Entry) \in Seq(EntryType)
        /\ DOMAIN Append(store, Entry) = 1 .. Len(store) + 1
        /\ \A n \in 1 .. Len(store) : Append(store, Entry)[n] = store[n]
        /\ Append(store, Entry)[Len(store) + 1] = Entry
    BY <1>2, <1>3, AppendProperties, LenProperties
  <2>3. \A n \in 1 .. Len(store) : store[n].data # nums[ptr]
    BY <1>3, <1>6 DEF HasKey
  <2> QED
    BY <2>1, <2>2, <2>3
<1> HIDE DEF r, s
<1>7. /\ s \in Seq(EntryType)
      /\ \A n \in DOMAIN s :
           s[n] = Entry \/ (n \in DOMAIN store /\ s[n] = store[n] /\ store[n].data # nums[ptr])
      /\ \A n \in DOMAIN store : store[n].data # nums[ptr] => n \in DOMAIN s /\ s[n] = store[n]
      /\ \E n \in DOMAIN s : s[n] = Entry
  <2>1. CASE HasKey(store, nums[ptr])
    <3>1. PICK n \in DOMAIN store : store[n].data = nums[ptr]
      BY <2>1 DEF HasKey
    <3> QED
      BY <1>5, <2>1, <3>1
  <2>2. CASE ~HasKey(store, nums[ptr])
    <3>1. \A n \in 1 .. Len(store) + 1 : n \in 1 .. Len(store) \/ n = Len(store) + 1
      BY <1>3
    <3>2. \A n \in 1 .. Len(store) : n \in 1 .. Len(store) + 1
      BY <1>3
    <3>3. Len(store) + 1 \in 1 .. Len(store) + 1
      BY <1>3
    <3> QED
      BY <1>3, <1>6, <2>2, <3>1, <3>2, <3>3
  <2> QED
    BY <2>1, <2>2
<1>8. KdsTypes' /\ Stored' /\ Hashed'
  BY <1>1, <1>7, StoreKeeps
<1>9. Indexed'
  <2>1. HasKey(s, nums[ptr])
    BY <1>4, <1>7 DEF HasKey
  <2>2. ASSUME NEW k, HasKey(store, k) PROVE HasKey(s, k)
    <3>1. CASE k = nums[ptr]
      BY <2>1, <3>1
    <3>2. CASE k # nums[ptr]
      BY <1>7, <2>2, <3>2 DEF HasKey
    <3> QED
      BY <3>1, <3>2
  <2> QED
    BY <1>1, <2>1, <2>2, IndexGrows
<1>10. Listed' /\ Sorted'
  BY <1>2 DEF Listed, Sorted
<1> QED
  BY <1>1, <1>8, <1>9, <1>10, RestKeeps DEF Structures

\* A number gets no place in an index.
LEMMA StepNoNode == KdsInv /\ NoNode => KdsInv'
<1> SUFFICES ASSUME KdsInv, NoNode PROVE KdsInv'
  OBVIOUS
<1>1. PICK ph \in {"radix", "xarray"} : ph = stage
  BY DEF NoNode
<1>2. /\ Turn(ph) /\ spare > 0 /\ spare' = spare - 1 /\ UNCHANGED <<store, table>>
      /\ ph \in Plays \ {"bitmap"}
  BY <1>1, PlayNames DEF NoNode
<1>3. spare' \in 0 .. Shortages /\ spare' # Shortages
  BY <1>1, <1>2, PhaseFacts
<1>4. stage' = ph
  BY <1>2, <1>3, TurnKeeps
<1>5. KdsTypes' /\ Stored' /\ Hashed'
  <2>1. PICK s : s = store
    OBVIOUS
  <2>2. s \in Seq(EntryType) /\ \A n \in DOMAIN s : s[n] = store[n] /\ n \in DOMAIN store
    BY <2>1 DEF KdsInv, KdsTypes
  <2>3. store' = s
    BY <1>2, <2>1
  <2> QED
    BY <1>2, <1>3, <2>2, <2>3, StoreKeeps
<1>6. Listed' /\ Sorted' /\ Indexed'
  BY <1>3, <1>4 DEF Listed, Sorted, Indexed
<1> QED
  BY <1>2, <1>3, <1>5, <1>6, RestKeeps DEF Structures

\* A number is not found, so one had no node, and the kernel stops.
LEMMA StepLookupFails == KdsInv /\ LookupFails => KdsInv'
<1> SUFFICES ASSUME KdsInv, LookupFails PROVE KdsInv'
  OBVIOUS
<1>1. /\ stage \in {"radix", "xarray"} /\ ptr > Len(nums) /\ ~Found /\ stage' = "oops"
      /\ ptr' = 1 /\ store' = <<>>
      /\ UNCHANGED <<parseVars, table, heap, spare, printed>>
  BY DEF LookupFails
<1>2. stage \in Plays
  BY <1>1, PlayNames
<1>3. spare < Shortages
  <2>1. \A m \in DOMAIN nums : m \in 1 .. ptr - 1
    BY <1>1, <1>2, PhaseFacts
  <2>2. spare # Shortages
    BY <1>1, <2>1 DEF KdsInv, Indexed, Found
  <2> QED
    BY <1>2, <2>2, PhaseFacts
<1>4. Scanning' /\ Printed'
  BY <1>1, <1>2, <1>3, ScanningKept, PrintedKept
<1>5. Ranked' /\ OthersFreed'
  <2>1. stage' # "done" /\ heap' = heap
    BY <1>1
  <2> QED
    BY <1>1, <1>2, <2>1, FreedKept
<1>6. KdsTypes'
  <2>1. 1 \in 1 .. Len(nums) + 1
    BY <1>2, PhaseFacts
  <2> QED
    BY <1>1, <2>1, FreshTypes DEF KdsInv, KdsTypes, parseVars, Ended
<1>7. Structures'
  <2>1. table = NoTable
    BY <1>1 DEF KdsInv, Stored
  <2> QED
    BY <1>1, <1>6, <2>1, FreshAfter DEF Fresh
<1> QED
  BY <1>4, <1>5, <1>6, <1>7 DEF KdsInv, Structures

\* Every number has a bucket.
LEMMA HashFacts ==
  ASSUME NEW k \in Int
  PROVE  Hash(k) \in 0 .. Buckets - 1
<1>1. Buckets \in Nat \ {0}
  BY KdsAssumption
<1> QED
  BY <1>1 DEF Hash

\* The hash table is allocated or the kernel stops.
LEMMA StepBeginHash == KdsInv /\ BeginHash => KdsInv'
<1> SUFFICES ASSUME KdsInv, BeginHash PROVE KdsInv'
  OBVIOUS
<1>1. /\ stage = "hash" /\ ptr = 1
      /\ \/ heap' = heap \cup {<<"ht", 0>>} /\ UNCHANGED <<stage, spare>>
         \/ spare > 0 /\ stage' = "oops" /\ spare' = spare - 1 /\ UNCHANGED heap
      /\ UNCHANGED <<parseVars, ptr, store, table, printed>>
  BY DEF BeginHash
<1>2. nums' = nums
  BY <1>1 DEF parseVars
<1>3. KdsTypes'
  <2>1. heap' \subseteq Allocated
    BY <1>1 DEF KdsInv, KdsTypes, Allocated
  <2>2. spare' \in 0 .. Shortages
    BY <1>1, PhaseFacts, PlayNames
  <2>3. stage' \in Plays \cup Ended
    BY <1>1, PlayNames DEF Ended
  <2> QED
    BY <1>1, <2>1, <2>2, <2>3 DEF KdsInv, KdsTypes, parseVars
<1>4. Fresh'
  <2>1. store = <<>> /\ ptr = 1
    BY <1>1 DEF KdsInv, Stored
  <2>2. \A b \in 0 .. Buckets - 1 : DOMAIN table[b] = {}
    <3>1. 1 .. ptr - 1 = {}
      BY <1>1
    <3> QED
      BY <1>1, <3>1 DEF KdsInv, Hashed
  <2>3. \A b \in 0 .. Buckets - 1 : table[b] = <<>>
    <3> SUFFICES ASSUME NEW b \in 0 .. Buckets - 1 PROVE table[b] = <<>>
      OBVIOUS
    <3>1. table[b] \in Seq(EntryType)
      BY DEF KdsInv, KdsTypes
    <3>2. Len(table[b]) \in Nat /\ DOMAIN table[b] = 1 .. Len(table[b])
      BY <3>1, LenProperties
    <3>3. Len(table[b]) = 0
      <4>1. 1 \notin 1 .. Len(table[b])
        BY <2>2, <3>2
      <4> QED
        BY <3>2, <4>1
    <3> QED
      BY <3>1, <3>3, EmptySeq
  <2>4. table = NoTable
    BY <2>3 DEF NoTable, KdsInv, KdsTypes
  <2> QED
    BY <1>1, <2>1, <2>4 DEF Fresh
<1>5. Structures'
  BY <1>3, <1>4, FreshAfter
<1>6. Scanning' /\ Printed'
  <2>1. stage \in Plays /\ stage' \in Plays \cup {"done", "oops"}
    BY <1>1, PlayNames
  <2>2. stage' = "oops" => spare' < Shortages
    BY <1>1, <2>1, PhaseFacts
  <2> QED
    BY <1>1, <2>1, <2>2, ScanningKept, PrintedKept
<1>7. Ranked' /\ OthersFreed'
  <2>1. stage \in Plays /\ stage' \in {stage, "oops"} /\ stage' # "done"
    BY <1>1, PlayNames
  <2>2. \A x \in heap' : x \in heap \/ (stage = "hash" /\ x = <<"ht", 0>>)
    BY <1>1
  <2> QED
    BY <1>1, <2>1, <2>2, FreedKept
<1> QED
  BY <1>3, <1>5, <1>6, <1>7 DEF KdsInv, Structures

\* An entry in front of its bucket.
LEMMA StepAddHash == KdsInv /\ AddHash => KdsInv'
<1> SUFFICES ASSUME KdsInv, AddHash PROVE KdsInv'
  OBVIOUS
<1> DEFINE h == Hash(nums[ptr])
           s == <<Entry>> \o table[h]
<1>1. /\ Turn("hash") /\ store' = store /\ "hash" \in Plays \ {"bitmap"}
      /\ table' = [table EXCEPT ![h] = s]
      /\ spare' \in 0 .. Shortages
  BY PlayNames DEF AddHash, KdsInv, KdsTypes
<1>2. /\ stage = "hash" /\ stage' = "hash" /\ ptr' = ptr + 1 /\ nums' = nums
      /\ ptr \in 1 .. Len(nums) /\ heap' = heap \cup {<<"hash", ptr>>}
      /\ Entry \in EntryType /\ Entry = EntryOf("hash", ptr)
  BY <1>1, TurnKeeps
<1>3. /\ ptr \in Nat /\ ptr' - 1 = ptr /\ Len(nums) \in Nat
      /\ h \in 0 .. Buckets - 1 /\ table \in [0 .. Buckets - 1 -> Seq(EntryType)]
  <2>1. nums[ptr] \in Int /\ ptr \in Nat /\ Len(nums) \in Nat
    BY <1>1, <1>2, PhaseFacts
  <2>2. h \in 0 .. Buckets - 1
    BY <2>1, HashFacts
  <2>3. ptr' - 1 = ptr
    BY <1>2, <2>1
  <2>4. table \in [0 .. Buckets - 1 -> Seq(EntryType)]
    BY DEF KdsInv, KdsTypes
  <2> QED
    BY <2>1, <2>2, <2>3, <2>4
<1>4. Entry.id = <<"hash", ptr>> /\ Entry.id[2] = ptr
  BY <1>2 DEF EntryOf
<1>5. /\ s \in Seq(EntryType) /\ s[1] = Entry
      /\ \A n \in 1 .. Len(table[h]) : s[n + 1] = table[h][n]
      /\ DOMAIN s = 1 .. Len(table[h]) + 1 /\ DOMAIN table[h] = 1 .. Len(table[h])
      /\ Len(table[h]) \in Nat
  <2>1. PICK e \in EntryType : e = Entry
    BY <1>2
  <2>2. PICK q \in Seq(EntryType) : q = table[h]
    BY <1>3
  <2>3. s = <<e>> \o q
    BY <2>1, <2>2
  <2> HIDE DEF s, h
  <2> QED
    BY <2>1, <2>2, <2>3, Prepended
<1>6. \A n \in DOMAIN s : n = 1 \/ (n - 1 \in DOMAIN table[h] /\ s[n] = table[h][n - 1])
  <2> SUFFICES ASSUME NEW n \in 1 .. Len(table[h]) + 1, n # 1
               PROVE  n - 1 \in 1 .. Len(table[h]) /\ s[n] = table[h][n - 1]
    BY <1>5
  <2>1. n - 1 \in 1 .. Len(table[h]) /\ (n - 1) + 1 = n
    BY <1>5
  <2> HIDE DEF s
  <2> QED
    BY <1>5, <2>1
<1> HIDE DEF s
<1>7. /\ table' \in [0 .. Buckets - 1 -> Seq(EntryType)] /\ table'[h] = s
      /\ \A b \in 0 .. Buckets - 1 : b # h => table'[b] = table[b]
  BY <1>1, <1>3, <1>5
<1>8. store' \in Seq(EntryType)
  BY <1>1 DEF KdsInv, KdsTypes
<1>9. KdsTypes'
  BY <1>1, <1>7, <1>8, TurnKeeps
<1>10. Stored'
  <2>1. store' = <<>>
    BY <1>1, <1>2 DEF KdsInv, Stored
  <2>2. \A m \in 1 .. ptr' - 1 : <<"hash", m>> \in heap'
    <3>1. \A m \in 1 .. ptr' - 1 : m = ptr \/ m \in 1 .. ptr - 1
      BY <1>3
    <3>2. \A m \in 1 .. ptr - 1 : <<"hash", m>> \in heap
      BY <1>1, <1>2 DEF KdsInv, Stored
    <3> QED
      BY <1>2, <3>1, <3>2
  <2> QED
    BY <1>2, <2>1, <2>2, PlayNames DEF Stored
<1>11. Hashed'
  <2>1. ASSUME NEW b \in 0 .. Buckets - 1
        PROVE  /\ \A n \in DOMAIN table[b] : \E m \in 1 .. ptr - 1 :
                    Hash(nums[m]) = b /\ table[b][n] = EntryOf("hash", m)
               /\ \A n \in DOMAIN table[b] : \A m \in 1 .. n - 1 :
                    table[b][n].id[2] < table[b][m].id[2]
    BY <1>2 DEF KdsInv, Hashed
  <2>2. \A m \in 1 .. ptr - 1 : <<"hash", m>> \in Ids(table[Hash(nums[m])])
    BY <1>2 DEF KdsInv, Hashed
  <2>3. \A n \in DOMAIN table[h] : table[h][n].id[2] \in 1 .. ptr - 1
    <3>1. \A m : EntryOf("hash", m).id[2] = m
      BY DEF EntryOf
    <3> QED
      BY <1>3, <2>1, <3>1
  <2>4. \A m \in 1 .. ptr - 1 : m \in 1 .. ptr
    BY <1>3
  <2>5. ASSUME NEW b \in 0 .. Buckets - 1, NEW n \in DOMAIN table'[b]
        PROVE  \E m \in 1 .. ptr : Hash(nums[m]) = b /\ table'[b][n] = EntryOf("hash", m)
    <3>1. CASE b # h
      BY <1>7, <2>1, <2>4, <2>5, <3>1
    <3>2. CASE b = h /\ n = 1
      <4>1. ptr \in 1 .. ptr
        BY <1>2, <1>3
      <4> QED
        BY <1>2, <1>5, <1>7, <3>2, <4>1
    <3>3. CASE b = h /\ n # 1
      <4>1. n - 1 \in DOMAIN table[h] /\ table'[b][n] = table[h][n - 1]
        BY <1>6, <1>7, <2>5, <3>3
      <4> QED
        BY <1>3, <2>1, <2>4, <3>3, <4>1
    <3> QED
      BY <3>1, <3>2, <3>3
  <2>6. ASSUME NEW b \in 0 .. Buckets - 1, NEW n \in DOMAIN table'[b], NEW m \in 1 .. n - 1
        PROVE  table'[b][n].id[2] < table'[b][m].id[2]
    <3>1. CASE b # h
      BY <1>7, <2>1, <2>6, <3>1
    <3>2. CASE b = h
      <4>1. n \in 1 .. Len(table[h]) + 1 /\ m \in DOMAIN s /\ n # 1
        BY <1>5, <1>7, <2>6, <3>2
      <4>2. n - 1 \in DOMAIN table[h] /\ table'[b][n] = table[h][n - 1]
        BY <1>5, <1>6, <1>7, <3>2, <4>1
      <4>3. CASE m = 1
        BY <1>3, <1>4, <1>5, <1>7, <2>3, <3>2, <4>2, <4>3
      <4>4. CASE m # 1
        <5>1. m - 1 \in DOMAIN table[h] /\ table'[b][m] = table[h][m - 1]
          BY <1>6, <1>7, <3>2, <4>1, <4>4
        <5>2. m - 1 \in 1 .. (n - 1) - 1
          BY <1>5, <4>1, <4>4, <2>6
        <5> QED
          BY <1>3, <2>1, <4>2, <5>1, <5>2
      <4> QED
        BY <4>3, <4>4
    <3> QED
      BY <3>1, <3>2
  <2>7. ASSUME NEW m \in 1 .. ptr PROVE <<"hash", m>> \in Ids(table'[Hash(nums[m])])
    <3>1. CASE m = ptr
      <4>1. 1 \in DOMAIN s
        BY <1>5
      <4> QED
        BY <1>4, <1>5, <1>7, <3>1, <4>1 DEF Ids
    <3>2. CASE m # ptr
      <4>1. m \in 1 .. ptr - 1 /\ nums[m] \in Int
        <5>1. m \in 1 .. Len(nums)
          BY <1>2, <1>3
        <5> QED
          BY <1>1, <1>2, <1>3, <3>2, <5>1, PhaseFacts
      <4>2. Hash(nums[m]) \in 0 .. Buckets - 1
        BY <4>1, HashFacts
      <4>3. PICK n \in DOMAIN table[Hash(nums[m])] : table[Hash(nums[m])][n].id = <<"hash", m>>
        BY <2>2, <4>1 DEF Ids
      <4>4. CASE Hash(nums[m]) # h
        BY <1>7, <4>2, <4>3, <4>4 DEF Ids
      <4>5. CASE Hash(nums[m]) = h
        <5>1. n \in DOMAIN table[h]
          BY <4>3, <4>5
        <5>2. n + 1 \in DOMAIN s /\ s[n + 1] = table[h][n]
          <6>1. n \in 1 .. Len(table[h]) /\ Len(table[h]) \in Nat
            BY <1>5, <5>1
          <6>2. n + 1 \in 1 .. Len(table[h]) + 1
            BY <6>1
          <6> QED
            BY <1>5, <6>1, <6>2
        <5> QED
          BY <1>7, <4>3, <4>5, <5>2 DEF Ids
      <4> QED
        BY <4>4, <4>5
    <3> QED
      BY <3>1, <3>2
  <2>8. \A b : Hash(b)' = Hash(b)
    BY DEF Hash
  <2>9. \A m \in 1 .. ptr' - 1 : <<"hash", m>> \in Ids(table[Hash(nums[m])])'
    BY <1>2, <1>3, <2>7 DEF Ids, Hash
  <2> QED
    BY <1>2, <1>3, <2>5, <2>6, <2>9, LinesKept DEF Hashed, Hash
<1>12. Listed' /\ Sorted' /\ Indexed'
  BY <1>2 DEF Listed, Sorted, Indexed
<1> QED
  BY <1>1, <1>9, <1>10, <1>11, <1>12, RestKeeps DEF Structures

-----------------------------------------------------------------------------
(* What the functions print and free                                       *)

\* The data of a sequence of entries.
LEMMA DataFacts ==
  ASSUME NEW q \in Seq(EntryType)
  PROVE  /\ Data(q) \in Seq(Int) /\ Len(q) \in Nat /\ Len(Data(q)) = Len(q)
         /\ DOMAIN q = 1 .. Len(q) /\ DOMAIN Data(q) = 1 .. Len(q)
         /\ \A n \in 1 .. Len(q) : Data(q)[n] = q[n].data /\ q[n].data \in Int
<1>1. Len(q) \in Nat /\ DOMAIN q = 1 .. Len(q) /\ \A n \in 1 .. Len(q) : q[n] \in EntryType
  BY LenProperties, ElementOfSeq
<1>2. \A n \in 1 .. Len(q) : q[n].data \in Int
  BY <1>1 DEF EntryType
<1>3. Data(q) = [n \in 1 .. Len(q) |-> q[n].data]
  BY <1>1 DEF Data
<1>4. Data(q) \in [1 .. Len(q) -> Int]
  BY <1>2, <1>3
<1>5. Data(q) \in Seq(Int)
  BY <1>1, <1>4, SeqDef
<1>6. DOMAIN Data(q) = 1 .. Len(q) /\ Len(Data(q)) = Len(q)
  <2>1. DOMAIN Data(q) = 1 .. Len(q) /\ DOMAIN Data(q) = 1 .. Len(Data(q)) /\ Len(Data(q)) \in Nat
    BY <1>3, <1>5, LenProperties
  <2> QED
    BY <1>1, <2>1
<1> QED
  BY <1>1, <1>2, <1>3, <1>5, <1>6

\* Entries of distinct numbers are as many as the numbers they are of.
LEMMA SameCount ==
  ASSUME NEW q \in Seq(EntryType), NEW k, NEW B,
         \A n \in 1 .. Len(q) : q[n].data = k => q[n].id[2] \in B,
         \A m \in B : \E n \in 1 .. Len(q) : q[n].data = k /\ q[n].id[2] = m,
         \A n \in 1 .. Len(q) : \A m \in 1 .. n - 1 : q[n].id[2] # q[m].id[2]
  PROVE  Occurs(k, Data(q)) = Cardinality(B)
<1> DEFINE A == {n \in 1 .. Len(q) : q[n].data = k}
           f == [n \in A |-> q[n].id[2]]
<1>1. Len(q) \in Nat
  BY DataFacts
<1>2. Occurs(k, Data(q)) = Cardinality(A)
  <2>1. {n \in DOMAIN Data(q) : Data(q)[n] = k} = A
    BY DataFacts
  <2> QED
    BY <2>1 DEF Occurs
<1>3. IsFiniteSet(A)
  <2>1. IsFiniteSet(1 .. Len(q)) /\ A \subseteq 1 .. Len(q)
    BY <1>1, FS_Interval
  <2> HIDE DEF A
  <2> QED
    BY <2>1, FS_Subset
<1>4. f \in Injection(A, B)
  <2>1. f \in [A -> B]
    OBVIOUS
  <2>2. ASSUME NEW n \in A, NEW m \in A, f[n] = f[m] PROVE n = m
    <3>1. n \in 1 .. Len(q) /\ m \in 1 .. Len(q) /\ q[n].id[2] = q[m].id[2]
      BY <2>2
    <3>2. ~(m < n) /\ ~(n < m)
      <4>1. m < n => m \in 1 .. n - 1
        BY <1>1, <3>1
      <4>2. n < m => n \in 1 .. m - 1
        BY <1>1, <3>1
      <4> QED
        BY <3>1, <4>1, <4>2
    <3> QED
      BY <1>1, <3>1, <3>2
  <2> QED
    BY <2>1, <2>2 DEF Injection, IsInjective
<1>5. f \in Surjection(A, B)
  <2>1. f \in [A -> B]
    OBVIOUS
  <2>2. \A m \in B : \E n \in A : f[n] = m
    OBVIOUS
  <2> QED
    BY <2>1, <2>2 DEF Surjection
<1>6. ExistsBijection(A, B)
  BY <1>4, <1>5 DEF ExistsBijection, Bijection
<1> QED
  BY <1>2, <1>3, <1>6, FS_Bijection

\* A function that returns keeps the invariant if it prints what it should and
\* frees what shares its place with no other.
LEMMA FinishKeeps ==
  ASSUME KdsInv, NEW ph \in Plays \ {"bitmap"}, NEW lines, NEW freed,
         Finish(ph, lines, freed), PrintedBy(ph, lines),
         \A m \in 1 .. Len(nums) : <<ph, m>> \in freed \/ Shared(ph, m),
         ph = "hash" => <<"ht", 0>> \in freed
  PROVE  KdsInv'
<1>1. /\ stage = ph /\ ptr > Len(nums) /\ heap' = heap \ freed /\ stage' = After[ph]
      /\ printed' = Append(printed, [by |-> ph, lines |-> lines])
      /\ ptr' = 1 /\ store' = <<>> /\ table' = NoTable /\ UNCHANGED <<parseVars, spare>>
  BY DEF Finish
<1>2. stage \in Plays /\ stage' \in Plays
  BY <1>1, PlayNames
<1>3. Printed' /\ Ranked' /\ OthersFreed' /\ \E S : printed' \in Seq(S)
  <2>1. \A m \in DOMAIN nums : <<ph, m>> \in heap' => Shared(ph, m)
    BY <1>1, <1>2, PhaseFacts
  <2>2. heap' \subseteq heap /\ (ph = "hash" => <<"ht", 0>> \notin heap')
    BY <1>1
  <2> QED
    BY <1>1, <2>1, <2>2, PrintedMore
<1>4. KdsTypes'
  <2>1. 1 \in 1 .. Len(nums) + 1
    BY <1>2, PhaseFacts
  <2> QED
    BY <1>1, <1>2, <1>3, <2>1, FreshTypes DEF KdsInv, KdsTypes, parseVars
<1>5. Structures'
  BY <1>1, <1>4, FreshAfter DEF Fresh
<1>6. Scanning'
  BY <1>1, <1>2, ScanningKept
<1> QED
  BY <1>3, <1>4, <1>5, <1>6 DEF KdsInv, Structures

\* The list is printed from its end and freed.
LEMMA StepPlayList == KdsInv /\ PlayList => KdsInv'
<1> SUFFICES ASSUME KdsInv, PlayList PROVE KdsInv'
  OBVIOUS
<1>1. PICK lines : lines = Reverse(Data(store))
  OBVIOUS
<1>2. PICK freed : freed = Ids(store)
  OBVIOUS
<1>3. Finish("list", lines, freed) /\ stage = "list" /\ ptr > Len(nums)
  BY <1>1, <1>2 DEF PlayList, Finish
<1> DEFINE L == Len(nums)
<1>4. /\ L \in Nat /\ ptr = L + 1 /\ nums \in Seq(Ints) /\ DOMAIN nums = 1 .. L
      /\ store \in Seq(EntryType)
  BY <1>3, PhaseFacts, PlayNames
<1>5. Len(store) = L /\ \A n \in 1 .. L : store[n] = EntryOf("list", L + 1 - n)
  BY <1>3, <1>4 DEF KdsInv, Listed
<1>6. \A n \in 1 .. L : store[n].id = <<"list", L + 1 - n>> /\ store[n].data = nums[L + 1 - n]
  <2>1. \A m : EntryOf("list", m).id = <<"list", m>> /\ EntryOf("list", m).data = nums[m]
    BY DEF EntryOf
  <2> QED
    BY <1>5, <2>1
<1> HIDE DEF L
<1>7. lines = nums
  <2>1. Len(Data(store)) = L /\ \A n \in 1 .. L : Data(store)[n] = nums[L + 1 - n]
    BY <1>4, <1>5, <1>6, DataFacts
  <2>2. lines = [n \in 1 .. L |-> Data(store)[L - n + 1]]
    BY <1>1, <2>1 DEF Reverse
  <2>3. \A n \in 1 .. L : Data(store)[L - n + 1] = nums[n]
    <3> SUFFICES ASSUME NEW n \in 1 .. L PROVE Data(store)[L - n + 1] = nums[n]
      OBVIOUS
    <3>1. L - n + 1 \in 1 .. L /\ L + 1 - (L - n + 1) = n
      BY <1>4
    <3> QED
      BY <2>1, <3>1
  <2>4. nums = [n \in 1 .. L |-> nums[n]]
    BY <1>4, LenProperties
  <2> QED
    BY <2>2, <2>3, <2>4
<1>8. \A m \in 1 .. L : <<"list", m>> \in freed
  <2>1. freed = {store[n].id : n \in 1 .. L}
    BY <1>2, <1>4, <1>5, DataFacts DEF Ids
  <2>2. \A n \in 1 .. L : L + 1 - n \in 1 .. L /\ L + 1 - (L + 1 - n) = n
    BY <1>4
  <2> QED
    BY <1>6, <2>1, <2>2
<1>9. PrintedBy("list", lines)
  BY <1>7 DEF PrintedBy
<1> QED
  BY <1>3, <1>8, <1>9, FinishKeeps, PlayNames DEF L

\* The tree is printed in order and freed.
LEMMA StepPlayRb == KdsInv /\ PlayRb => KdsInv'
<1> SUFFICES ASSUME KdsInv, PlayRb PROVE KdsInv'
  OBVIOUS
<1>1. PICK lines : lines = Data(store)
  OBVIOUS
<1>2. PICK freed : freed = Ids(store)
  OBVIOUS
<1>3. Finish("rb", lines, freed) /\ stage = "rb" /\ ptr > Len(nums)
  BY <1>1, <1>2 DEF PlayRb, Finish
<1> DEFINE L == Len(nums)
<1>4. /\ L \in Nat /\ ptr = L + 1 /\ ptr - 1 = L /\ nums \in Seq(Ints) /\ DOMAIN nums = 1 .. L
      /\ store \in Seq(EntryType)
  BY <1>3, PhaseFacts, PlayNames
<1> HIDE DEF L
<1>5. Len(store) \in Nat /\ DOMAIN store = 1 .. Len(store)
  BY <1>4, LenProperties
<1>6. \A n \in 1 .. Len(store) : /\ store[n].id[2] \in 1 .. L
                                 /\ store[n].data = nums[store[n].id[2]]
                                 /\ store[n].id = <<"rb", store[n].id[2]>> /\ store[n].data \in Int
  BY <1>3, <1>4, <1>5, StoredFacts
<1>7. /\ \A n \in 1 .. Len(store) : \A m \in 1 .. n - 1 :
           store[m].data <= store[n].data /\ store[m].id # store[n].id
      /\ \A m \in 1 .. L : \E n \in 1 .. Len(store) : store[n].id = <<"rb", m>>
  BY <1>3, <1>4, <1>5 DEF KdsInv, Sorted, Ids
<1>8. \A m \in 1 .. L : <<"rb", m>> \in freed
  BY <1>2, <1>5, <1>7 DEF Ids
<1>9. \A n \in DOMAIN lines : \A m \in 1 .. n : lines[m] <= lines[n]
  <2> SUFFICES ASSUME NEW n \in 1 .. Len(store), NEW m \in 1 .. n
               PROVE  lines[m] <= lines[n]
    BY <1>1, <1>4, DataFacts
  <2>1. m \in 1 .. Len(store) /\ (m = n \/ m \in 1 .. n - 1)
    BY <1>5
  <2>2. lines[m] = store[m].data /\ lines[n] = store[n].data
    BY <1>1, <1>4, <2>1, DataFacts
  <2> QED
    BY <1>6, <1>7, <2>1, <2>2
<1>10. \A k : Occurs(k, lines) = Occurs(k, nums)
  <2> SUFFICES ASSUME NEW k PROVE Occurs(k, lines) = Occurs(k, nums)
    OBVIOUS
  <2> DEFINE B == {m \in 1 .. L : nums[m] = k}
  <2>1. Occurs(k, nums) = Cardinality(B)
    BY <1>4 DEF Occurs
  <2>2. \A n \in 1 .. Len(store) : store[n].data = k => store[n].id[2] \in B
    BY <1>6
  <2>3. \A m \in B : \E n \in 1 .. Len(store) : store[n].data = k /\ store[n].id[2] = m
    <3> SUFFICES ASSUME NEW m \in B
                 PROVE  \E n \in 1 .. Len(store) : store[n].data = k /\ store[n].id[2] = m
      OBVIOUS
    <3>1. PICK n \in 1 .. Len(store) : store[n].id = <<"rb", m>>
      BY <1>7
    <3>2. store[n].id[2] = m /\ nums[m] = k
      BY <3>1
    <3> QED
      BY <1>6, <3>2
  <2>4. \A n \in 1 .. Len(store) : \A m \in 1 .. n - 1 : store[n].id[2] # store[m].id[2]
    <3> SUFFICES ASSUME NEW n \in 1 .. Len(store), NEW m \in 1 .. n - 1
                 PROVE  store[n].id[2] # store[m].id[2]
      OBVIOUS
    <3>1. m \in 1 .. Len(store)
      BY <1>5
    <3>2. store[m].id # store[n].id
      BY <1>7
    <3>3. store[n].id = <<"rb", store[n].id[2]>> /\ store[m].id = <<"rb", store[m].id[2]>>
      BY <1>6, <3>1
    <3>4. ASSUME store[n].id[2] = store[m].id[2] PROVE FALSE
      <4>1. <<"rb", store[n].id[2]>> = <<"rb", store[m].id[2]>>
        BY <3>4
      <4> QED
        BY <3>2, <3>3, <4>1, Zenon
    <3> QED
      BY <3>4
  <2>5. PICK q \in Seq(EntryType) : q = store
    BY <1>4
  <2> HIDE DEF B
  <2>6. Occurs(k, Data(q)) = Cardinality(B)
    BY <2>2, <2>3, <2>4, <2>5, SameCount
  <2> QED
    BY <1>1, <2>1, <2>5, <2>6
<1>11. PrintedBy("rb", lines)
  BY <1>9, <1>10 DEF PrintedBy
<1> QED
  BY <1>3, <1>8, <1>11, FinishKeeps, PlayNames DEF L

\* What both indexes print: every number, and the odd ones.
LEMMA IndexPrints ==
  ASSUME KdsInv, stage \in {"radix", "xarray"}, ptr > Len(nums), Found
  PROVE  IndexLines = nums \o Odd
<1> DEFINE L == Len(nums)
<1>1. /\ L \in Nat /\ ptr - 1 = L /\ nums \in Seq(Ints) /\ DOMAIN nums = 1 .. L
      /\ store \in Seq(EntryType) /\ DOMAIN store = 1 .. Len(store)
  BY PhaseFacts, PlayNames
<1> HIDE DEF L
<1>2. ASSUME NEW n \in 1 .. L PROVE Lookup(nums[n]).data = nums[n]
  <2>1. \E m \in DOMAIN store : store[m].data = nums[n]
    BY <1>1 DEF Found, HasKey
  <2> QED
    BY <2>1 DEF Lookup
<1>3. [n \in DOMAIN nums |-> Lookup(nums[n]).data] = nums
  <2>1. nums = [n \in 1 .. L |-> nums[n]]
    BY <1>1, LenProperties
  <2> QED
    BY <1>1, <1>2, <2>1
<1>4. \A k : k \in ToSet(Data(store)) <=> k \in ToSet(nums)
  <2>1. \A k : k \in ToSet(Data(store)) <=> HasKey(store, k)
    <3>1. \A k : k \in ToSet(Data(store)) <=> \E n \in 1 .. Len(store) : store[n].data = k
      BY <1>1, DataFacts DEF ToSet
    <3> QED
      BY <1>1, <3>1 DEF HasKey
  <2>2. \A k : k \in ToSet(nums) <=> \E n \in 1 .. L : nums[n] = k
    BY <1>1 DEF ToSet
  <2>3. ASSUME NEW k, HasKey(store, k) PROVE \E n \in 1 .. L : nums[n] = k
    <3>1. PICK m \in 1 .. ptr - 1 : nums[m] = k
      BY <2>3, KeyFacts
    <3> QED
      BY <1>1, <3>1
  <2>4. \A n \in 1 .. L : HasKey(store, nums[n])
    BY <1>1 DEF Found
  <2> QED
    BY <2>1, <2>2, <2>3, <2>4
<1>5. Marked = {k \in ToSet(nums) : k > 0 /\ k % 2 = 1}
  BY <1>4 DEF Marked
<1> QED
  BY <1>3, <1>5 DEF IndexLines, Odd

\* What an index does not free shares its key with another number.
LEMMA IndexFrees ==
  ASSUME KdsInv, stage \in {"radix", "xarray"}, ptr > Len(nums), Found
  PROVE  \A m \in 1 .. Len(nums) : <<stage, m>> \in Ids(store) \/ Shared(stage, m)
<1> SUFFICES ASSUME NEW m \in 1 .. Len(nums)
             PROVE  <<stage, m>> \in Ids(store) \/ Shared(stage, m)
  OBVIOUS
<1>1. Len(nums) \in Nat /\ ptr - 1 = Len(nums) /\ DOMAIN nums = 1 .. Len(nums)
  BY PhaseFacts, PlayNames
<1>2. HasKey(store, nums[m])
  BY <1>1 DEF Found
<1>3. PICK n \in DOMAIN store, j \in 1 .. ptr - 1 :
        store[n].id = <<stage, j>> /\ nums[j] = nums[m]
  BY <1>2, KeyFacts
<1>4. CASE j = m
  BY <1>3, <1>4 DEF Ids
<1>5. CASE j # m
  BY <1>1, <1>3, <1>5 DEF Shared
<1> QED
  BY <1>4, <1>5

\* An index is looked up, printed and freed.
LEMMA StepPlayIndex == KdsInv /\ (PlayRadix \/ PlayXarray) => KdsInv'
<1> SUFFICES ASSUME KdsInv, PlayRadix \/ PlayXarray PROVE KdsInv'
  OBVIOUS
<1>1. PICK lines : lines = IndexLines
  OBVIOUS
<1>2. PICK freed : freed = Ids(store)
  OBVIOUS
<1>3. PICK ph \in {"radix", "xarray"} : Finish(ph, lines, freed)
  BY <1>1, <1>2 DEF PlayRadix, PlayXarray
<1>4. stage = ph /\ ptr > Len(nums) /\ Found
  BY <1>3 DEF Finish, PlayRadix, PlayXarray
<1>5. PrintedBy(ph, lines)
  BY <1>1, <1>4, IndexPrints DEF PrintedBy
<1>6. \A m \in 1 .. Len(nums) : <<ph, m>> \in freed \/ Shared(ph, m)
  BY <1>2, <1>4, IndexFrees
<1>7. ph \in Plays \ {"bitmap"} /\ ph # "hash"
  BY PlayNames
<1> QED
  BY <1>3, <1>5, <1>6, <1>7, FinishKeeps

\* What is in a bucket: each number that belongs there once, the later in front.
InBucket(b, q) ==
  /\ q \in Seq(EntryType) /\ Len(q) \in Nat /\ DOMAIN q = 1 .. Len(q)
  /\ \A n \in 1 .. Len(q) : /\ q[n].id[2] \in 1 .. Len(nums)
                            /\ q[n].id = <<"hash", q[n].id[2]>>
                            /\ q[n].data = nums[q[n].id[2]]
                            /\ Hash(nums[q[n].id[2]]) = b
  /\ \A n \in 1 .. Len(q) : \A m \in 1 .. n - 1 : q[n].id[2] < q[m].id[2]
  /\ \A m \in 1 .. Len(nums) : Hash(nums[m]) = b => \E n \in 1 .. Len(q) : q[n].id = <<"hash", m>>

\* All buckets are as they should be once every number has been added.
LEMMA BucketFacts ==
  ASSUME KdsInv, stage = "hash", ptr > Len(nums), NEW b \in 0 .. Buckets - 1, NEW q, q = table[b]
  PROVE  InBucket(b, q)
<1> DEFINE L == Len(nums)
<1>1. ptr - 1 = L
  BY PhaseFacts, PlayNames
<1> HIDE DEF L
<1>2. q \in Seq(EntryType) /\ Len(q) \in Nat /\ DOMAIN q = 1 .. Len(q)
  <2>1. q \in Seq(EntryType)
    BY DEF KdsInv, KdsTypes
  <2> QED
    BY <2>1, LenProperties
<1>3. /\ \A n \in DOMAIN q : \E m \in 1 .. L : Hash(nums[m]) = b /\ q[n] = EntryOf("hash", m)
      /\ \A n \in DOMAIN q : \A m \in 1 .. n - 1 : q[n].id[2] < q[m].id[2]
      /\ \A m \in 1 .. L : <<"hash", m>> \in Ids(table[Hash(nums[m])])
  BY <1>1 DEF KdsInv, Hashed
<1>4. \A m : /\ EntryOf("hash", m).id = <<"hash", m>> /\ EntryOf("hash", m).id[2] = m
             /\ EntryOf("hash", m).data = nums[m]
  BY DEF EntryOf
<1>5. ASSUME NEW n \in 1 .. Len(q)
      PROVE  /\ q[n].id[2] \in 1 .. L
             /\ q[n].id = <<"hash", q[n].id[2]>>
             /\ q[n].data = nums[q[n].id[2]]
             /\ Hash(nums[q[n].id[2]]) = b
  <2>1. PICK m \in 1 .. L : Hash(nums[m]) = b /\ q[n] = EntryOf("hash", m)
    BY <1>2, <1>3
  <2> QED
    BY <1>4, <2>1
<1>6. ASSUME NEW m \in 1 .. L, Hash(nums[m]) = b
      PROVE  \E n \in 1 .. Len(q) : q[n].id = <<"hash", m>>
  BY <1>2, <1>3, <1>6 DEF Ids
<1> QED
  BY <1>2, <1>3, <1>5, <1>6 DEF L, InBucket

\* What the table prints: every number in its bucket, as often as it occurs, and
\* again the bucket of each.
LEMMA HashPrints ==
  ASSUME KdsInv, stage = "hash", ptr > Len(nums)
  PROVE  PrintedBy("hash", HashLines)
<1> DEFINE L == Len(nums)
           all == [b \in DOMAIN table |-> Data(table[b])]
<1>1. /\ L \in Nat /\ DOMAIN nums = 1 .. L /\ \A n \in 1 .. L : nums[n] \in Int
      /\ DOMAIN table = 0 .. Buckets - 1
  <2>1. table \in [0 .. Buckets - 1 -> Seq(EntryType)]
    BY DEF KdsInv, KdsTypes
  <2> QED
    BY <2>1, PhaseFacts, PlayNames
<1>2. HashLines.all = all /\ \A n \in 1 .. L : HashLines.possible[n] = all[Hash(nums[n])]
  <2>1. \A n \in 1 .. L : Hash(nums[n]) \in DOMAIN table
    BY <1>1, HashFacts
  <2> QED
    BY <1>1, <2>1 DEF HashLines
<1>3. ASSUME NEW b \in 0 .. Buckets - 1, NEW k
      PROVE  Occurs(k, all[b]) = IF Hash(k) = b THEN Occurs(k, nums) ELSE 0
  <2> DEFINE B == {m \in 1 .. L : nums[m] = k /\ Hash(nums[m]) = b}
  <2>1. PICK q : q = table[b]
    OBVIOUS
  <2>2. all[b] = Data(q)
    BY <1>1, <2>1
  <2>3. /\ q \in Seq(EntryType) /\ Len(q) \in Nat
        /\ \A n \in 1 .. Len(q) : /\ q[n].id[2] \in 1 .. L /\ q[n].data = nums[q[n].id[2]]
                                  /\ Hash(nums[q[n].id[2]]) = b
        /\ \A n \in 1 .. Len(q) : \A m \in 1 .. n - 1 : q[n].id[2] < q[m].id[2]
        /\ \A m \in 1 .. L : Hash(nums[m]) = b => \E n \in 1 .. Len(q) : q[n].id = <<"hash", m>>
    <3>1. InBucket(b, q)
      BY <2>1, BucketFacts
    <3> QED
      BY <3>1 DEF InBucket
  <2>4. \A n \in 1 .. Len(q) : q[n].data = k => q[n].id[2] \in B
    BY <2>3
  <2>5. \A m \in B : \E n \in 1 .. Len(q) : q[n].data = k /\ q[n].id[2] = m
    <3> SUFFICES ASSUME NEW m \in B
                 PROVE  \E n \in 1 .. Len(q) : q[n].data = k /\ q[n].id[2] = m
      OBVIOUS
    <3>1. PICK n \in 1 .. Len(q) : q[n].id = <<"hash", m>>
      BY <2>3
    <3>2. q[n].id[2] = m /\ nums[m] = k
      BY <3>1
    <3> QED
      BY <2>3, <3>2
  <2>6. \A n \in 1 .. Len(q) : \A m \in 1 .. n - 1 : q[n].id[2] # q[m].id[2]
    <3> SUFFICES ASSUME NEW n \in 1 .. Len(q), NEW m \in 1 .. n - 1
                 PROVE  q[n].id[2] # q[m].id[2]
      OBVIOUS
    <3>1. m \in 1 .. Len(q)
      BY <2>3
    <3>2. q[n].id[2] \in 1 .. L /\ q[m].id[2] \in 1 .. L /\ q[n].id[2] < q[m].id[2]
      BY <2>3, <3>1
    <3>3. \A x \in 1 .. L : x \in Nat
      BY <1>1
    <3>4. \A x, y \in Nat : x < y => x # y
      OBVIOUS
    <3> HIDE DEF L, B, all
    <3> QED
      BY <3>2, <3>3, <3>4
  <2>7. Occurs(k, nums) = Cardinality({m \in 1 .. L : nums[m] = k})
    BY <1>1 DEF Occurs
  <2>8. Hash(k) = b => B = {m \in 1 .. L : nums[m] = k}
    OBVIOUS
  <2>9. Hash(k) # b => B = {}
    OBVIOUS
  <2> HIDE DEF B, all, L
  <2>10. Occurs(k, Data(q)) = Cardinality(B)
    BY <2>3, <2>4, <2>5, <2>6, SameCount
  <2> QED
    BY <2>2, <2>7, <2>8, <2>9, <2>10, FS_EmptySet
<1>4. DOMAIN all = 0 .. Buckets - 1
  BY <1>1
<1> HIDE DEF all, L
<1> QED
  BY <1>1, <1>2, <1>3, <1>4 DEF PrintedBy

\* What the table frees: itself, and the entry of every number that has its bucket
\* to itself.
LEMMA HashFrees ==
  ASSUME KdsInv, stage = "hash", ptr > Len(nums)
  PROVE  /\ \A m \in 1 .. Len(nums) : <<"hash", m>> \in HashFreed \/ Shared("hash", m)
         /\ <<"ht", 0>> \in HashFreed
<1> DEFINE L == Len(nums)
<1>1. /\ L \in Nat /\ DOMAIN nums = 1 .. L /\ \A n \in 1 .. L : nums[n] \in Int
      /\ DOMAIN table = 0 .. Buckets - 1
  <2>1. table \in [0 .. Buckets - 1 -> Seq(EntryType)]
    BY DEF KdsInv, KdsTypes
  <2> QED
    BY <2>1, PhaseFacts, PlayNames
<1> HIDE DEF L
<1>2. ASSUME NEW m \in 1 .. L PROVE <<"hash", m>> \in HashFreed \/ Shared("hash", m)
  <2>1. PICK b \in 0 .. Buckets - 1 : b = Hash(nums[m])
    BY <1>1, HashFacts
  <2>2. PICK q : q = table[b]
    OBVIOUS
  <2>3. /\ q \in Seq(EntryType) /\ Len(q) \in Nat
        /\ \A n \in 1 .. Len(q) : /\ q[n].id[2] \in 1 .. L /\ q[n].id = <<"hash", q[n].id[2]>>
                                  /\ Hash(nums[q[n].id[2]]) = b
        /\ \E n \in 1 .. Len(q) : q[n].id = <<"hash", m>>
    <3>1. InBucket(b, q)
      BY <2>2, BucketFacts
    <3> QED
      BY <2>1, <3>1 DEF InBucket, L
  <2>4. 1 \in 1 .. Len(q) /\ q # <<>>
    BY <2>3
  <2>5. q[1].id \in HashFreed
    BY <1>1, <2>1, <2>2, <2>4 DEF HashFreed
  <2>6. PICK n \in 1 .. L : n = q[1].id[2]
    BY <2>3, <2>4
  <2>7. <<"hash", n>> \in HashFreed /\ Hash(nums[n]) = b
    BY <2>3, <2>4, <2>5, <2>6
  <2>8. CASE n = m
    BY <2>7, <2>8
  <2>9. CASE n # m
    BY <1>1, <2>1, <2>7, <2>9 DEF Shared
  <2> QED
    BY <2>8, <2>9
<1> QED
  BY <1>2 DEF L, HashFreed

\* The hash table is printed and, but for what it leaves, freed.
LEMMA StepPlayHash == KdsInv /\ PlayHash => KdsInv'
<1> SUFFICES ASSUME KdsInv, PlayHash PROVE KdsInv'
  OBVIOUS
<1>1. PICK lines : lines = HashLines
  OBVIOUS
<1>2. PICK freed : freed = HashFreed
  OBVIOUS
<1>3. Finish("hash", lines, freed) /\ stage = "hash" /\ ptr > Len(nums)
  BY <1>1, <1>2 DEF PlayHash, Finish
<1>4. PrintedBy("hash", lines)
  BY <1>1, <1>3, HashPrints
<1>5. /\ \A m \in 1 .. Len(nums) : <<"hash", m>> \in freed \/ Shared("hash", m)
      /\ <<"ht", 0>> \in freed
  BY <1>2, <1>3, HashFrees
<1> QED
  BY <1>3, <1>4, <1>5, FinishKeeps, PlayNames

-----------------------------------------------------------------------------
(* The end of the module, and the theorems                                 *)

\* The bitmap is printed and the array freed.
LEMMA StepPlayBitmap == KdsInv /\ PlayBitmap => KdsInv'
<1> SUFFICES ASSUME KdsInv, PlayBitmap PROVE KdsInv'
  OBVIOUS
<1>1. PICK lines : lines = Ascending(Bits \cap (0 .. MaxBits - 1))
  OBVIOUS
<1>2. /\ stage = "bitmap" /\ stage' = "done" /\ heap' = heap \ {<<"nums", 0>>}
      /\ printed' = Append(printed, [by |-> "bitmap", lines |-> lines])
      /\ UNCHANGED <<parseVars, ptr, store, table, spare>>
  BY <1>1 DEF PlayBitmap
<1>3. Fresh /\ stage \in Plays
  BY <1>2, PhaseFacts, PlayNames
<1>4. PrintedBy("bitmap", lines)
  <2>1. MaxBits \in Nat /\ BitmapBits \in Nat /\ MaxBits <= BitmapBits
    BY KdsAssumption
  <2>2. \A k \in ToSet(nums) : k \in Int
    BY <1>3, PhaseFacts DEF ToSet
  <2>3. Bits \cap (0 .. MaxBits - 1) = {k \in ToSet(nums) : 0 <= k /\ k < MaxBits}
    BY <2>1, <2>2 DEF Bits
  <2> QED
    BY <1>1, <2>3 DEF PrintedBy
<1>5. Printed' /\ Ranked' /\ OthersFreed' /\ \E S : printed' \in Seq(S)
  <2>1. "bitmap" \in Plays /\ stage' = After["bitmap"]
    BY <1>2, PlayNames
  <2>2. \A m : <<"bitmap", m>> \notin heap'
    <3>1. \A m : <<"bitmap", m>> \notin Allocated
      BY PlayNames DEF Allocated
    <3> QED
      BY <1>2, <3>1 DEF KdsInv, KdsTypes
  <2>3. heap' \subseteq heap /\ <<"nums", 0>> \notin heap'
    BY <1>2
  <2> QED
    BY <1>2, <1>4, <2>1, <2>2, <2>3, PrintedMore
<1>6. KdsTypes'
  BY <1>2, <1>5 DEF KdsInv, KdsTypes, parseVars, Ended
<1>7. Structures'
  BY <1>2, <1>3, <1>6, FreshAfter DEF Fresh
<1>8. Scanning'
  BY <1>2, <1>3, ScanningKept
<1> QED
  BY <1>5, <1>6, <1>7, <1>8 DEF KdsInv, Structures

\* A number outside the bitmap ends everything.
LEMMA StepOverrun == KdsInv /\ Overrun => KdsInv'
<1> SUFFICES ASSUME KdsInv, Overrun PROVE KdsInv'
  OBVIOUS
<1>1. /\ stage = "bitmap" /\ stage' = "oops" /\ ~(ToSet(nums) \subseteq 0 .. BitmapBits - 1)
      /\ UNCHANGED <<parseVars, ptr, store, table, heap, spare, printed>>
  BY DEF Overrun
<1>2. Fresh /\ stage \in Plays
  BY <1>1, PhaseFacts, PlayNames
<1>3. KdsTypes'
  BY <1>1 DEF KdsInv, KdsTypes, parseVars, Ended
<1>4. Structures'
  BY <1>1, <1>2, <1>3, FreshAfter DEF Fresh
<1>5. Scanning' /\ Printed'
  BY <1>1, <1>2, ScanningKept, PrintedKept
<1>6. Ranked' /\ OthersFreed'
  <2>1. stage' # "done" /\ heap' = heap
    BY <1>1
  <2> QED
    BY <1>1, <1>2, <2>1, FreedKept
<1> QED
  BY <1>3, <1>4, <1>5, <1>6 DEF KdsInv, Structures

\* Where nothing changes the invariant stays.
LEMMA KdsStutter == KdsInv /\ UNCHANGED kdsVars => KdsInv'
<1> SUFFICES ASSUME KdsInv, UNCHANGED kdsVars PROVE KdsInv'
  OBVIOUS
<1>1. /\ text' = text /\ temp' = temp /\ slow' = slow /\ nums' = nums
      /\ stage' = stage /\ ptr' = ptr
      /\ store' = store /\ table' = table /\ heap' = heap /\ spare' = spare /\ printed' = printed
  BY DEF kdsVars
<1>2. KdsTypes'
  BY <1>1 DEF KdsInv, KdsTypes
<1>3. Words' = Words
  BY <1>1 DEF Words
<1>4. Scanning'
  <2>1. Parsed'
    BY <1>1, <1>3 DEF KdsInv, Scanning, Parsed, Place, Word
  <2>2. Reads(slow, nums) => Reads(slow, nums)'
    BY <1>1, <1>3 DEF Reads, Before, Place, Word
  <2> QED
    BY <1>1, <2>1, <2>2 DEF KdsInv, Scanning
<1>5. Stored' /\ Listed' /\ Sorted' /\ Indexed'
  <2>1. Stored' /\ Listed'
    BY <1>1 DEF KdsInv, Stored, Listed, EntryOf
  <2>2. Ids(store)' = Ids(store) /\ \A k : HasKey(store, k)' <=> HasKey(store, k)
    BY <1>1 DEF Ids, HasKey
  <2>3. Sorted'
    BY <1>1, <2>2 DEF KdsInv, Sorted
  <2>4. Indexed'
    BY <1>1, <2>2 DEF KdsInv, Indexed
  <2> QED
    BY <2>1, <2>3, <2>4
<1>6. Hashed'
  BY <1>1 DEF KdsInv, Hashed, EntryOf, Ids, Hash
<1>7. Ranked' /\ OthersFreed'
  BY <1>1, LinesKept DEF KdsInv, Ranked, OthersFreed
<1>8. Printed'
  BY <1>1, LinesKept DEF KdsInv, Printed
<1> QED
  BY <1>1, <1>2, <1>4, <1>5, <1>6, <1>7, <1>8 DEF KdsInv

\* Every step keeps the invariant.
LEMMA KdsInvNext == KdsInv /\ [KdsNext]_kdsVars => KdsInv'
  BY StepBegin, StepSkip, StepParse, StepStoreFails, StepFails, StepMany, StepNoMemory,
     StepAddList, StepPlayList, StepAddRb, StepPlayRb,
     StepBeginHash, StepAddHash, StepPlayHash, StepAddRadix, StepAddXarray, StepPlayIndex,
     StepNoNode, StepLookupFails,
     StepPlayBitmap, StepOverrun, KdsStutter
  DEF KdsNext

\* The invariant holds in every run.
LEMMA KdsInvariant == KdsSpec => []KdsInv
<1>1. KdsInit => KdsInv
  BY KdsInvInit
<1>2. KdsInv /\ [KdsNext]_kdsVars => KdsInv'
  BY KdsInvNext
<1> QED
  BY <1>1, <1>2, PTL DEF KdsSpec

\* kds.c keeps its types, and what it has freed is in none of its structures.
THEOREM KdsTyped == KdsSpec => []KdsTypeOK
<1>1. KdsInv => KdsTypeOK
  <2> SUFFICES ASSUME KdsInv PROVE KdsTypeOK
    OBVIOUS
  <2>1. \A ph, m : EntryOf(ph, m).id = <<ph, m>>
    BY DEF EntryOf
  <2>2. Ids(store) \subseteq heap
    <3>1. CASE stage \in Plays
      BY <2>1, <3>1 DEF KdsInv, Stored, Ids
    <3>2. CASE stage \notin Plays
      <4>1. store = <<>>
        BY <3>2, PlayNames DEF KdsInv, Stored
      <4> QED
        BY <4>1 DEF Ids
    <3> QED
      BY <3>1, <3>2
  <2>3. ASSUME NEW b \in DOMAIN table PROVE Ids(table[b]) \subseteq heap
    <3>1. b \in 0 .. Buckets - 1
      BY DEF KdsInv, KdsTypes
    <3>2. CASE stage = "hash"
      <4>1. \A n \in DOMAIN table[b] : \E m \in 1 .. ptr - 1 : table[b][n] = EntryOf("hash", m)
        BY <3>1, <3>2 DEF KdsInv, Hashed
      <4>2. \A m \in 1 .. ptr - 1 : <<"hash", m>> \in heap
        BY <3>2, PlayNames DEF KdsInv, Stored
      <4> QED
        BY <2>1, <4>1, <4>2 DEF Ids
    <3>3. CASE stage # "hash"
      <4>1. table[b] = <<>>
        BY <3>1, <3>3 DEF KdsInv, Stored, NoTable
      <4> QED
        BY <4>1 DEF Ids
    <3> QED
      BY <3>2, <3>3
  <2> QED
    BY <2>2, <2>3 DEF KdsInv, KdsTypes, KdsTypeOK
<1> QED
  BY <1>1, KdsInvariant, PTL

\* Whatever the parameter of kds.c, its numbers are those of its words, in
\* order, each cut to an int; and it is refused only for a word that is no number
\* or no long, or for one too many.
THEOREM WordsParsed == KdsSpec => []Parsed
<1>1. KdsInv => Parsed
  BY DEF KdsInv, Scanning
<1> QED
  BY <1>1, KdsInvariant, PTL

\* Whatever the numbers and whatever fails, each function of kds.c that ends has
\* printed what its structure should hold, in the order it should; and only a
\* failed allocation or a number outside the bitmap stops the kernel.
THEOREM NumbersPrinted == KdsSpec => []Printed
<1>1. KdsInv => Printed
  BY DEF KdsInv
<1> QED
  BY <1>1, KdsInvariant, PTL

\* Whatever fails, each function of kds.c that ends has freed all it allocated but
\* for numbers that share a bucket or a key.
THEOREM RestFreed == KdsSpec => []OthersFreed
<1>1. KdsInv => OthersFreed
  BY DEF KdsInv
<1> QED
  BY <1>1, KdsInvariant, PTL

-----------------------------------------------------------------------------
(***************************************************************************)
(* HW5: what a mount or its failure leaves behind, and how many bytes a    *)
(* reader of bar receives.                                                 *)
(***************************************************************************)
\* The references held to the root's inode and dentry, to foo's dentry and
\* inode, and to bar's.
Counts(rootInode, root, foo, fooInode, bar, barInode) ==
  /\ refs["root_inode"] = rootInode /\ refs["root"] = root
  /\ refs["foo"] = foo /\ refs["foo_inode"] = fooInode
  /\ refs["bar"] = bar /\ refs["bar_inode"] = barInode

\* Where mount is tells which inodes and dentries are held: each step of
\* fill_super holds what the steps before it have allocated, and after oops
\* either d_alloc_name has been given no parent or the root's inode is put
\* twice.
Tree ==
  /\ phase \in {"none", "root_inode"} => Counts(0, 0, 0, 0, 0, 0)
  /\ phase = "root" => Counts(1, 0, 0, 0, 0, 0)
  /\ phase \in {"foo", "no_foo"} => Counts(1, 1, 0, 0, 0, 0)
  /\ phase = "foo_inode" => Counts(1, 1, 1, 0, 0, 0)
  /\ phase = "bar" => Counts(1, 1, 1, 1, 0, 0)
  /\ phase = "bar_inode" => Counts(1, 1, 1, 1, 1, 0)
  /\ phase = "mounted" => Counts(1, 1, 1, 1, 0, 0) \/ Counts(1, 1, 1, 1, 1, 1)
  /\ phase = "oops" => Counts(1, 1, 0, 0, 0, 0) \/ Counts(-1, 0, 0, 0, 0, 0)

TreeOK ==
  /\ registered \in BOOLEAN
  /\ phase \in {"none", "no_foo", "mounted", "oops"} \cup Objects
  /\ refs \in [Objects -> Int]
  /\ left \in 0 .. Failures
  /\ Tree

\* A reader has received as many bytes as its position says, and the end is
\* reported at the end of the message only.
Reading ==
  /\ offset \in [Readers -> Closed .. Len(Msg)]
  /\ got \in [Readers -> Seq(Int)]
  /\ ended \in [Readers -> BOOLEAN]
  /\ \A r \in Readers :
       /\ Len(got[r]) = IF offset[r] = Closed THEN 0 ELSE offset[r]
       /\ ended[r] => offset[r] = Len(Msg)

IInv == TreeOK /\ Reading

\* The inode of each dentry.
LEMMA Inodes ==
  /\ InodeOf["root"] = "root_inode"
  /\ InodeOf["foo"] = "foo_inode"
  /\ InodeOf["bar"] = "bar_inode"
  BY DEF InodeOf

\* The objects, one by one.
LEMMA ObjectSet ==
  Objects = {"root", "foo", "bar", "root_inode", "foo_inode", "bar_inode"}
  BY Inodes DEF Objects, Dentries

\* The message is a sequence of bytes and the bounds are numbers.
LEMMA Constants ==
  /\ Msg \in Seq(Int) /\ Len(Msg) \in Nat
  /\ MaxCount \in Nat /\ MaxGot \in Nat /\ Failures \in Nat
  BY S2fsAssumption, LenProperties

-----------------------------------------------------------------------------
(* The tree                                                                *)

\* The steps of mount, its failures and unmount keep count of the references.
LEMMA TreeStep ==
  ASSUME TreeOK, Insmod \/ Rmmod \/ Mount \/ FillSuper \/ Unmount
  PROVE  TreeOK'
<1> USE Constants, ObjectSet DEF TreeOK, Tree, Counts
<1>1. CASE Insmod
  BY <1>1 DEF Insmod
<1>2. CASE Rmmod
  BY <1>2 DEF Rmmod
<1>3. CASE Mount
  BY <1>3 DEF Mount
<1>4. CASE RootInode
  BY <1>4 DEF RootInode, Allocates, Fails, Goto
<1>5. CASE MakeRoot
  BY <1>5 DEF MakeRoot, Allocates, Fails, Goto
<1>6. CASE FooDentry
  BY <1>6 DEF FooDentry, Allocates, Fails, Goto
<1>7. CASE FooInode
  BY <1>7 DEF FooInode, Allocates, Fails, Goto
<1>8. CASE NoFoo
  BY <1>8 DEF NoFoo, Goto
<1>9. CASE BarDentry
  BY <1>9 DEF BarDentry, Allocates, Fails, Goto
<1>10. CASE BarInode
  BY <1>10 DEF BarInode, Allocates, Fails, Goto
<1>11. CASE Unmount
  <2> DEFINE live == {d \in Dentries : refs[InodeOf[d]] = 1}
             gone == live \cup {InodeOf[d] : d \in live}
  <2>1. phase = "mounted" /\ phase' = "none" /\ UNCHANGED <<registered, left>>
    BY <1>11 DEF Unmount, Goto
  <2>2. refs' = [o \in Objects |-> IF o \in gone THEN refs[o] - 1 ELSE refs[o]]
    BY <1>11 DEF Unmount
  <2>3. \A o \in Objects : o \in gone <=> refs[o] = 1
    BY <2>1, Inodes DEF Dentries
  <2> HIDE DEF gone
  <2> QED
    BY <2>1, <2>2, <2>3
<1> QED
  BY <1>1, <1>2, <1>3, <1>4, <1>5, <1>6, <1>7, <1>8, <1>9, <1>10, <1>11 DEF FillSuper

-----------------------------------------------------------------------------
(* The readers                                                             *)

\* A read never goes beyond the message, and gives nothing only at its end.
LEMMA GivenBounds ==
  ASSUME NEW r \in Readers, offset[r] \in 0 .. Len(Msg), NEW count \in 1 .. MaxCount
  PROVE  /\ Given(r, count) \in 0 .. Len(Msg) - offset[r]
         /\ Given(r, count) = 0 => offset[r] = Len(Msg)
  BY Constants DEF Given

\* What Read copies is as long as Given says.
LEMMA CopiedLength ==
  ASSUME NEW n \in 0 .. Len(Msg), NEW s \in Seq(Int)
  PROVE  /\ s \o SubSeq(Msg, 1, n) \in Seq(Int)
         /\ Len(s \o SubSeq(Msg, 1, n)) = Len(s) + n
<1>1. SubSeq(Msg, 1, n) \in Seq(Int) /\ Len(SubSeq(Msg, 1, n)) = n
  BY Constants, SubSeqProperties
<1> QED
  BY <1>1, ConcatProperties

\* Opening, closing and reading keep every reader's bytes and position in step.
LEMMA ReaderStep ==
  ASSUME Reading, NEW r \in Readers, Open(r) \/ Close(r) \/ ReadSome(r)
  PROVE  Reading'
<1> USE Constants DEF Reading, Closed
<1>1. CASE Open(r)
  <2>1. /\ offset[r] = Closed /\ offset' = [offset EXCEPT ![r] = 0]
        /\ UNCHANGED <<got, ended>>
    BY <1>1 DEF Open
  <2>2. Len(got[r]) = 0 /\ ~ended[r]
    BY <2>1
  <2>3. \A s \in Readers : s # r => offset'[s] = offset[s]
    BY <2>1
  <2>4. offset' \in [Readers -> Closed .. Len(Msg)] /\ offset'[r] = 0
    BY <2>1
  <2> QED
    BY <2>1, <2>2, <2>3, <2>4
<1>2. CASE Close(r)
  BY <1>2 DEF Close
<1>3. CASE ReadSome(r)
  <2>1. PICK count \in 1 .. MaxCount : Read(r, count)
    BY <1>3 DEF ReadSome
  <2> DEFINE n == Given(r, count)
  <2>2. offset[r] \in 0 .. Len(Msg)
    BY <2>1 DEF Read
  <2>3. n \in 0 .. Len(Msg) - offset[r] /\ (n = 0 => offset[r] = Len(Msg))
    BY <2>2, GivenBounds
  <2>4. /\ got' = [got EXCEPT ![r] = @ \o SubSeq(Msg, 1, n)]
        /\ offset' = [offset EXCEPT ![r] = @ + n]
        /\ ended' = [ended EXCEPT ![r] = n = 0]
    BY <2>1 DEF Read
  <2> HIDE DEF n
  <2>5. /\ got'[r] \in Seq(Int)
        /\ Len(got'[r]) = Len(got[r]) + n
    BY <2>2, <2>3, <2>4, CopiedLength
  <2>6. offset' \in [Readers -> Closed .. Len(Msg)] /\ offset'[r] = offset[r] + n
    BY <2>2, <2>3, <2>4
  <2>7. ended' \in [Readers -> BOOLEAN] /\ (ended'[r] <=> n = 0)
    BY <2>4
  <2>8. got' \in [Readers -> Seq(Int)]
    BY <2>4, <2>5
  <2>9. \A s \in Readers : s # r => UNCHANGED <<got[s], offset[s], ended[s]>>
    BY <2>4
  <2>10. \A s \in Readers :
           Len(got'[s]) = IF offset'[s] = Closed THEN 0 ELSE offset'[s]
    <3>1. Len(got'[r]) = offset[r] + n
      BY <2>2, <2>5
    <3>2. offset'[r] # Closed
      BY <2>2, <2>3, <2>6
    <3> QED
      BY <2>6, <2>9, <3>1, <3>2
  <2>11. \A s \in Readers : ended'[s] => offset'[s] = Len(Msg)
    <3>1. ended'[r] => offset'[r] = Len(Msg)
      BY <2>2, <2>3, <2>6, <2>7
    <3> QED
      BY <2>9, <3>1
  <2> QED
    BY <2>6, <2>7, <2>8, <2>10, <2>11
<1> QED
  BY <1>1, <1>2, <1>3

-----------------------------------------------------------------------------
(* The invariant                                                           *)

\* Nothing is allocated and nothing open at first.
LEMMA InitIInv == Init => IInv
<1> SUFFICES ASSUME Init PROVE IInv
  OBVIOUS
<1>1. TreeOK
  <2>1. refs \in [Objects -> Int] /\ \A o \in Objects : refs[o] = 0
    BY DEF Init
  <2>2. Counts(0, 0, 0, 0, 0, 0)
    BY <2>1, ObjectSet DEF Counts
  <2>3. registered = FALSE /\ phase = "none" /\ left = Failures
    BY DEF Init
  <2>4. left \in 0 .. Failures
    BY <2>3, Constants
  <2>5. Tree
    BY <2>2, <2>3 DEF Tree
  <2> QED
    BY <2>1, <2>3, <2>4, <2>5 DEF TreeOK
<1>2. Reading
  BY Constants, EmptySeq DEF Init, Reading, Closed
<1> QED
  BY <1>1, <1>2 DEF IInv

\* The tree is no concern of the readers, nor the other way round.
LEMMA StepIInv == IInv /\ [Next]_vars => IInv'
<1> SUFFICES ASSUME IInv, [Next]_vars PROVE IInv'
  OBVIOUS
<1>1. TreeOK /\ Reading
  BY DEF IInv
<1>2. UNCHANGED treeVars => TreeOK'
  BY <1>1 DEF treeVars, TreeOK, Tree, Counts
<1>3. UNCHANGED readVars => Reading'
  BY <1>1 DEF readVars, Reading
<1>4. CASE Insmod \/ Rmmod \/ Mount \/ FillSuper \/ Unmount
  <2>1. UNCHANGED readVars
    BY <1>4 DEF Insmod, Rmmod, Mount, FillSuper, Unmount, RootInode, MakeRoot, FooDentry,
                FooInode, NoFoo, BarDentry, BarInode, Goto
  <2> QED
    BY <1>1, <1>3, <1>4, <2>1, TreeStep DEF IInv
<1>5. CASE \E r \in Readers : Open(r) \/ Close(r) \/ ReadSome(r)
  <2>1. UNCHANGED treeVars
    BY <1>5 DEF Open, Close, ReadSome, Read
  <2> QED
    BY <1>1, <1>2, <1>5, <2>1, ReaderStep DEF IInv
<1>6. CASE UNCHANGED vars
  BY <1>2, <1>3, <1>6 DEF vars, IInv
<1> QED
  BY <1>4, <1>5, <1>6 DEF Next

\* The invariant holds throughout.
LEMMA Invariant == Spec => []IInv
  BY InitIInv, StepIInv, PTL DEF Spec

\* Every variable keeps its type.
THEOREM TypeCorrect == Spec => []TypeOK
<1>1. IInv => TypeOK
  <2> SUFFICES ASSUME IInv PROVE TypeOK
    OBVIOUS
  <2>1. refs \in [Objects -> -1 .. 1]
    BY ObjectSet DEF IInv, TreeOK, Tree, Counts
  <2>2. \A r \in Readers : Len(got[r]) <= Len(Msg)
    BY Constants DEF IInv, Reading, Closed
  <2> QED
    BY <2>1, <2>2 DEF IInv, TreeOK, Reading, TypeOK
<1> QED
  BY <1>1, Invariant, PTL

\* A mount that is refused and an unmount leave nothing behind, whichever
\* allocations fail, and only the root's inode is ever put twice.
THEOREM NothingLeft == Spec => []Released
<1>1. IInv => Released
  BY ObjectSet DEF IInv, TreeOK, Tree, Counts, Released
<1> QED
  BY <1>1, Invariant, PTL

\* However the reads are cut, a program that reads bar to its end receives as
\* many bytes as the message has.
THEOREM WholeMessage == Spec => []MessageSize
<1>1. IInv => MessageSize
  BY Constants DEF IInv, Reading, MessageSize, Closed
<1> QED
  BY <1>1, Invariant, PTL
=============================================================================
