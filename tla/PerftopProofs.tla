--------------------------- MODULE PerftopProofs ---------------------------
(***************************************************************************)
(* Perftop for every set of CPUs and tasks and every width of the time     *)
(* stamps: the table and the tree describe the same tasks, a reader sees   *)
(* one moment, and a total is the time its task has run.                   *)
(***************************************************************************)
EXTENDS Perftop, SequenceTheorems, FiniteSetTheorems, WellFoundedInduction, TLAPS

NodeType == [pid : Users, ttsc : 0 .. MaxTotal]

\* The nodes of a tree, in no order.
Nodes(s) == {s[i] : i \in DOMAIN s}

\* A task has one node, and totals do not decrease.
Distinct(s) == \A i, j \in DOMAIN s : i # j => s[i].pid # s[j].pid
Ordered(s) == \A i, j \in DOMAIN s : i < j => s[i].ttsc <= s[j].ttsc

TreeType(s) == s \in Seq(NodeType) /\ Distinct(s) /\ Ordered(s)

\* Each variable by itself.
Types ==
  /\ cur \in [Cpus -> Fair \cup {Other}]
  /\ pc \in [Cpus -> {"run", "pick", "picked", "oops", "show"}]
  /\ prev \in [Cpus -> Users \cup {Null}]
  /\ next \in [Cpus -> Fair \cup {Null, Retry}]
  /\ tsc \in 0 .. MaxTsc
  /\ ht \in {"none"} \cup Fresh
  /\ proc \in (IF ht = "none" THEN {"none", "stale"} ELSE {"live", "stale"})
  /\ held \in Cpus \cup {Null}
  /\ ran \in [Fair -> Nat] /\ \A t \in Fair : ran[t] <= tsc
  /\ missed \subseteq Users
  /\ listed \in Seq(NodeType)
  /\ at \in Nat

\* No task runs, or is about to run, on two CPUs; a call was made by the task
\* that runs.
Apart ==
  \A c \in Cpus :
    /\ \A d \in Cpus \ {c} :
         /\ cur[c] = cur[d] => cur[c] = Other
         /\ next[c] \in Fair => next[c] # cur[d] /\ next[c] # next[d]
    /\ pc[c] \in {"pick", "picked"} => prev[c] \in {cur[c], Null}

\* Without the module nothing is recorded and no CPU is in a probed call.
Gone ==
  ht = "none" => DOMAIN table = {} /\ tree = <<>> /\ \A c \in Cpus : pc[c] = "run"

\* An entry says when its task started last, and whether it has a node.
Entries ==
  /\ DOMAIN table \subseteq Fair
  /\ \A p \in DOMAIN table : table[p] \in [tsc : 0 .. tsc, node : {"null", "tree"}]
  /\ \A p \in Fair : Counted(p) <=> \E m \in Nodes(tree) : m.pid = p
  /\ \A p \in Fair : ~Counted(p) => ran[p] = 0

\* The reader holds the lock, and has printed the end of the tree.
Reading ==
  /\ \A c \in Cpus : pc[c] = "show" =>
       /\ held = c
       /\ at + Len(listed) = Len(tree)
       /\ \A i \in 1 .. Len(listed) : listed[i] = tree[Len(tree) + 1 - i]
  /\ (\A c \in Cpus : pc[c] # "show") => at = 0 /\ Len(listed) = 0

\* What a node and the slice its task is in add up to.
Timed(m) ==
  m.pid \notin missed =>
    m.ttsc + (IF Running(m.pid) THEN tsc - table[m.pid].tsc ELSE 0) = ran[m.pid]

AllTimed == \A m \in Nodes(tree) : Timed(m)

IInv == Types /\ Apart /\ Gone /\ TreeType(tree) /\ Entries /\ Reading /\ AllTimed

-----------------------------------------------------------------------------
(* Trees as sequences                                                      *)

\* A set of numbers has a least one.
LEMMA Least ==
  ASSUME NEW T, T \subseteq Nat, T # {}
  PROVE  \E x \in T : \A y \in T : x <= y
<1> DEFINE R == OpToRel(<, Nat)
<1>1. PICK x \in T : \A y \in T : ~ (<<y, x>> \in R)
  BY NatLessThanWellFounded, WFMin
<1>2. \A y, z \in Nat : y < z => <<y, z>> \in R
  BY DEF OpToRel
<1> HIDE DEF R
<1>3. ASSUME NEW y \in T PROVE x <= y
  <2>1. ~(y < x)
    BY <1>1, <1>2
  <2> QED
    BY <2>1
<1> QED
  BY <1>3

\* The sequence without its k-th element.
LEMMA Removed ==
  ASSUME NEW S, NEW s \in Seq(S), NEW k \in 1 .. Len(s)
  PROVE  /\ RemoveAt(s, k) \in Seq(S)
         /\ Len(RemoveAt(s, k)) = Len(s) - 1
         /\ \A j \in 1 .. Len(s) - 1 : RemoveAt(s, k)[j] = s[IF j < k THEN j ELSE j + 1]
<1> DEFINE a == SubSeq(s, 1, k - 1)
           b == SubSeq(s, k + 1, Len(s))
<1>1. Len(s) \in Nat /\ \A i \in 1 .. Len(s) : s[i] \in S
  BY LenProperties, ElementOfSeq
<1>2. a \in Seq(S) /\ Len(a) = k - 1 /\ \A j \in 1 .. k - 1 : a[j] = s[j]
  BY <1>1, SubSeqProperties
<1>3. b \in Seq(S) /\ Len(b) = Len(s) - k /\ \A j \in 1 .. Len(s) - k : b[j] = s[k + 1 + j - 1]
  BY <1>1, SubSeqProperties
<1> HIDE DEF a, b
<1>4. /\ a \o b \in Seq(S) /\ Len(a \o b) = Len(a) + Len(b)
      /\ \A i \in 1 .. Len(a) + Len(b) : (a \o b)[i] = IF i <= Len(a) THEN a[i] ELSE b[i - Len(a)]
  BY <1>2, <1>3, ConcatProperties
<1>5. ASSUME NEW j \in 1 .. Len(s) - 1
      PROVE  (a \o b)[j] = s[IF j < k THEN j ELSE j + 1]
  <2>1. CASE j < k
    BY <1>1, <1>2, <1>3, <1>4, <2>1
  <2>2. CASE ~(j < k)
    <3>1. (a \o b)[j] = b[j - (k - 1)] /\ j - (k - 1) \in 1 .. Len(s) - k
      BY <1>1, <1>2, <1>3, <1>4, <2>2
    <3>2. k + 1 + (j - (k - 1)) - 1 = j + 1
      BY <1>1
    <3> QED
      BY <1>1, <1>3, <2>2, <3>1, <3>2
  <2> QED
    BY <2>1, <2>2
<1>6. RemoveAt(s, k) = a \o b
  BY DEF a, b, RemoveAt
<1> QED
  BY <1>1, <1>2, <1>3, <1>4, <1>5, <1>6

\* The sequence with e as its k-th element.
LEMMA Inserted ==
  ASSUME NEW S, NEW s \in Seq(S), NEW k \in 1 .. Len(s) + 1, NEW e \in S
  PROVE  /\ InsertAt(s, k, e) \in Seq(S)
         /\ Len(InsertAt(s, k, e)) = Len(s) + 1
         /\ InsertAt(s, k, e)[k] = e
         /\ \A j \in 1 .. Len(s) : InsertAt(s, k, e)[IF j < k THEN j ELSE j + 1] = s[j]
<1> DEFINE a == SubSeq(s, 1, k - 1)
           b == SubSeq(s, k, Len(s))
           m == a \o <<e>>
<1>1. Len(s) \in Nat /\ \A i \in 1 .. Len(s) : s[i] \in S
  BY LenProperties, ElementOfSeq
<1>2. a \in Seq(S) /\ Len(a) = k - 1 /\ \A j \in 1 .. k - 1 : a[j] = s[j]
  BY <1>1, SubSeqProperties
<1>3. b \in Seq(S) /\ Len(b) = Len(s) + 1 - k /\ \A j \in 1 .. Len(s) + 1 - k : b[j] = s[k + j - 1]
  BY <1>1, SubSeqProperties
<1> HIDE DEF a, b
<1>4. /\ m \in Seq(S) /\ Len(m) = k /\ m[k] = e
      /\ \A j \in 1 .. k - 1 : m[j] = s[j]
  <2>1. <<e>> \in Seq(S) /\ Len(<<e>>) = 1 /\ <<e>>[1] = e
    OBVIOUS
  <2> QED
    BY <1>1, <1>2, <2>1, ConcatProperties
<1> HIDE DEF m
<1>5. /\ m \o b \in Seq(S) /\ Len(m \o b) = Len(m) + Len(b)
      /\ \A i \in 1 .. Len(m) + Len(b) : (m \o b)[i] = IF i <= Len(m) THEN m[i] ELSE b[i - Len(m)]
  BY <1>3, <1>4, ConcatProperties
<1>6. ASSUME NEW j \in 1 .. Len(s)
      PROVE  (m \o b)[IF j < k THEN j ELSE j + 1] = s[j]
  <2>1. CASE j < k
    BY <1>1, <1>3, <1>4, <1>5, <2>1
  <2>2. CASE ~(j < k)
    <3>1. (m \o b)[j + 1] = b[j + 1 - k] /\ j + 1 - k \in 1 .. Len(s) + 1 - k
      BY <1>1, <1>3, <1>4, <1>5, <2>2
    <3>2. k + (j + 1 - k) - 1 = j
      BY <1>1
    <3>3. b[j + 1 - k] = s[k + (j + 1 - k) - 1]
      BY <1>3, <3>1
    <3> QED
      BY <2>2, <3>1, <3>2, <3>3
  <2> QED
    BY <2>1, <2>2
<1>7. InsertAt(s, k, e) = m \o b
  BY DEF a, b, m, InsertAt
<1>8. (m \o b)[k] = e
  BY <1>1, <1>3, <1>4, <1>5
<1> QED
  BY <1>1, <1>3, <1>4, <1>5, <1>6, <1>7, <1>8

\* What a node holds.
LEMMA NodeTypes ==
  /\ MaxTotal \in Nat /\ MaxTsc \in Nat
  /\ \A m \in NodeType : m.pid \in Users /\ m.ttsc \in Nat /\ m.ttsc <= MaxTotal
<1>1. MaxTotal \in Nat /\ MaxTsc \in Nat
  BY PerftopAssumption
<1> QED
  BY <1>1 DEF NodeType

\* A task's node, if it has one.
LEMMA NodeOf ==
  ASSUME NEW s, TreeType(s), NEW m \in Nodes(s)
  PROVE  /\ Node(s, m.pid) \in 1 .. Len(s) /\ s[Node(s, m.pid)] = m
         /\ m \in NodeType
<1>1. DOMAIN s = 1 .. Len(s) /\ Len(s) \in Nat /\ \A i \in 1 .. Len(s) : s[i] \in NodeType
  BY LenProperties, ElementOfSeq DEF TreeType
<1>2. PICK i \in 1 .. Len(s) : s[i] = m
  BY <1>1 DEF Nodes
<1>3. Node(s, m.pid) \in 1 .. Len(s) /\ s[Node(s, m.pid)].pid = m.pid
  BY <1>1, <1>2 DEF Node
<1>4. Node(s, m.pid) = i
  BY <1>1, <1>2, <1>3 DEF TreeType, Distinct
<1> QED
  BY <1>1, <1>2, <1>3, <1>4

\* rb_erase takes away the node of one task and leaves the others in order.
LEMMA Erased ==
  ASSUME NEW s, TreeType(s), NEW p
  PROVE  /\ TreeType(Erase(s, p))
         /\ Nodes(Erase(s, p)) = {m \in Nodes(s) : m.pid # p}
<1>1. /\ s \in Seq(NodeType) /\ DOMAIN s = 1 .. Len(s) /\ Len(s) \in Nat
      /\ Distinct(s) /\ Ordered(s)
  BY LenProperties DEF TreeType
<1>2. CASE ~\E k \in DOMAIN s : s[k].pid = p
  BY <1>2 DEF Erase, Nodes
<1>3. CASE \E k \in DOMAIN s : s[k].pid = p
  <2> DEFINE k == Node(s, p)
             r == RemoveAt(s, k)
  <2>1. k \in 1 .. Len(s) /\ s[k].pid = p
    BY <1>1, <1>3 DEF Node
  <2> HIDE DEF k
  <2>2. /\ r \in Seq(NodeType) /\ Len(r) = Len(s) - 1
        /\ \A j \in 1 .. Len(s) - 1 : r[j] = s[IF j < k THEN j ELSE j + 1]
    BY <1>1, <2>1, Removed
  <2>3. Erase(s, p) = r
    BY <1>3 DEF Erase, k
  <2> HIDE DEF r
  <2>4. DOMAIN r = 1 .. Len(s) - 1
    BY <2>2, LenProperties
  <2> DEFINE up(j) == IF j < k THEN j ELSE j + 1
  <2>5. \A j \in 1 .. Len(s) - 1 : up(j) \in 1 .. Len(s) /\ up(j) # k /\ r[j] = s[up(j)]
    BY <1>1, <2>1, <2>2
  <2>6. \A i, j \in 1 .. Len(s) - 1 : i < j => up(i) < up(j)
    BY <1>1, <2>1
  <2>7. \A i \in 1 .. Len(s) : i # k => \E j \in 1 .. Len(s) - 1 : up(j) = i
    <3> SUFFICES ASSUME NEW i \in 1 .. Len(s), i # k
        PROVE  \E j \in 1 .. Len(s) - 1 : up(j) = i
      OBVIOUS
    <3>1. CASE i < k
      BY <1>1, <2>1, <3>1
    <3>2. CASE i > k
      <4>1. i - 1 \in 1 .. Len(s) - 1 /\ up(i - 1) = i
        BY <1>1, <2>1, <3>2
      <4> QED
        BY <4>1
    <3> QED
      BY <1>1, <2>1, <3>1, <3>2
  <2> HIDE DEF up
  <2>8. Distinct(r)
    <3> SUFFICES ASSUME NEW i \in 1 .. Len(s) - 1, NEW j \in 1 .. Len(s) - 1, i # j
        PROVE  r[i].pid # r[j].pid
      BY <2>4 DEF Distinct
    <3>1. i < j \/ j < i
      BY <1>1
    <3>2. up(i) \in 1 .. Len(s) /\ up(j) \in 1 .. Len(s)
      BY <2>5
    <3>3. up(i) # up(j)
      BY <1>1, <2>6, <3>1, <3>2
    <3> QED
      BY <1>1, <2>5, <3>2, <3>3 DEF Distinct
  <2>9. Ordered(r)
    BY <1>1, <2>4, <2>5, <2>6 DEF Ordered
  <2>10. Nodes(r) = {m \in Nodes(s) : m.pid # p}
    <3>1. ASSUME NEW m \in Nodes(r)
          PROVE  m \in Nodes(s) /\ m.pid # p
      <4>1. PICK j \in 1 .. Len(s) - 1 : m = r[j]
        BY <2>4 DEF Nodes
      <4>2. up(j) \in 1 .. Len(s) /\ up(j) # k /\ m = s[up(j)]
        BY <2>5, <4>1
      <4> QED
        BY <1>1, <2>1, <4>2 DEF Nodes, Distinct
    <3>2. ASSUME NEW m \in Nodes(s), m.pid # p
          PROVE  m \in Nodes(r)
      <4>1. PICK i \in 1 .. Len(s) : m = s[i]
        BY <1>1 DEF Nodes
      <4>2. PICK j \in 1 .. Len(s) - 1 : up(j) = i
        BY <2>1, <2>7, <3>2, <4>1
      <4> QED
        BY <2>4, <2>5, <4>1, <4>2 DEF Nodes
    <3> QED
      BY <3>1, <3>2
  <2> QED
    BY <2>2, <2>3, <2>8, <2>9, <2>10 DEF TreeType
<1> QED
  BY <1>2, <1>3

\* There is a place in an ordered tree for every total.
LEMMA Place ==
  ASSUME NEW s, TreeType(s), NEW v \in Nat
  PROVE  \E k \in 1 .. Len(s) + 1 : \A j \in DOMAIN s : j < k <=> s[j].ttsc <= v
<1>1. DOMAIN s = 1 .. Len(s) /\ Len(s) \in Nat /\ \A i \in 1 .. Len(s) : s[i].ttsc \in Nat
  BY LenProperties, ElementOfSeq, NodeTypes DEF TreeType
<1> DEFINE T == {j \in 1 .. Len(s) : ~(s[j].ttsc <= v)}
<1>2. CASE T = {}
  <2>1. \A j \in DOMAIN s : j < Len(s) + 1 <=> s[j].ttsc <= v
    BY <1>1, <1>2
  <2> QED
    BY <1>1, <2>1
<1>3. CASE T # {}
  <2>1. PICK k \in T : \A j \in T : k <= j
    <3>1. T \subseteq Nat
      BY <1>1
    <3> QED
      BY <1>3, <3>1, Least
  <2>2. ASSUME NEW j \in 1 .. Len(s)
        PROVE  j < k <=> s[j].ttsc <= v
    <3>1. CASE j < k
      BY <1>1, <2>1, <3>1
    <3>2. CASE ~(j < k)
      <4>1. s[k].ttsc <= s[j].ttsc
        BY <1>1, <2>1, <3>2 DEF TreeType, Ordered
      <4> QED
        BY <1>1, <2>1, <3>2, <4>1
    <3> QED
      BY <3>1, <3>2
  <2> QED
    BY <1>1, <2>1, <2>2
<1> QED
  BY <1>2, <1>3

\* my_rb_insert adds a node of a task that had none, and keeps the order.
LEMMA InsertedNode ==
  ASSUME NEW s, TreeType(s), NEW e \in NodeType, \A m \in Nodes(s) : m.pid # e.pid
  PROVE  /\ TreeType(Insert(s, e))
         /\ Nodes(Insert(s, e)) = Nodes(s) \cup {e}
<1>1. /\ s \in Seq(NodeType) /\ DOMAIN s = 1 .. Len(s) /\ Len(s) \in Nat
      /\ Distinct(s) /\ Ordered(s) /\ \A i \in 1 .. Len(s) : s[i] \in NodeType /\ s[i].ttsc \in Nat
      /\ e.ttsc \in Nat
  <2>1. e.ttsc \in Nat
    BY NodeTypes
  <2> QED
    BY <2>1, LenProperties, ElementOfSeq, NodeTypes DEF TreeType
<1> DEFINE k == CHOOSE k \in 1 .. Len(s) + 1 :
                  \A j \in DOMAIN s : j < k <=> s[j].ttsc <= e.ttsc
           r == InsertAt(s, k, e)
<1>2. k \in 1 .. Len(s) + 1 /\ \A j \in 1 .. Len(s) : j < k <=> s[j].ttsc <= e.ttsc
  BY <1>1, Place
<1>3. Insert(s, e) = r
  BY DEF Insert
<1> HIDE DEF k
<1>4. /\ r \in Seq(NodeType) /\ Len(r) = Len(s) + 1 /\ r[k] = e
      /\ \A j \in 1 .. Len(s) : r[IF j < k THEN j ELSE j + 1] = s[j]
  BY <1>1, <1>2, Inserted
<1> HIDE DEF r
<1>5. DOMAIN r = 1 .. Len(s) + 1
  BY <1>4, LenProperties
<1> DEFINE down(i) == IF i < k THEN i ELSE i - 1
<1>6. \A i \in 1 .. Len(s) + 1 : i # k => down(i) \in 1 .. Len(s) /\ r[i] = s[down(i)]
  <2> SUFFICES ASSUME NEW i \in 1 .. Len(s) + 1, i # k
      PROVE  down(i) \in 1 .. Len(s) /\ r[i] = s[down(i)]
    OBVIOUS
  <2>1. CASE i < k
    BY <1>1, <1>2, <1>4, <2>1
  <2>2. CASE ~(i < k)
    <3>1. i - 1 \in 1 .. Len(s) /\ ~(i - 1 < k) /\ i - 1 + 1 = i
      BY <1>1, <1>2, <2>2
    <3>2. r[i - 1 + 1] = s[i - 1]
      BY <1>4, <3>1
    <3> QED
      BY <2>2, <3>1, <3>2
  <2> QED
    BY <2>1, <2>2
<1>7. \A i, j \in 1 .. Len(s) + 1 : i # k /\ j # k /\ i < j => down(i) < down(j)
  BY <1>1, <1>2
<1>8. \A i \in 1 .. Len(s) + 1 : i # k => (i < k <=> s[down(i)].ttsc <= e.ttsc)
  BY <1>1, <1>2
<1> HIDE DEF down
<1>9. \A i \in 1 .. Len(s) + 1 : i # k => r[i].pid # e.pid
  BY <1>1, <1>6 DEF Nodes
<1>10. Distinct(r)
  <2> SUFFICES ASSUME NEW i \in 1 .. Len(s) + 1, NEW j \in 1 .. Len(s) + 1, i # j
      PROVE  r[i].pid # r[j].pid
    BY <1>5 DEF Distinct
  <2>1. CASE i = k \/ j = k
    BY <1>4, <1>9, <2>1
  <2>2. CASE i # k /\ j # k
    <3>1. i < j \/ j < i
      BY <1>1
    <3>2. down(i) \in 1 .. Len(s) /\ down(j) \in 1 .. Len(s) /\ down(i) # down(j)
      BY <1>1, <1>6, <1>7, <2>2, <3>1
    <3> QED
      BY <1>1, <1>6, <2>2, <3>2 DEF Distinct
  <2> QED
    BY <2>1, <2>2
<1>11. Ordered(r)
  <2> SUFFICES ASSUME NEW i \in 1 .. Len(s) + 1, NEW j \in 1 .. Len(s) + 1, i < j
      PROVE  r[i].ttsc <= r[j].ttsc
    BY <1>5 DEF Ordered
  <2>1. CASE i = k
    BY <1>1, <1>4, <1>6, <1>8, <2>1
  <2>2. CASE j = k
    BY <1>1, <1>4, <1>6, <1>8, <2>2
  <2>3. CASE i # k /\ j # k
    BY <1>1, <1>6, <1>7, <2>3 DEF Ordered
  <2> QED
    BY <2>1, <2>2, <2>3
<1>12. Nodes(r) = Nodes(s) \cup {e}
  <2>1. ASSUME NEW m \in Nodes(r)
        PROVE  m \in Nodes(s) \cup {e}
    <3>1. PICK i \in 1 .. Len(s) + 1 : m = r[i]
      BY <1>5 DEF Nodes
    <3> QED
      BY <1>1, <1>4, <1>6, <3>1 DEF Nodes
  <2>2. e \in Nodes(r)
    BY <1>2, <1>4, <1>5 DEF Nodes
  <2>3. ASSUME NEW m \in Nodes(s)
        PROVE  m \in Nodes(r)
    <3>1. PICK j \in 1 .. Len(s) : m = s[j]
      BY <1>1 DEF Nodes
    <3>2. (IF j < k THEN j ELSE j + 1) \in 1 .. Len(s) + 1
      BY <1>1, <1>2
    <3> QED
      BY <1>4, <1>5, <3>1, <3>2 DEF Nodes
  <2> QED
    BY <2>1, <2>2, <2>3
<1> QED
  BY <1>3, <1>4, <1>10, <1>11, <1>12 DEF TreeType

\* A tree has as many tasks as nodes.
LEMMA OnePid ==
  ASSUME NEW s, TreeType(s)
  PROVE  Cardinality({s[i].pid : i \in DOMAIN s}) = Len(s)
<1>1. DOMAIN s = 1 .. Len(s) /\ Len(s) \in Nat
  BY LenProperties DEF TreeType
<1> DEFINE P == {s[i].pid : i \in DOMAIN s}
           f == [i \in 1 .. Len(s) |-> s[i].pid]
<1>2. f \in Bijection(1 .. Len(s), P)
  <2>1. f \in [1 .. Len(s) -> P]
    BY <1>1
  <2>2. \A i, j \in 1 .. Len(s) : f[i] = f[j] => i = j
    BY <1>1 DEF TreeType, Distinct
  <2>3. \A p \in P : \E i \in 1 .. Len(s) : f[i] = p
    BY <1>1
  <2> HIDE DEF f, P
  <2> QED
    BY <2>1, <2>2, <2>3 DEF Bijection, Injection, Surjection, IsInjective
<1>3. IsFiniteSet(1 .. Len(s)) /\ Cardinality(1 .. Len(s)) = Len(s)
  <2>1. /\ IsFiniteSet(1 .. Len(s))
        /\ Cardinality(1 .. Len(s)) = IF 1 > Len(s) THEN 0 ELSE Len(s) - 1 + 1
    BY <1>1, FS_Interval
  <2> QED
    BY <1>1, <2>1
<1>4. ExistsBijection(1 .. Len(s), P)
  BY <1>2 DEF ExistsBijection
<1> QED
  BY <1>3, <1>4, FS_Bijection

-----------------------------------------------------------------------------
(* What a step leaves alone                                                *)

\* Other, Null and Retry are no tasks, and differ.
LEMMA NoTasks ==
  /\ Other \notin Fair /\ Null \notin Fair /\ Retry \notin Fair /\ Null \notin Cpus
  /\ Users \subseteq Fair /\ Kthreads \subseteq Fair
  BY SchedulerAssumption DEF Fair

\* A node belongs to a task that is counted.
LEMMA OwnerCounted ==
  ASSUME IInv, NEW m \in Nodes(tree)
  PROVE  Counted(m.pid) /\ m.pid \in Users /\ m.pid \in Fair /\ m.pid \in DOMAIN table
<1>1. m.pid \in Users
  BY NodeOf, NodeTypes DEF IInv
<1>2. m.pid \in Fair
  BY <1>1, NoTasks
<1>3. Counted(m.pid)
  BY <1>2 DEF IInv, Entries
<1> QED
  BY <1>1, <1>2, <1>3 DEF Counted, Known

\* A counted task is one of a user.
LEMMA CountedUser ==
  ASSUME IInv, NEW t, Counted(t)
  PROVE  t \in Users
<1>1. t \in Fair
  BY DEF Counted, Known, IInv, Entries
<1>2. PICK m \in Nodes(tree) : m.pid = t
  BY <1>1 DEF IInv, Entries
<1> QED
  BY <1>2, OwnerCounted

\* Table and tree are left alone while no time passes.
LEMMA DataKept ==
  ASSUME IInv, UNCHANGED <<tsc, table, tree, ran>>
  PROVE  TreeType(tree)' /\ Entries'
  BY DEF IInv, TreeType, Distinct, Ordered, Entries, Counted, Known, Nodes

\* Nor does any task start or stop.
LEMMA TimedKept ==
  ASSUME IInv, UNCHANGED <<tsc, table, tree, ran, missed, cur>>
  PROVE  AllTimed'
  BY DEF IInv, AllTimed, Timed, Nodes, Running

\* No reader begins or ends.
LEMMA ReadingKept ==
  ASSUME IInv, UNCHANGED <<tree, held, listed, at>>,
         \A c \in Cpus : pc'[c] = "show" <=> pc[c] = "show"
  PROVE  Reading'
  BY DEF IInv, Reading

\* What is missed of a task is no longer claimed of its node.
LEMMA UnrecordedTimed ==
  ASSUME IInv, NEW c \in Cpus, NEW t, cur' = [cur EXCEPT ![c] = t], Unrecorded(c),
         UNCHANGED <<tsc, table, tree>>
  PROVE  AllTimed' /\ missed' \subseteq Users /\ ran' = ran
<1>1. ran' = ran /\ missed \subseteq missed' /\ cur'[c] = t
  BY DEF Unrecorded, IInv, Types
<1>2. missed' \subseteq Users
  BY CountedUser DEF Unrecorded, IInv, Types
<1>3. ASSUME NEW m \in Nodes(tree), m.pid \notin missed'
      PROVE  m.ttsc + (IF Running(m.pid)' THEN tsc - table[m.pid].tsc ELSE 0) = ran[m.pid]
  <2>1. Counted(m.pid)
    BY OwnerCounted
  <2>2. Running(m.pid)' <=> Running(m.pid)
    <3>1. CASE cur'[c] = cur[c]
      BY <3>1 DEF Running, IInv, Types
    <3>2. CASE cur'[c] # cur[c]
      <4>1. m.pid \notin {cur[c], cur'[c]}
        BY <1>3, <2>1, <3>2 DEF Unrecorded
      <4> QED
        BY <4>1 DEF Running, IInv, Types
    <3> QED
      BY <3>1, <3>2
  <2>3. m.pid \notin missed
    BY <1>1, <1>3
  <2> QED
    BY <2>2, <2>3 DEF IInv, AllTimed, Timed
<1>4. AllTimed'
  BY <1>1, <1>3 DEF AllTimed, Timed, Nodes
<1> QED
  BY <1>1, <1>2, <1>4

-----------------------------------------------------------------------------
(* The steps                                                               *)

\* The module is loaded, or refused, where nothing is recorded.
LEMMA StepLoad ==
  ASSUME IInv, Load
  PROVE  IInv'
<1>1. UNCHANGED <<cur, pc, prev, next, tsc, table, tree, held, listed, at, ran, missed>>
  BY DEF Load, schedVars, showVars, history
<1>2. /\ ht' \in {"none"} \cup Fresh
      /\ proc' \in (IF ht' = "none" THEN {"none", "stale"} ELSE {"live", "stale"})
      /\ ht' = "none" => ht = "none"
  <2>1. ht = "none" /\ proc \in {"none", "stale"} /\ "none" \notin Fresh
    BY PerftopAssumption DEF Load, IInv, Types
  <2> QED
    BY <2>1 DEF Load
<1>3. Types'
  BY <1>1, <1>2 DEF IInv, Types
<1>4. Apart' /\ Gone'
  BY <1>1, <1>2 DEF IInv, Apart, Gone
<1> QED
  BY <1>1, <1>3, <1>4, DataKept, TimedKept, ReadingKept DEF IInv

\* The module goes, with all it has recorded; calls that were entered return
\* without their handler.
LEMMA StepUnload ==
  ASSUME IInv, Unload
  PROVE  IInv'
<1>1. /\ \A c \in Cpus : pc[c] \in {"run", "pick"} /\ pc'[c] = "run" /\ next'[c] = Null
      /\ cur' \in Assignments
      /\ pc' = [c \in Cpus |-> "run"] /\ prev' = [c \in Cpus |-> Null]
      /\ next' = [c \in Cpus |-> Null]
      /\ proc' = "none" /\ ht' = "none" /\ DOMAIN table' = {} /\ tree' = <<>>
      /\ ran' = [t \in Fair |-> 0] /\ missed' = {}
      /\ UNCHANGED <<tsc, held, listed, at>>
  BY DEF Unload, Drain, showVars, Empty
<1>2. tsc \in Nat
  BY NodeTypes DEF IInv, Types
<1>3. Types'
  <2>1. cur' \in [Cpus -> Fair \cup {Other}]
    BY <1>1 DEF Assignments
  <2> QED
    BY <1>1, <1>2, <2>1 DEF IInv, Types
<1>4. Apart' /\ Gone'
  <2>1. \A c \in Cpus : \A d \in Cpus \ {c} : cur'[c] = cur'[d] => cur'[c] = Other
    BY <1>1 DEF Assignments
  <2>2. Null \notin Fair
    BY NoTasks
  <2> QED
    BY <1>1, <2>1, <2>2 DEF Apart, Gone
<1>5. tree' \in Seq(NodeType) /\ Nodes(tree)' = {} /\ DOMAIN tree' = {}
  BY <1>1 DEF Nodes
<1>6. TreeType(tree)'
  BY <1>5 DEF TreeType, Distinct, Ordered
<1>7. Entries'
  BY <1>1, <1>5 DEF Entries, Counted, Known
<1>8. Reading'
  <2>1. at = 0 /\ Len(listed) = 0
    BY <1>1 DEF IInv, Reading
  <2> QED
    BY <1>1, <2>1 DEF Reading
<1>9. AllTimed'
  BY <1>5 DEF AllTimed
<1> QED
  BY <1>3, <1>4, <1>6, <1>7, <1>8, <1>9 DEF IInv

\* Time passes for the tasks that run: both sides of their sums grow.
LEMMA StepTick ==
  ASSUME IInv, Tick
  PROVE  IInv'
<1>1. /\ tsc' = tsc + 1 /\ tsc < MaxTsc
      /\ UNCHANGED <<cur, pc, prev, next, ht, proc, table, tree, held, listed, at, missed>>
  BY DEF Tick, schedVars, dataVars, showVars
<1>2. tsc \in Nat /\ MaxTsc \in Nat
  BY NodeTypes DEF IInv, Types
<1>3. \A t \in Fair : ran'[t] = IF Counted(t) /\ Running(t) THEN ran[t] + 1 ELSE ran[t]
  BY DEF Tick, Running
<1>4. ran' \in [Fair -> Nat] /\ \A t \in Fair : ran'[t] <= tsc'
  <2>1. ran \in [Fair -> Nat] /\ \A t \in Fair : ran[t] <= tsc
    BY DEF IInv, Types
  <2>2. DOMAIN ran' = Fair /\ ran' = [t \in Fair |-> ran'[t]]
    BY DEF Tick
  <2>3. \A t \in Fair : ran'[t] \in Nat /\ ran'[t] <= tsc'
    BY <1>1, <1>2, <1>3, <2>1
  <2> QED
    BY <2>2, <2>3
<1>5. Types'
  BY <1>1, <1>2, <1>4 DEF IInv, Types
<1>6. Apart' /\ Gone' /\ TreeType(tree)'
  BY <1>1 DEF IInv, Apart, Gone, TreeType, Distinct, Ordered
<1>7. Entries'
  <2>1. \A t : Counted(t)' <=> Counted(t)
    BY <1>1 DEF Counted, Known
  <2>2. \A p \in DOMAIN table : table[p] \in [tsc : 0 .. tsc', node : {"null", "tree"}]
    BY <1>1, <1>2 DEF IInv, Entries
  <2> QED
    BY <1>1, <1>3, <2>1, <2>2 DEF IInv, Entries, Nodes
<1>8. Reading'
  BY <1>1, ReadingKept
<1>9. AllTimed'
  <2> SUFFICES ASSUME NEW m \in Nodes(tree), m.pid \notin missed
      PROVE  m.ttsc + (IF Running(m.pid) THEN tsc' - table[m.pid].tsc ELSE 0) = ran'[m.pid]
    BY <1>1 DEF AllTimed, Timed, Nodes, Running
  <2>1. /\ Counted(m.pid) /\ m.pid \in Fair /\ table[m.pid].tsc \in Int
        /\ m.ttsc \in Int /\ ran[m.pid] \in Int
    <3>1. m.ttsc \in Nat
      BY NodeOf, NodeTypes DEF IInv
    <3> QED
      BY <1>2, <3>1, OwnerCounted DEF IInv, Entries, Types
  <2>2. m.ttsc + (IF Running(m.pid) THEN tsc - table[m.pid].tsc ELSE 0) = ran[m.pid]
    BY DEF IInv, AllTimed, Timed
  <2>3. CASE Running(m.pid)
    BY <1>1, <1>2, <1>3, <2>1, <2>2, <2>3
  <2>4. CASE ~Running(m.pid)
    BY <1>3, <2>1, <2>2, <2>4
  <2> QED
    BY <2>3, <2>4
<1> QED
  BY <1>5, <1>6, <1>7, <1>8, <1>9 DEF IInv

\* The task of a CPU that returns was picked by no other.
LEMMA Resumed ==
  ASSUME IInv, NEW c \in Cpus, Resume(c)
  PROVE  /\ Apart'
         /\ cur' = [cur EXCEPT ![c] = Chosen(next[c])]
         /\ Chosen(next[c]) \in Fair \cup {Other}
         /\ pc' = [pc EXCEPT ![c] = "run"]
         /\ prev' \in [Cpus -> Users \cup {Null}] /\ next' \in [Cpus -> Fair \cup {Null, Retry}]
         /\ cur' \in [Cpus -> Fair \cup {Other}]
<1> USE DEF Resume
<1>1. /\ cur \in [Cpus -> Fair \cup {Other}] /\ next \in [Cpus -> Fair \cup {Null, Retry}]
      /\ prev \in [Cpus -> Users \cup {Null}]
      /\ pc \in [Cpus -> {"run", "pick", "picked", "oops", "show"}]
  BY DEF IInv, Types
<1>2. /\ Chosen(next[c]) \in Fair \cup {Other}
      /\ Chosen(next[c]) \in Fair => Chosen(next[c]) = next[c]
  BY <1>1, NoTasks DEF Chosen
<1>3. /\ prev' \in [Cpus -> Users \cup {Null}] /\ next' \in [Cpus -> Fair \cup {Null, Retry}]
      /\ cur' \in [Cpus -> Fair \cup {Other}]
  BY <1>1, <1>2
<1>4. /\ cur'[c] = Chosen(next[c]) /\ next'[c] = Null /\ pc'[c] = "run"
      /\ \A d \in Cpus : d # c =>
           cur'[d] = cur[d] /\ next'[d] = next[d] /\ prev'[d] = prev[d] /\ pc'[d] = pc[d]
  BY <1>1
<1>5. Apart'
  <2> SUFFICES ASSUME NEW a \in Cpus
      PROVE  /\ \A d \in Cpus \ {a} :
                  /\ cur'[a] = cur'[d] => cur'[a] = Other
                  /\ next'[a] \in Fair => next'[a] # cur'[d] /\ next'[a] # next'[d]
             /\ pc'[a] \in {"pick", "picked"} => prev'[a] \in {cur'[a], Null}
    BY DEF Apart
  <2>1. pc'[a] \in {"pick", "picked"} => prev'[a] \in {cur'[a], Null}
    BY <1>4 DEF IInv, Apart
  <2>2. ASSUME NEW d \in Cpus \ {a}
        PROVE  /\ cur'[a] = cur'[d] => cur'[a] = Other
               /\ next'[a] \in Fair => next'[a] # cur'[d] /\ next'[a] # next'[d]
    <3>1. /\ cur[a] = cur[d] => cur[a] = Other
          /\ next[a] \in Fair => next[a] # cur[d] /\ next[a] # next[d]
          /\ next[d] \in Fair => next[d] # cur[a] /\ next[d] # next[a]
      BY DEF IInv, Apart
    <3>2. CASE a = c
      BY <1>1, <1>2, <1>4, <3>1, <3>2, NoTasks
    <3>3. CASE d = c
      BY <1>1, <1>2, <1>4, <3>1, <3>3, NoTasks
    <3>4. CASE a # c /\ d # c
      BY <1>4, <3>1, <3>4
    <3> QED
      BY <3>2, <3>3, <3>4
  <2> QED
    BY <2>1, <2>2
<1> QED
  BY <1>2, <1>3, <1>5

\* A call is made by the task that runs, and recorded as its.
LEMMA StepEnter ==
  ASSUME IInv, NEW c \in Cpus, Enter(c)
  PROVE  IInv'
<1>1. /\ ht # "none" /\ pc[c] = "run" /\ pc' = [pc EXCEPT ![c] = "pick"]
      /\ UNCHANGED <<cur, next, tsc, proc, ht, table, tree, held, listed, at, ran, missed>>
  BY DEF Enter, Call, dataVars, showVars, history
<1>2. PICK t \in {cur[c], Null} : prev' = [prev EXCEPT ![c] = t] /\ t \in Users \cup {Null}
  BY DEF Enter, Call
<1>3. /\ pc \in [Cpus -> {"run", "pick", "picked", "oops", "show"}]
      /\ prev \in [Cpus -> Users \cup {Null}]
  BY DEF IInv, Types
<1>4. Types'
  BY <1>1, <1>2 DEF IInv, Types
<1>5. Apart'
  <2>1. \A a \in Cpus : pc'[a] \in {"pick", "picked"} => prev'[a] \in {cur[a], Null}
    BY <1>1, <1>2, <1>3 DEF IInv, Apart
  <2> QED
    BY <1>1, <2>1 DEF IInv, Apart
<1>6. Gone'
  BY <1>1 DEF Gone
<1>7. \A a \in Cpus : pc'[a] = "show" <=> pc[a] = "show"
  BY <1>1, <1>3
<1> QED
  BY <1>1, <1>4, <1>5, <1>6, <1>7, DataKept, TimedKept, ReadingKept DEF IInv

\* Only what runs changes, and the history of what was missed.
LEMMA StepPass ==
  ASSUME IInv, NEW c \in Cpus, Pass(c)
  PROVE  IInv'
<1>1. /\ UNCHANGED <<pc, prev, next, tsc, proc, ht, table, tree, held, listed, at>>
      /\ Unrecorded(c)
  BY DEF Pass, Unprobed, dataVars, showVars
<1>2. PICK t \in Results(c) : cur' = [cur EXCEPT ![c] = Chosen(t)]
  BY DEF Pass, Unprobed
<1>3. /\ Chosen(t) \in Fair \cup {Other}
      /\ Chosen(t) \in Fair =>
           \A d \in Cpus \ {c} : cur[d] # Chosen(t) /\ next[d] # Chosen(t)
  BY NoTasks DEF Results, Chosen
<1>4. AllTimed' /\ missed' \subseteq Users /\ ran' = ran
  BY <1>1, <1>2, UnrecordedTimed
<1>5. /\ cur \in [Cpus -> Fair \cup {Other}] /\ cur' \in [Cpus -> Fair \cup {Other}]
  BY <1>2, <1>3 DEF IInv, Types
<1>6. Types'
  BY <1>1, <1>4, <1>5 DEF IInv, Types
<1>7. Apart'
  <2> SUFFICES ASSUME NEW a \in Cpus
      PROVE  /\ \A d \in Cpus \ {a} :
                  /\ cur'[a] = cur'[d] => cur'[a] = Other
                  /\ next[a] \in Fair => next[a] # cur'[d] /\ next[a] # next[d]
             /\ pc[a] \in {"pick", "picked"} => prev[a] \in {cur'[a], Null}
    BY <1>1 DEF Apart
  <2>1. pc[a] \in {"pick", "picked"} => prev[a] \in {cur'[a], Null}
    <3>1. pc[c] = "run"
      BY DEF Pass, Unprobed
    <3> QED
      BY <1>2, <1>5, <3>1 DEF IInv, Apart
  <2>2. ASSUME NEW d \in Cpus \ {a}
        PROVE  /\ cur'[a] = cur'[d] => cur'[a] = Other
               /\ next[a] \in Fair => next[a] # cur'[d] /\ next[a] # next[d]
    <3>1. /\ cur[a] = cur[d] => cur[a] = Other
          /\ next[a] \in Fair => next[a] # cur[d] /\ next[a] # next[d]
      BY DEF IInv, Apart
    <3>2. CASE a = c
      BY <1>2, <1>3, <1>5, <3>1, <3>2
    <3>3. CASE d = c
      BY <1>2, <1>3, <1>5, <3>1, <3>3, NoTasks
    <3>4. CASE a # c /\ d # c
      BY <1>2, <1>5, <3>1, <3>4
    <3> QED
      BY <3>2, <3>3, <3>4
  <2> QED
    BY <2>1, <2>2
<1>8. Gone'
  BY <1>1 DEF IInv, Gone
<1> QED
  BY <1>1, <1>4, <1>6, <1>7, <1>8, DataKept, ReadingKept DEF IInv

\* A task is picked that no other CPU runs or has picked.
LEMMA StepPicked ==
  ASSUME IInv, NEW c \in Cpus, Picked(c)
  PROVE  IInv'
<1>1. /\ pc[c] = "pick" /\ pc' = [pc EXCEPT ![c] = "picked"]
      /\ UNCHANGED <<cur, prev, tsc, proc, ht, table, tree, held, listed, at, ran, missed>>
  BY DEF Picked, Pick, dataVars, showVars, history
<1>2. PICK t \in Results(c) : next' = [next EXCEPT ![c] = t]
  BY DEF Picked, Pick
<1>3. /\ t \in Fair \cup {Null, Retry}
      /\ t \in Fair => \A d \in Cpus \ {c} : cur[d] # t /\ next[d] # t
  BY NoTasks DEF Results
<1>4. /\ pc \in [Cpus -> {"run", "pick", "picked", "oops", "show"}]
      /\ next \in [Cpus -> Fair \cup {Null, Retry}]
  BY DEF IInv, Types
<1>5. Types'
  BY <1>1, <1>2, <1>3 DEF IInv, Types
<1>6. Apart'
  <2> SUFFICES ASSUME NEW a \in Cpus
      PROVE  /\ \A d \in Cpus \ {a} :
                  /\ cur[a] = cur[d] => cur[a] = Other
                  /\ next'[a] \in Fair => next'[a] # cur[d] /\ next'[a] # next'[d]
             /\ pc'[a] \in {"pick", "picked"} => prev[a] \in {cur[a], Null}
    BY <1>1 DEF Apart
  <2>1. pc'[a] \in {"pick", "picked"} => prev[a] \in {cur[a], Null}
    BY <1>1, <1>4 DEF IInv, Apart
  <2>2. ASSUME NEW d \in Cpus \ {a}
        PROVE  /\ cur[a] = cur[d] => cur[a] = Other
               /\ next'[a] \in Fair => next'[a] # cur[d] /\ next'[a] # next'[d]
    <3>1. /\ cur[a] = cur[d] => cur[a] = Other
          /\ next[a] \in Fair => next[a] # cur[d] /\ next[a] # next[d]
      BY DEF IInv, Apart
    <3>2. CASE a = c
      BY <1>2, <1>3, <1>4, <3>1, <3>2
    <3>3. CASE d = c
      BY <1>2, <1>3, <1>4, <3>1, <3>3
    <3>4. CASE a # c /\ d # c
      BY <1>2, <1>4, <3>1, <3>4
    <3> QED
      BY <3>2, <3>3, <3>4
  <2> QED
    BY <2>1, <2>2
<1>7. Gone'
  BY <1>1 DEF IInv, Gone
<1>8. \A a \in Cpus : pc'[a] = "show" <=> pc[a] = "show"
  BY <1>1, <1>4
<1> QED
  BY <1>1, <1>5, <1>6, <1>7, <1>8, DataKept, TimedKept, ReadingKept DEF IInv

\* The return handler has nothing to record.
LEMMA StepNotSwitched ==
  ASSUME IInv, NEW c \in Cpus, NotSwitched(c)
  PROVE  IInv'
<1>1. /\ UNCHANGED <<tsc, proc, ht, table, tree, held, listed, at>> /\ pc[c] = "picked"
      /\ Unrecorded(c) /\ Resume(c)
  BY DEF NotSwitched, dataVars, showVars
<1>2. /\ Apart'
      /\ cur' = [cur EXCEPT ![c] = Chosen(next[c])]
      /\ pc' = [pc EXCEPT ![c] = "run"]
      /\ prev' \in [Cpus -> Users \cup {Null}] /\ next' \in [Cpus -> Fair \cup {Null, Retry}]
      /\ cur' \in [Cpus -> Fair \cup {Other}]
  BY <1>1, Resumed
<1>3. AllTimed' /\ missed' \subseteq Users /\ ran' = ran
  BY <1>1, <1>2, UnrecordedTimed
<1>4. pc \in [Cpus -> {"run", "pick", "picked", "oops", "show"}]
  BY DEF IInv, Types
<1>5. Types'
  BY <1>1, <1>2, <1>3 DEF IInv, Types
<1>6. Gone'
  BY <1>1 DEF IInv, Gone
<1>7. \A a \in Cpus : pc'[a] = "show" <=> pc[a] = "show"
  BY <1>1, <1>2, <1>4
<1> QED
  BY <1>1, <1>2, <1>3, <1>5, <1>6, <1>7, DataKept, ReadingKept DEF IInv

\* The CPU that dies keeps what it runs.
LEMMA StepOops ==
  ASSUME IInv, NEW c \in Cpus, Oops(c)
  PROVE  IInv'
<1>1. /\ pc[c] = "picked" /\ held = Null /\ held' = c /\ pc' = [pc EXCEPT ![c] = "oops"]
      /\ UNCHANGED <<cur, prev, next, tsc, proc, ht, table, tree, listed, at, ran, missed>>
  BY DEF Oops, Timing, dataVars, showVars, history
<1>2. pc \in [Cpus -> {"run", "pick", "picked", "oops", "show"}]
  BY DEF IInv, Types
<1>3. Types'
  BY <1>1 DEF IInv, Types
<1>4. Apart'
  BY <1>1, <1>2 DEF IInv, Apart
<1>5. Gone'
  BY <1>1 DEF IInv, Gone
<1>6. \A a \in Cpus : pc[a] # "show" /\ pc'[a] # "show"
  BY <1>1, <1>2, NoTasks DEF IInv, Reading
<1>7. Reading'
  BY <1>1, <1>6 DEF IInv, Reading
<1> QED
  BY <1>1, <1>3, <1>4, <1>5, <1>7, DataKept, TimedKept DEF IInv

\* A reader begins at the end of the tree.
LEMMA StepShowBegin ==
  ASSUME IInv, NEW c \in Cpus, ShowBegin(c)
  PROVE  IInv'
<1>1. /\ pc[c] = "run" /\ proc = "live" /\ held = Null /\ held' = c /\ at' = Len(tree)
      /\ pc' = [pc EXCEPT ![c] = "show"]
      /\ UNCHANGED <<cur, prev, next, tsc, proc, ht, table, tree, listed, ran, missed>>
  BY DEF ShowBegin, dataVars, history
<1>2. pc \in [Cpus -> {"run", "pick", "picked", "oops", "show"}]
  BY DEF IInv, Types
<1>3. at' \in Nat
  BY <1>1, LenProperties DEF IInv, TreeType
<1>4. Types'
  BY <1>1, <1>3 DEF IInv, Types
<1>5. Apart'
  BY <1>1, <1>2 DEF IInv, Apart
<1>6. Gone'
  BY <1>1 DEF IInv, Types, Gone
<1>7. \A a \in Cpus : pc[a] # "show"
  BY <1>1, NoTasks DEF IInv, Reading
<1>8. Len(listed) = 0 /\ pc'[c] = "show" /\ \A a \in Cpus : pc'[a] = "show" => a = c
  BY <1>1, <1>2, <1>7 DEF IInv, Reading
<1>9. Reading'
  BY <1>1, <1>3, <1>8 DEF Reading
<1> QED
  BY <1>1, <1>4, <1>5, <1>6, <1>9, DataKept, TimedKept DEF IInv

\* It prints node after node of the tree it began with.
LEMMA StepShowNode ==
  ASSUME IInv, NEW c \in Cpus, ShowNode(c)
  PROVE  IInv'
<1>1. /\ pc[c] = "show" /\ at # 0 /\ listed' = Append(listed, tree[at]) /\ at' = at - 1
      /\ UNCHANGED <<cur, pc, prev, next, tsc, proc, ht, table, tree, held, ran, missed>>
  BY DEF ShowNode, schedVars, dataVars, history
<1>2. /\ at \in Nat /\ Len(listed) \in Nat /\ Len(tree) \in Nat /\ at \in 1 .. Len(tree)
      /\ at + Len(listed) = Len(tree) /\ listed \in Seq(NodeType) /\ tree \in Seq(NodeType)
      /\ \A i \in 1 .. Len(listed) : listed[i] = tree[Len(tree) + 1 - i]
  BY <1>1, LenProperties DEF IInv, Types, TreeType, Reading
<1>3. tree[at] \in NodeType
  BY <1>2, ElementOfSeq
<1>4. /\ listed' \in Seq(NodeType) /\ Len(listed') = Len(listed) + 1
      /\ listed'[Len(listed) + 1] = tree[at]
      /\ \A i \in 1 .. Len(listed) : listed'[i] = listed[i]
  BY <1>1, <1>2, <1>3, AppendProperties
<1>5. \A i \in 1 .. Len(listed) + 1 : listed'[i] = tree[Len(tree) + 1 - i]
  <2> SUFFICES ASSUME NEW i \in 1 .. Len(listed) + 1
      PROVE  listed'[i] = tree[Len(tree) + 1 - i]
    OBVIOUS
  <2>1. CASE i = Len(listed) + 1
    <3>1. Len(tree) + 1 - i = at
      BY <1>2, <2>1
    <3> QED
      BY <1>4, <2>1, <3>1
  <2>2. CASE i # Len(listed) + 1
    <3>1. i \in 1 .. Len(listed)
      BY <1>2, <2>2
    <3> QED
      BY <1>2, <1>4, <3>1
  <2> QED
    BY <2>1, <2>2
<1>6. Types'
  BY <1>1, <1>2, <1>4 DEF IInv, Types
<1>7. Apart' /\ Gone'
  BY <1>1 DEF IInv, Apart, Gone
<1>8. Reading'
  <2>1. at' + Len(listed') = Len(tree)
    <3>1. at \in Nat /\ Len(listed) \in Nat /\ at + Len(listed) = Len(tree)
      BY <1>2
    <3>2. at' = at - 1 /\ Len(listed') = Len(listed) + 1
      BY <1>1, <1>4
    <3> QED
      BY <3>1, <3>2
  <2> QED
    BY <1>1, <1>4, <1>5, <2>1 DEF IInv, Reading
<1> QED
  BY <1>1, <1>6, <1>7, <1>8, DataKept, TimedKept DEF IInv

\* It ends, and gives the lock back.
LEMMA StepShowEnd ==
  ASSUME IInv, NEW c \in Cpus, ShowEnd(c)
  PROVE  IInv'
<1>1. /\ pc[c] = "show" /\ held' = Null /\ listed' = <<>> /\ at' = 0
      /\ pc' = [pc EXCEPT ![c] = "run"]
      /\ UNCHANGED <<cur, prev, next, tsc, proc, ht, table, tree, ran, missed>>
  BY DEF ShowEnd, dataVars, history
<1>2. pc \in [Cpus -> {"run", "pick", "picked", "oops", "show"}]
  BY DEF IInv, Types
<1>3. listed' \in Seq(NodeType) /\ Len(listed') = 0
  BY <1>1
<1>4. Types'
  BY <1>1, <1>3 DEF IInv, Types
<1>5. Apart'
  BY <1>1, <1>2 DEF IInv, Apart
<1>6. Gone'
  BY <1>1, <1>2 DEF IInv, Gone
<1>7. \A a \in Cpus : pc'[a] # "show"
  BY <1>1, <1>2 DEF IInv, Reading
<1>8. Reading'
  BY <1>1, <1>3, <1>7 DEF Reading
<1> QED
  BY <1>1, <1>4, <1>5, <1>6, <1>8, DataKept, TimedKept DEF IInv

\* The new total of the task that stops is within the bound, and the time it
\* has run if no switch of it was missed.
LEMMA NewTotal ==
  ASSUME IInv, NEW p \in Users, Running(p), Total(p) <= MaxTotal
  PROVE  /\ Total(p) \in 0 .. MaxTotal
         /\ p \notin missed => Total(p) = ran[p]
         /\ Entry(p).tsc \in 0 .. tsc
<1>1. p \in Fair /\ tsc \in Nat /\ MaxTotal \in Nat
  BY NoTasks, NodeTypes DEF IInv, Types
<1>2. CASE Counted(p)
  <2>1. PICK m \in Nodes(tree) : m.pid = p
    BY <1>1, <1>2 DEF IInv, Entries
  <2>2. OldTotal(p) = m.ttsc /\ m.ttsc \in Nat
    BY <2>1, NodeOf, NodeTypes DEF OldTotal, IInv
  <2>3. Entry(p) = table[p] /\ table[p].node = "tree" /\ table[p].tsc \in 0 .. tsc
    BY <1>2 DEF Counted, Known, Entry, IInv, Entries
  <2>4. Total(p) = m.ttsc + tsc - table[p].tsc
    BY <2>2, <2>3 DEF Total
  <2>5. p \notin missed => m.ttsc + (tsc - table[p].tsc) = ran[p]
    BY <2>1 DEF IInv, AllTimed, Timed
  <2>6. m.ttsc + tsc - table[p].tsc = m.ttsc + (tsc - table[p].tsc)
    BY <1>1, <2>2, <2>3
  <2>7. Total(p) \in 0 .. MaxTotal
    BY <1>1, <2>2, <2>3, <2>4
  <2> QED
    BY <2>3, <2>4, <2>5, <2>6, <2>7
<1>3. CASE ~Counted(p)
  <2>1. Entry(p).node = "null" /\ Entry(p).tsc \in 0 .. tsc
    BY <1>1, <1>3 DEF Counted, Known, Entry, IInv, Entries
  <2>2. Total(p) = 0 /\ ran[p] = 0
    BY <1>1, <1>3, <2>1 DEF Total, IInv, Entries
  <2> QED
    BY <1>1, <2>1, <2>2
<1> QED
  BY <1>2, <1>3

\* A switch is recorded: the node of the task that stops moves to its place,
\* and the task that starts is marked.
LEMMA StepRecord ==
  ASSUME IInv, NEW c \in Cpus, Record(c)
  PROVE  IInv'
<1> DEFINE p == prev[c]
           n == next[c]
           e == [pid |-> p, ttsc |-> Total(p)]
<1>1. /\ pc[c] = "picked" /\ Switched(c) /\ held = Null /\ n # Retry /\ ht = "zero"
      /\ Total(p) <= MaxTotal
      /\ tree' = Insert(Erase(tree, p), e)
      /\ table' = [q \in DOMAIN table \cup {p, n} |->
                     IF q = n THEN Started(n)
                     ELSE IF q = p THEN [tsc |-> Entry(p).tsc, node |-> "tree"] ELSE table[q]]
      /\ Resume(c)
      /\ UNCHANGED <<tsc, proc, ht, held, listed, at, ran, missed>>
  BY DEF Record, Timing, showVars, history
<1>2. /\ p \in Users /\ p = cur[c] /\ n \in Fair /\ n # p /\ p \in Fair /\ p # Other
      /\ n # Null
  BY <1>1, NoTasks DEF IInv, Types, Apart, Switched
<1>3. \A d \in Cpus : cur[d] # n /\ (d # c => cur[d] # p)
  BY <1>2 DEF IInv, Apart
<1>4. Running(p) /\ ~Running(n)
  BY <1>2, <1>3 DEF Running
<1>5. /\ Total(p) \in 0 .. MaxTotal
      /\ p \notin missed => Total(p) = ran[p]
      /\ Entry(p).tsc \in 0 .. tsc
  BY <1>1, <1>2, <1>4, NewTotal
<1>6. /\ Apart'
      /\ cur' = [cur EXCEPT ![c] = Chosen(n)]
      /\ pc' = [pc EXCEPT ![c] = "run"]
      /\ prev' \in [Cpus -> Users \cup {Null}] /\ next' \in [Cpus -> Fair \cup {Null, Retry}]
      /\ cur' \in [Cpus -> Fair \cup {Other}]
  BY <1>1, Resumed
<1>7. cur' = [cur EXCEPT ![c] = n]
  BY <1>1, <1>2, <1>6 DEF Chosen
<1>8. /\ DOMAIN table' = DOMAIN table \cup {p, n}
      /\ table'[n] = [tsc |-> tsc, node |-> Entry(n).node]
      /\ table'[p] = [tsc |-> Entry(p).tsc, node |-> "tree"]
      /\ \A q \in DOMAIN table \ {p, n} : table'[q] = table[q]
  BY <1>1, <1>2 DEF Started
<1> HIDE DEF p, n
<1>9. /\ TreeType(tree') /\ e \in NodeType
      /\ Nodes(tree') = {m \in Nodes(tree) : m.pid # p} \cup {e}
  <2>1. e \in NodeType /\ e.pid = p
    BY <1>2, <1>5 DEF NodeType
  <2> HIDE DEF e
  <2>2. /\ TreeType(Erase(tree, p))
        /\ Nodes(Erase(tree, p)) = {m \in Nodes(tree) : m.pid # p}
    BY Erased DEF IInv
  <2> QED
    BY <1>1, <2>1, <2>2, InsertedNode
<1>10. \A q \in Fair : Counted(q)' <=> Counted(q) \/ q = p
  <2> SUFFICES ASSUME NEW q \in Fair PROVE Counted(q)' <=> Counted(q) \/ q = p
    OBVIOUS
  <2>1. CASE q = n
    BY <1>2, <1>8, <2>1 DEF Counted, Known, Entry
  <2>2. CASE q = p
    BY <1>2, <1>8, <2>2 DEF Counted, Known
  <2>3. CASE q \notin {p, n}
    BY <1>8, <2>3 DEF Counted, Known
  <2> QED
    BY <2>1, <2>2, <2>3
<1>11. Types'
  BY <1>1, <1>6 DEF IInv, Types
<1>12. Gone'
  BY <1>1 DEF Gone
<1>13. Entries'
  <2>1. DOMAIN table' \subseteq Fair
    BY <1>2, <1>8 DEF IInv, Entries
  <2>2. \A q \in DOMAIN table' : table'[q] \in [tsc : 0 .. tsc, node : {"null", "tree"}]
    <3>1. tsc \in 0 .. tsc
      BY DEF IInv, Types
    <3>2. Entry(n).node \in {"null", "tree"}
      BY DEF Entry, Known, IInv, Entries
    <3>3. table'[n] \in [tsc : 0 .. tsc, node : {"null", "tree"}]
      BY <1>8, <3>1, <3>2
    <3>4. table'[p] \in [tsc : 0 .. tsc, node : {"null", "tree"}]
      BY <1>5, <1>8
    <3> QED
      BY <1>8, <3>3, <3>4 DEF IInv, Entries
  <2>3. \A q \in Fair : Counted(q)' <=> \E m \in Nodes(tree') : m.pid = q
    <3> SUFFICES ASSUME NEW q \in Fair PROVE Counted(q)' <=> \E m \in Nodes(tree') : m.pid = q
      OBVIOUS
    <3>1. CASE q = p
      BY <1>2, <1>9, <1>10, <3>1
    <3>2. CASE q # p
      BY <1>9, <1>10, <3>2 DEF IInv, Entries
    <3> QED
      BY <3>1, <3>2
  <2>4. \A q \in Fair : ~Counted(q)' => ran[q] = 0
    BY <1>10 DEF IInv, Entries
  <2> QED
    BY <1>1, <2>1, <2>2, <2>3, <2>4 DEF Entries, Nodes
<1>14. Reading'
  <2>1. \A a \in Cpus : pc[a] # "show" /\ pc'[a] # "show"
    BY <1>1, <1>6, NoTasks DEF IInv, Types, Reading
  <2> QED
    BY <1>1, <2>1 DEF IInv, Reading
<1>15. AllTimed'
  <2>1. \A q : Running(q)' <=> IF q = p THEN FALSE ELSE q = n \/ Running(q)
    BY <1>2, <1>3, <1>7 DEF Running, IInv, Types
  <2> SUFFICES ASSUME NEW m \in Nodes(tree'), m.pid \notin missed
      PROVE  m.ttsc + (IF Running(m.pid)' THEN tsc - table'[m.pid].tsc ELSE 0) = ran[m.pid]
    BY <1>1 DEF AllTimed, Timed, Nodes
  <2>2. CASE m = e
    <3>1. m.pid = p /\ m.ttsc = ran[p]
      BY <1>5, <2>2
    <3>2. m.ttsc \in Int
      BY <1>5, <2>2
    <3> QED
      BY <2>1, <3>1, <3>2
  <2>3. CASE m \in Nodes(tree) /\ m.pid # p
    <3>1. /\ m.ttsc + (IF Running(m.pid) THEN tsc - table[m.pid].tsc ELSE 0) = ran[m.pid]
          /\ m.ttsc \in Int /\ tsc \in Int
      BY <2>3, NodeOf, NodeTypes DEF IInv, AllTimed, Timed, Types
    <3>2. CASE m.pid = n
      BY <1>4, <1>8, <2>1, <2>3, <3>1, <3>2
    <3>3. CASE m.pid # n
      <4>1. table'[m.pid] = table[m.pid]
        BY <1>8, <2>3, <3>3, OwnerCounted
      <4> QED
        BY <2>1, <2>3, <3>1, <3>3, <4>1
    <3> QED
      BY <3>2, <3>3
  <2> QED
    BY <1>9, <2>2, <2>3
<1> QED
  BY <1>6, <1>9, <1>11, <1>12, <1>13, <1>14, <1>15 DEF IInv, TreeType, Distinct, Ordered

-----------------------------------------------------------------------------
(* The theorems                                                            *)

\* Before the module is loaded nothing is recorded.
LEMMA InitIInv == Init => IInv
<1> SUFFICES ASSUME Init PROVE IInv
  OBVIOUS
<1> USE DEF Init, SchedulerInit
<1>1. Types
  <2>1. cur \in [Cpus -> Fair \cup {Other}]
    BY DEF Assignments
  <2>2. tsc \in 0 .. MaxTsc /\ ran \in [Fair -> Nat] /\ \A t \in Fair : ran[t] <= tsc
    BY NodeTypes
  <2>3. listed \in Seq(NodeType) /\ at \in Nat
    OBVIOUS
  <2> QED
    BY <2>1, <2>2, <2>3 DEF Types
<1>2. Apart
  BY NoTasks DEF Apart, Assignments
<1>3. Gone
  BY DEF Gone, Empty
<1>4. tree \in Seq(NodeType) /\ Nodes(tree) = {} /\ DOMAIN tree = {}
  BY DEF Nodes
<1>5. TreeType(tree)
  BY <1>4 DEF TreeType, Distinct, Ordered
<1>6. Entries
  BY <1>4 DEF Entries, Counted, Known, Empty
<1>7. Reading /\ AllTimed
  BY <1>4 DEF Reading, AllTimed
<1> QED
  BY <1>1, <1>2, <1>3, <1>5, <1>6, <1>7 DEF IInv

\* Every step keeps the invariant.
LEMMA StepIInv == IInv /\ [Next]_vars => IInv'
<1> SUFFICES ASSUME IInv, [Next]_vars PROVE IInv'
  OBVIOUS
<1>1. CASE Tick \/ Load \/ Unload
  BY <1>1, StepTick, StepLoad, StepUnload
<1>2. ASSUME NEW c \in Cpus,
             \/ Enter(c) \/ Pass(c) \/ Picked(c)
             \/ Record(c) \/ Oops(c) \/ NotSwitched(c)
             \/ ShowBegin(c) \/ ShowNode(c) \/ ShowEnd(c)
      PROVE  IInv'
  BY <1>2, StepEnter, StepPass, StepPicked, StepRecord, StepOops, StepNotSwitched,
     StepShowBegin, StepShowNode, StepShowEnd
<1>3. CASE UNCHANGED vars
  <2>1. UNCHANGED <<cur, pc, prev, next, tsc, proc, ht, table, tree, held, listed, at, ran, missed>>
    BY <1>3 DEF vars, schedVars, dataVars, showVars, history
  <2>2. Types' /\ Apart' /\ Gone'
    BY <2>1 DEF IInv, Types, Apart, Gone
  <2> QED
    BY <2>1, <2>2, DataKept, TimedKept, ReadingKept DEF IInv
<1> QED
  BY <1>1, <1>2, <1>3 DEF Next

\* The invariant holds throughout.
LEMMA Invariant == Spec => []IInv
<1> QED
  BY InitIInv, StepIInv, PTL DEF Spec

\* Every variable keeps its type: all that is recorded is of user tasks, and
\* the reader's position is one of the tree's.
THEOREM TypeCorrect == Spec => []TypeOK
<1>1. ASSUME IInv PROVE TypeOK
  <2>1. /\ tree \in Seq(NodeType) /\ Len(tree) \in Nat /\ DOMAIN tree = 1 .. Len(tree)
        /\ \A i \in DOMAIN tree : tree[i] \in NodeType
    BY <1>1, LenProperties, ElementOfSeq DEF IInv, TreeType
  <2>2. at \in 0 .. Len(tree)
    <3>1. at \in Nat /\ Len(listed) \in Nat
      BY <1>1, LenProperties DEF IInv, Types
    <3>2. CASE \A c \in Cpus : pc[c] # "show"
      BY <1>1, <2>1, <3>2 DEF IInv, Reading
    <3>3. CASE \E c \in Cpus : pc[c] = "show"
      <4>1. at + Len(listed) = Len(tree)
        BY <1>1, <3>3 DEF IInv, Reading
      <4> QED
        BY <2>1, <3>1, <4>1
    <3> QED
      BY <3>2, <3>3
  <2>3. ran \in [Fair -> 0 .. MaxTsc]
    <3>1. ran \in [Fair -> Nat] /\ tsc \in 0 .. MaxTsc /\ \A t \in Fair : ran[t] <= tsc
      BY <1>1 DEF IInv, Types
    <3>2. \A t \in Fair : ran[t] \in 0 .. MaxTsc
      BY <3>1, NodeTypes
    <3> QED
      BY <3>1, <3>2
  <2>4. \A i \in DOMAIN tree : tree[i] \in [pid : Users, ttsc : 0 .. MaxTotal]
    BY <2>1 DEF NodeType
  <2> QED
    BY <1>1, <2>2, <2>3, <2>4 DEF IInv, Types, Entries, TypeOK
<1> QED
  BY <1>1, Invariant, PTL

\* Table and tree describe the same tasks, a task has one node, and the tree
\* is in order.
THEOREM StructuresAgree == Spec => []NodesMatch
<1>1. ASSUME IInv PROVE NodesMatch
  <2>1. Pids = {p \in DOMAIN table : table[p].node = "tree"}
    <3>1. ASSUME NEW p \in Pids PROVE p \in DOMAIN table /\ table[p].node = "tree"
      <4>1. PICK i \in DOMAIN tree : p = tree[i].pid
        BY DEF Pids
      <4>2. tree[i] \in Nodes(tree)
        BY DEF Nodes
      <4> QED
        BY <1>1, <4>1, <4>2, OwnerCounted DEF Counted, Known
    <3>2. ASSUME NEW p \in DOMAIN table, table[p].node = "tree" PROVE p \in Pids
      <4>1. Counted(p) /\ p \in Fair
        BY <1>1, <3>2 DEF Counted, Known, IInv, Entries
      <4>2. PICK m \in Nodes(tree) : m.pid = p
        BY <1>1, <4>1 DEF IInv, Entries
      <4> QED
        BY <4>2 DEF Nodes, Pids
    <3> QED
      BY <3>1, <3>2
  <2>2. Cardinality(Pids) = Len(tree)
    BY <1>1, OnePid DEF IInv, Pids
  <2> QED
    BY <1>1, <2>1, <2>2 DEF IInv, TreeType, Ordered, NodesMatch
<1> QED
  BY <1>1, Invariant, PTL

\* A reader has printed the greatest totals of one moment.
THEOREM OneMoment == Spec => []Snapshot
<1>1. ASSUME IInv PROVE Snapshot
  <2>1. DOMAIN listed = 1 .. Len(listed)
    BY <1>1, LenProperties DEF IInv, Types
  <2> QED
    BY <1>1, <2>1 DEF IInv, Reading, Snapshot
<1> QED
  BY <1>1, Invariant, PTL

\* A total, with the slice its task is in, is the time it has run since it has
\* a node, unless a switch of it was missed.
THEOREM TotalsRight == Spec => []TotalIsTime
<1>1. ASSUME IInv PROVE TotalIsTime
  <2> SUFFICES ASSUME NEW i \in DOMAIN tree, tree[i].pid \notin missed
      PROVE  tree[i].ttsc + (IF Running(tree[i].pid) THEN tsc - table[tree[i].pid].tsc ELSE 0)
               = ran[tree[i].pid]
    BY DEF TotalIsTime
  <2>1. tree[i] \in Nodes(tree)
    BY DEF Nodes
  <2> QED
    BY <1>1, <2>1 DEF IInv, AllTimed, Timed
<1> QED
  BY <1>1, Invariant, PTL
=============================================================================
