-------------------------------- MODULE S2fs --------------------------------
(***************************************************************************)
(* HW5/s2fs.c: a file system with one directory, foo, and one file, bar.   *)
(* Mounting builds the tree from inodes and dentries, each of which may    *)
(* fail to be allocated; readers of bar get the message.  An inode or      *)
(* dentry is what holds a reference to it: counts of references are kept,  *)
(* as the source's puts are about them.                                    *)
(***************************************************************************)
EXTENDS Integers, Sequences, FiniteSets

CONSTANTS
  Readers,    \* open files of bar
  Msg,        \* "Hello World!" with its terminator, a sequence of bytes
  MaxCount,   \* bound: bytes asked for by one read
  MaxGot,     \* bound: bytes received through one open file
  Failures    \* bound: allocations that fail

ASSUME S2fsAssumption == Msg \in Seq(Int) /\ {MaxCount, MaxGot, Failures} \subseteq Nat

Dentries == {"root", "foo", "bar"}
InodeOf == [root |-> "root_inode", foo |-> "foo_inode", bar |-> "bar_inode"]
Objects == Dentries \cup {InodeOf[d] : d \in Dentries}

VARIABLES
  registered,  \* the module is loaded and its file system type known
  phase,       \* where mount is: "none", a step of fill_super, "mounted", ...
  refs,        \* refs[o]: references held to an inode or dentry
  left,        \* failures still to come
  offset,      \* offset[r]: file position, -1 if r is not open
  got,         \* got[r]: the bytes r has received
  ended        \* ended[r]: a read has returned 0

treeVars == <<registered, phase, refs, left>>
readVars == <<offset, got, ended>>
vars == <<treeVars, readVars>>

Closed == -1

Init ==
  /\ registered = FALSE
  /\ phase = "none"
  /\ refs = [o \in Objects |-> 0]
  /\ left = Failures
  /\ offset = [r \in Readers |-> Closed]
  /\ got = [r \in Readers |-> <<>>]
  /\ ended = [r \in Readers |-> FALSE]

-----------------------------------------------------------------------------
(* Mounting. *)

Insmod ==
  /\ ~registered
  /\ registered' = TRUE
  /\ UNCHANGED <<phase, refs, left, readVars>>

\* The type's owner keeps the module while the file system is mounted.
Rmmod ==
  /\ registered
  /\ phase = "none"
  /\ registered' = FALSE
  /\ UNCHANGED <<phase, refs, left, readVars>>

Mount ==
  /\ registered
  /\ phase = "none"
  /\ phase' = "root_inode"
  /\ UNCHANGED <<registered, refs, left, readVars>>

Goto(p) == phase' = p /\ UNCHANGED <<registered, readVars>>

\* An allocation of the present step succeeds, or fails.
Allocates(o) == phase = o /\ refs' = [refs EXCEPT ![o] = 1] /\ UNCHANGED left
Fails(o) == phase = o /\ left > 0 /\ left' = left - 1

\* new_inode for the root; -ENOMEM, and there is nothing to undo.
RootInode ==
  \/ Allocates("root_inode") /\ Goto("root")
  \/ Fails("root_inode") /\ UNCHANGED refs /\ Goto("none")

\* d_make_root takes over the inode's reference.  When it fails it has put
\* the inode, and fill_super puts it again.
MakeRoot ==
  \/ Allocates("root") /\ Goto("foo")
  \/ /\ Fails("root")
     /\ refs' = [refs EXCEPT !["root_inode"] = -1]
     /\ Goto("oops")

\* s2fs_create_dir: a dentry, then an inode.
FooDentry ==
  \/ Allocates("foo") /\ Goto("foo_inode")
  \/ Fails("foo") /\ UNCHANGED refs /\ Goto("no_foo")

FooInode ==
  \/ Allocates("foo_inode") /\ Goto("bar")
  \/ Fails("foo_inode") /\ refs' = [refs EXCEPT !["foo"] = 0] /\ Goto("no_foo")

\* The missing directory is not noticed: d_alloc_name follows a null parent.
NoFoo ==
  /\ phase = "no_foo"
  /\ Goto("oops")
  /\ UNCHANGED <<refs, left>>

\* s2fs_create_file; its failure is not noticed either.
BarDentry ==
  \/ Allocates("bar") /\ Goto("bar_inode")
  \/ Fails("bar") /\ UNCHANGED refs /\ Goto("mounted")

\* Faulty variant of BarInode: the dentry is not put.
BarInodeKept ==
  \/ Allocates("bar_inode") /\ Goto("mounted")
  \/ Fails("bar_inode") /\ UNCHANGED refs /\ Goto("mounted")

BarInode ==
  \/ Allocates("bar_inode") /\ Goto("mounted")
  \/ Fails("bar_inode") /\ refs' = [refs EXCEPT !["bar"] = 0] /\ Goto("mounted")

\* kill_litter_super drops the reference of every dentry that has an inode,
\* and with it the inode's.
Unmount ==
  /\ phase = "mounted"
  /\ \A r \in Readers : offset[r] = Closed
  /\ LET live == {d \in Dentries : refs[InodeOf[d]] = 1}
     IN refs' = [o \in Objects |-> IF o \in live \cup {InodeOf[d] : d \in live}
                                   THEN refs[o] - 1 ELSE refs[o]]
  /\ Goto("none")
  /\ UNCHANGED left

-----------------------------------------------------------------------------
(* Reading bar. *)

Open(r) ==
  /\ phase = "mounted" /\ refs["bar_inode"] = 1
  /\ offset[r] = Closed
  /\ offset' = [offset EXCEPT ![r] = 0]
  /\ UNCHANGED <<treeVars, got, ended>>

Close(r) ==
  /\ offset[r] # Closed
  /\ offset' = [offset EXCEPT ![r] = Closed]
  /\ got' = [got EXCEPT ![r] = <<>>]
  /\ ended' = [ended EXCEPT ![r] = FALSE]
  /\ UNCHANGED treeVars

\* Faulty variant of Given: the position is forgotten.
GivenAlways(r, count) == IF count > Len(Msg) THEN Len(Msg) ELSE count

\* Faulty variant of Given: the terminator is not counted.
GivenShort(r, count) ==
  IF count > Len(Msg) - 1 - offset[r] THEN Len(Msg) - 1 - offset[r] ELSE count

\* How many bytes a read of count bytes gives: none beyond the message.
Given(r, count) ==
  IF offset[r] > Len(Msg) THEN 0
  ELSE IF count > Len(Msg) - offset[r] THEN Len(Msg) - offset[r] ELSE count

\* s2fs_read_file.  Unless the user's buffer faults, it copies from the
\* start of the message wherever the position is, and advances the position.
Read(r, count) ==
  /\ offset[r] # Closed
  /\ ~ended[r] /\ Len(got[r]) <= MaxGot
  /\ LET n == Given(r, count)
     IN /\ got' = [got EXCEPT ![r] = @ \o SubSeq(Msg, 1, n)]
        /\ offset' = [offset EXCEPT ![r] = @ + n]
        /\ ended' = [ended EXCEPT ![r] = n = 0]
  /\ UNCHANGED treeVars

FillSuper == RootInode \/ MakeRoot \/ FooDentry \/ FooInode \/ NoFoo \/ BarDentry \/ BarInode

ReadSome(r) == \E count \in 1 .. MaxCount : Read(r, count)

Next ==
  \/ Insmod \/ Rmmod \/ Mount \/ FillSuper \/ Unmount
  \/ \E r \in Readers : Open(r) \/ Close(r) \/ ReadSome(r)

Spec == Init /\ [][Next]_vars

\* Programs that have opened the file go on reading it.
ReadersFairness == \A r \in Readers : WF_vars(ReadSome(r))

-----------------------------------------------------------------------------
TypeOK ==
  /\ registered \in BOOLEAN
  /\ phase \in {"none", "no_foo", "mounted", "oops"} \cup Objects
  /\ refs \in [Objects -> -1 .. 1]
  /\ left \in 0 .. Failures
  /\ offset \in [Readers -> Closed .. Len(Msg)]
  /\ \A r \in Readers : Len(got[r]) <= Len(Msg)
  /\ ended \in [Readers -> BOOLEAN]

\* Whatever allocation failed, a mount that was refused and an unmount leave
\* no inode and no dentry behind, and nothing is put twice but the root's
\* inode when its dentry could not be made, which the kernel does not survive.
Released ==
  /\ phase = "none" => \A o \in Objects : refs[o] = 0
  /\ \A o \in Objects : refs[o] < 0 =>
       o = "root_inode" /\ refs["root"] = 0 /\ phase = "oops"

\* A program that reads to the end receives as many bytes as the message has,
\* terminator included, however the reads are cut.
MessageSize == \A r \in Readers : ended[r] => Len(got[r]) = Len(Msg)

\* A program that goes on reading comes to the end of the file.
ReadsEnd == \A r \in Readers : offset[r] # Closed ~> (ended[r] \/ offset[r] = Closed)
=============================================================================
