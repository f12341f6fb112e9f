-------------------------------- MODULE Kds --------------------------------
(***************************************************************************)
(* HW2/kds.c: the module parameter is split into numbers, which are put    *)
(* into six kernel data structures in turn, printed and freed.  Loops that *)
(* neither allocate nor return early are one step.  A list, a tree, a      *)
(* bucket and an index are sequences of entries [id, data]; id stands for  *)
(* the address kmalloc returned.                                           *)
(***************************************************************************)
EXTENDS Integers, FiniteSets, SequencesExt

CONSTANTS
  Texts,       \* module parameters: sequences of the characters below
  Space,       \* ' '
  Plus, Minus, \* signs, which kstrtol takes in front of a number
  Newline,     \* which it takes behind one
  Junk,        \* any other character
  LongMax,     \* greatest long, 2^63 - 1
  IntMax,      \* greatest int, 2^31 - 1
  Buckets,     \* number of buckets; a number hashes to its remainder
  MaxNums,     \* MAX_SIZE
  MaxBits,     \* MAX_BITS, 1001
  BitmapBits,  \* bits of the longs that hold MAX_BITS bits, 1024
  Shortages     \* bound: allocations that fail, or return used memory where
               \* the code needs zeroes

Chars == (0 .. 9) \cup {Space, Plus, Minus, Newline, Junk}

ASSUME KdsAssumption ==
  /\ Buckets \in Nat \ {0}
  /\ {LongMax, IntMax, MaxNums, MaxBits, BitmapBits, Shortages} \subseteq Nat
  /\ MaxBits <= BitmapBits
  /\ Cardinality({Space, Plus, Minus, Newline, Junk}) = 5
  /\ {Space, Plus, Minus, Newline, Junk} \cap (0 .. 9) = {}
  /\ Texts \subseteq Seq(Chars)

VARIABLES
  text,     \* int_str as it was passed
  temp,     \* temp: the character looked at
  slow,     \* int_str: where the current number begins
  nums,     \* the numbers stored
  stage,    \* the function that runs
  ptr,      \* ptr - nums + 1 in its loop: the next number to insert
  store,    \* its data structure
  table,    \* that of the hash table: table[b], the entries of bucket b
  heap,     \* what is allocated and not freed
  spare,    \* failures still to come
  printed   \* what the functions that ended have printed

kdsVars == <<text, temp, slow, nums, stage, ptr, store, table, heap, spare, printed>>
parseVars == <<text, temp, slow, nums>>

\* The functions mymodule_init calls, each with what follows it.
After == [list |-> "rb", rb |-> "hash", hash |-> "radix", radix |-> "xarray",
          xarray |-> "bitmap", bitmap |-> "done"]
Plays == DOMAIN After

NoTable == [b \in 0 .. Buckets - 1 |-> <<>>]

KdsInit ==
  /\ text \in Texts
  /\ temp = 1
  /\ slow = 1
  /\ nums = <<>>
  /\ stage = "start"
  /\ ptr = 1
  /\ store = <<>>
  /\ table = NoTable
  /\ heap = {}
  /\ spare = Shortages
  /\ printed = <<>>

-----------------------------------------------------------------------------
(* The parser. *)

\* nums is allocated, and never checked to be.
Begin ==
  /\ stage = "start"
  /\ stage' = "parse"
  /\ \/ heap' = {<<"nums", 0>>} /\ UNCHANGED spare
     \/ spare > 0 /\ spare' = spare - 1 /\ UNCHANGED heap
  /\ UNCHANGED <<parseVars, ptr, store, table, printed>>

AtNul == temp = Len(text) + 1
AtEnd == (IF AtNul THEN Space ELSE text[temp]) = Space   \* a null ends a number too
Token == SubSeq(text, slow, temp - 1)

\* A word without its sign and the newline behind it.
Digits(w) ==
  SubSeq(w, IF w[1] \in {Plus, Minus} THEN 2 ELSE 1,
            IF w[Len(w)] = Newline THEN Len(w) - 1 ELSE Len(w))
Decimal(digits) ==
  LET upTo[n \in 0 .. Len(digits)] ==
        IF n = 0 THEN 0 ELSE 10 * upTo[n - 1] + digits[n]
  IN  upTo[Len(digits)]
Long(w) == IF w[1] = Minus THEN -Decimal(Digits(w)) ELSE Decimal(Digits(w))

\* kstrtol fails for what is no number (EINVAL) or no long (ERANGE).
Accepted(w) ==
  /\ Digits(w) # <<>> /\ \A n \in DOMAIN Digits(w) : Digits(w)[n] \in 0 .. 9
  /\ Long(w) \in -LongMax - 1 .. LongMax

\* Its long is stored in an int.
Ints == -IntMax - 1 .. IntMax
CutToInt(k) == ((k + IntMax + 1) % (2 * (IntMax + 1))) - IntMax - 1
Number(w) == CutToInt(Long(w))

\* Faulty variant of Advance: int_str moves with temp after any character.
AdvanceAlways ==
  /\ temp' = IF AtNul THEN temp ELSE temp + 1
  /\ slow' = temp'
  /\ stage' = IF AtNul THEN "list" ELSE stage

\* Both pointers move past a space, temp past any other character; the end of
\* the string ends the loop.
Advance ==
  /\ temp' = IF AtNul THEN temp ELSE temp + 1
  /\ slow' = IF ~AtNul /\ AtEnd THEN temp + 1 ELSE slow
  /\ stage' = IF AtNul THEN "list" ELSE stage

\* A character inside a number, or one that ends an empty one.
Skip ==
  /\ stage = "parse"
  /\ ~AtEnd \/ Token = <<>>
  /\ Advance
  /\ UNCHANGED <<text, nums, ptr, store, table, heap, spare, printed>>

ParseNumber ==
  /\ stage = "parse"
  /\ AtEnd /\ Token # <<>> /\ Accepted(Token)
  /\ Len(nums) < MaxNums /\ <<"nums", 0>> \in heap
  /\ nums' = Append(nums, Number(Token))
  /\ Advance
  /\ UNCHANGED <<text, ptr, store, table, heap, spare, printed>>

\* nums was not allocated: the first number is stored through a null pointer.
StoreFails ==
  /\ stage = "parse"
  /\ AtEnd /\ Token # <<>> /\ Accepted(Token)
  /\ Len(nums) < MaxNums /\ <<"nums", 0>> \notin heap
  /\ stage' = "oops"
  /\ UNCHANGED <<parseVars, ptr, store, table, heap, spare, printed>>

\* kstrtol fails: the module is refused, nums is not freed.
ParseFails ==
  /\ stage = "parse"
  /\ AtEnd /\ Token # <<>> /\ ~Accepted(Token)
  /\ stage' = "refused"
  /\ UNCHANGED <<parseVars, ptr, store, table, heap, spare, printed>>

TooMany ==
  /\ stage = "parse"
  /\ AtEnd /\ Token # <<>> /\ Accepted(Token)
  /\ Len(nums) >= MaxNums
  /\ stage' = "full"
  /\ heap' = heap \ {<<"nums", 0>>}
  /\ UNCHANGED <<parseVars, ptr, store, table, spare, printed>>

-----------------------------------------------------------------------------
(* What the six functions have in common. *)

EntryOf(ph, m) == [id |-> <<ph, m>>, data |-> nums[m]]
Entry == EntryOf(stage, ptr)
Ids(s) == {s[n].id : n \in DOMAIN s}
Data(s) == [n \in DOMAIN s |-> s[n].data]
HasKey(s, k) == \E n \in DOMAIN s : s[n].data = k
Ascending(S) == SetToSortSeq(S, <)
Lookup(k) == store[CHOOSE n \in DOMAIN store : store[n].data = k]
Marked == {k \in ToSet(Data(store)) : k > 0 /\ k % 2 = 1}   \* -1 % 2 is -1 in C
Found == \A n \in DOMAIN nums : HasKey(store, nums[n])

\* One turn of an insertion loop: an entry is allocated.
Turn(ph) ==
  /\ stage = ph
  /\ ptr <= Len(nums)
  /\ heap' = heap \cup {<<ph, ptr>>}
  /\ ptr' = ptr + 1
  /\ UNCHANGED <<parseVars, stage, printed>>

\* The entry is inserted.
Insert(ph, s) == Turn(ph) /\ store' = s /\ UNCHANGED <<table, spare>>

\* kmalloc fails: the function returns -EINVAL and leaves what it has
\* allocated; its caller goes on to the next function.
NoMemory ==
  /\ stage \in Plays \ {"bitmap"}
  /\ \/ ptr <= Len(nums)
     \/ stage = "radix" /\ Found /\ nums # <<>>   \* kmalloc of results
  /\ stage = "hash" => <<"ht", 0>> \in heap
  /\ spare > 0
  /\ spare' = spare - 1
  /\ stage' = After[stage]
  /\ ptr' = 1
  /\ store' = <<>>
  /\ table' = NoTable
  /\ UNCHANGED <<parseVars, heap, printed>>

\* Faulty variant of Finish: what is freed stays linked.
FinishLinked(ph, lines, freed) ==
  /\ stage = ph
  /\ ptr > Len(nums)
  /\ printed' = Append(printed, [by |-> ph, lines |-> lines])
  /\ heap' = heap \ freed
  /\ stage' = After[ph]
  /\ ptr' = 1
  /\ UNCHANGED <<parseVars, store, table, spare>>

\* The rest of a function: it prints lines, frees entries and returns.
Finish(ph, lines, freed) ==
  /\ stage = ph
  /\ ptr > Len(nums)
  /\ printed' = Append(printed, [by |-> ph, lines |-> lines])
  /\ heap' = heap \ freed
  /\ stage' = After[ph]
  /\ ptr' = 1
  /\ store' = <<>>
  /\ table' = NoTable
  /\ UNCHANGED <<parseVars, spare>>

-----------------------------------------------------------------------------
(* The six functions. *)

\* list_add puts an entry in front; printing goes from the back.
AddList == Insert("list", <<Entry>> \o store)
PlayList == Finish("list", Reverse(Data(store)), Ids(store))

\* Faulty variant of RbPlace: equal and smaller numbers go to the right.
RbPlaceRight == 1 + Cardinality({n \in DOMAIN store : store[n].data >= nums[ptr]})

\* my_rb_insert: right of the numbers that are not greater.
RbPlace == 1 + Cardinality({n \in DOMAIN store : store[n].data <= nums[ptr]})

AddRb == Insert("rb", InsertAt(store, RbPlace, Entry))
PlayRb == Finish("rb", Data(store), Ids(store))

Hash(k) == k % Buckets

\* The table itself is allocated first, and neither checked nor initialised.
BeginHash ==
  /\ stage = "hash" /\ ptr = 1 /\ <<"ht", 0>> \notin heap
  /\ \/ heap' = heap \cup {<<"ht", 0>>} /\ UNCHANGED <<stage, spare>>
     \/ spare > 0 /\ stage' = "oops" /\ spare' = spare - 1 /\ UNCHANGED heap
  /\ UNCHANGED <<parseVars, ptr, store, table, printed>>

\* hash_add puts an entry in front of its bucket.
AddHash ==
  /\ <<"ht", 0>> \in heap
  /\ Turn("hash")
  /\ table' = [table EXCEPT ![Hash(nums[ptr])] = <<Entry>> \o @]
  /\ UNCHANGED <<store, spare>>

\* Faulty variant of HashFreed: entries are unlinked and not freed.
HashFreedNone == {<<"ht", 0>>}

\* hash_for_each with hash_del in its body: hash_del clears the link the loop
\* follows next, so that only the first entry of a bucket is freed.
HashFreed ==
  {table[b][1].id : b \in {k \in DOMAIN table : table[k] # <<>>}} \cup {<<"ht", 0>>}

\* The entries of all buckets are printed, then those of the bucket of each number.
HashLines == [all      |-> [b \in DOMAIN table |-> Data(table[b])],
              possible |-> [n \in DOMAIN nums |-> Data(table[Hash(nums[n])])]]
PlayHash ==
  /\ <<"ht", 0>> \in heap
  /\ Finish("hash", HashLines, HashFreed)

\* radix_tree_insert refuses a key it has; its result is ignored.
AddRadix ==
  Insert("radix", IF HasKey(store, nums[ptr]) THEN store ELSE Append(store, Entry))

\* There is no node for a new key: radix_tree_insert or xa_store fails, and
\* nobody looks.
NoNode ==
  /\ stage \in {"radix", "xarray"}
  /\ Turn(stage)
  /\ ~HasKey(store, nums[ptr])
  /\ store # <<>> \/ nums[ptr] # 0   \* a lone entry at 0 needs none
  /\ spare > 0
  /\ spare' = spare - 1
  /\ UNCHANGED <<store, table>>

\* What is looked up then is a null pointer, which is followed.
LookupFails ==
  /\ stage \in {"radix", "xarray"}
  /\ ptr > Len(nums) /\ ~Found
  /\ stage' = "oops"
  /\ ptr' = 1
  /\ store' = <<>>
  /\ UNCHANGED <<parseVars, table, heap, spare, printed>>

\* Every number is looked up and printed, and tagged if it is odd and positive;
\* those tagged are printed in order; then each is looked up again, deleted and
\* freed.
IndexLines == [n \in DOMAIN nums |-> Lookup(nums[n]).data] \o Ascending(Marked)
PlayRadix == Found /\ Finish("radix", IndexLines, Ids(store))

\* xa_store replaces an entry; the old one it returns is ignored.
AddXarray ==
  Insert("xarray",
    IF HasKey(store, nums[ptr])
    THEN [n \in DOMAIN store |-> IF store[n].data = nums[ptr] THEN Entry ELSE store[n]]
    ELSE Append(store, Entry))
PlayXarray == Found /\ Finish("xarray", IndexLines, Ids(store))

\* The bits are set; those of the first MaxBits are printed, in order.  A number
\* outside the bitmap is a bit elsewhere on the stack, which goes unnoticed or ...
Bits == ToSet(nums) \cap (0 .. BitmapBits - 1)
PlayBitmap ==
  /\ stage = "bitmap"
  /\ printed' = Append(printed,
       [by |-> "bitmap", lines |-> Ascending(Bits \cap (0 .. MaxBits - 1))])
  /\ heap' = heap \ {<<"nums", 0>>}
  /\ stage' = "done"
  /\ UNCHANGED <<parseVars, ptr, store, table, spare>>

\* ... stops the kernel.
Overrun ==
  /\ stage = "bitmap"
  /\ ~(ToSet(nums) \subseteq 0 .. BitmapBits - 1)
  /\ stage' = "oops"
  /\ UNCHANGED <<parseVars, ptr, store, table, heap, spare, printed>>

KdsNext ==
  \/ Begin \/ Skip \/ ParseNumber \/ StoreFails \/ ParseFails \/ TooMany
  \/ AddList \/ PlayList \/ AddRb \/ PlayRb
  \/ BeginHash \/ AddHash \/ PlayHash
  \/ AddRadix \/ PlayRadix \/ AddXarray \/ PlayXarray \/ NoNode \/ LookupFails
  \/ PlayBitmap \/ Overrun \/ NoMemory

KdsSpec == KdsInit /\ [][KdsNext]_kdsVars

-----------------------------------------------------------------------------
Ended == {"refused", "full", "oops", "done"}
Allocated == {<<"nums", 0>>, <<"ht", 0>>} \cup ((Plays \ {"bitmap"}) \X (1 .. MaxNums))

\* Also: nothing that has been freed is still linked.
KdsTypeOK ==
  /\ text \in Texts
  /\ {slow, temp} \subseteq 1 .. Len(text) + 1 /\ slow <= temp
  /\ nums \in Seq(Ints) /\ Len(nums) <= MaxNums
  /\ stage \in {"start", "parse"} \cup Plays \cup Ended
  /\ ptr \in 1 .. Len(nums) + 1
  /\ heap \subseteq Allocated
  /\ Ids(store) \cup UNION {Ids(table[b]) : b \in DOMAIN table} \subseteq heap
  /\ spare \in 0 .. Shortages

\* The places of the words of text: longest runs without a space.
Words ==
  {w \in (1 .. Len(text)) \X (1 .. Len(text)) :
     /\ w[1] <= w[2] /\ \A n \in w[1] .. w[2] : text[n] # Space
     /\ w[1] = 1 \/ text[w[1] - 1] = Space
     /\ w[2] = Len(text) \/ text[w[2] + 1] = Space}
Word(w) == SubSeq(text, w[1], w[2])
Place(w) == Cardinality({v \in Words : v[1] <= w[1]})

\* The two-pointer loop finds the words of the parameter, however many spaces
\* begin it, end it or separate them: the numbers are those of its words, in
\* order, each the int a long is cut to; and it is refused only for a word that
\* is no number or no long, or for one too many.
Parsed ==
  /\ stage \in Plays \cup {"done"} =>
       /\ Len(nums) = Cardinality(Words)
       /\ \A w \in Words : Accepted(Word(w)) /\ nums[Place(w)] = Number(Word(w))
  /\ stage = "refused" => \E w \in Words : ~Accepted(Word(w))
  /\ stage = "full" => Cardinality(Words) > MaxNums

Occurs(k, s) == Cardinality({n \in DOMAIN s : s[n] = k})
Odd == Ascending({k \in ToSet(nums) : k > 0 /\ k % 2 = 1})

\* What each function has printed.
PrintedBy(ph, lines) ==
  CASE ph = "list" -> lines = nums
    [] ph = "rb" ->
         /\ \A n \in DOMAIN lines : \A m \in 1 .. n : lines[m] <= lines[n]
         /\ \A k \in ToSet(lines) \cup ToSet(nums) : Occurs(k, lines) = Occurs(k, nums)
    [] ph = "hash" ->
         /\ \A b \in DOMAIN lines.all : \A k \in ToSet(lines.all[b]) \cup ToSet(nums) :
              Occurs(k, lines.all[b]) = IF Hash(k) = b THEN Occurs(k, nums) ELSE 0
         /\ \A n \in DOMAIN nums : lines.possible[n] = lines.all[Hash(nums[n])]
    [] ph \in {"radix", "xarray"} -> lines = nums \o Odd
    [] OTHER -> lines = Ascending({k \in ToSet(nums) : 0 <= k /\ k < MaxBits})

\* Whatever repeats and in whatever order the numbers come: the list prints
\* them in order of insertion, the tree sorted, the hash table each in its own
\* bucket, as often as it was inserted, and then finds that bucket by its key,
\* the two indexes all of them and then the odd positive ones without repetition,
\* the bitmap those from 0 to MAX_BITS - 1.  Only a failed allocation or a number
\* outside the words of the bitmap stops the kernel: every lookup finds its
\* number otherwise.
Printed ==
  /\ \A n \in DOMAIN printed : PrintedBy(printed[n].by, printed[n].lines)
  /\ stage = "oops" => spare < Shortages \/ ~(ToSet(nums) \subseteq 0 .. BitmapBits - 1)

\* Does ph keep another number where it keeps the m-th?
Shared(ph, m) ==
  \E n \in DOMAIN nums \ {m} :
    \/ ph = "hash" /\ Hash(nums[n]) = Hash(nums[m])
    \/ ph \in {"radix", "xarray"} /\ nums[n] = nums[m]

\* A function that got to its end has freed what it allocated, but for numbers
\* that share a bucket or a key with another, also after other functions or
\* insertions have failed; the array of numbers is freed unless a word was
\* refused, and is then all that is left.
OthersFreed ==
  /\ stage = "refused" => heap \subseteq {<<"nums", 0>>}
  /\ stage = "full" => heap = {}
  /\ stage = "done" => <<"nums", 0>> \notin heap
  /\ \A n \in DOMAIN printed : LET ph == printed[n].by IN
       /\ ph = "hash" => <<"ht", 0>> \notin heap
       /\ \A m \in DOMAIN nums : <<ph, m>> \in heap => Shared(ph, m)

\* kds.c:201 says of the loop that ends play_hash_table "Then we free and delete
\* each entry", 267 and 323 say the same of the indexes.  They do not: what
\* shares a bucket or a key is still allocated when the function has returned.
EntriesFreed ==
  \A n \in DOMAIN printed : \A m \in DOMAIN nums : <<printed[n].by, m>> \notin heap
=============================================================================
