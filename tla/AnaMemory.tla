----------------------------- MODULE AnaMemory -----------------------------
(***************************************************************************)
(* The memory of one open book: src/ana_memory.c.                          *)
(*                                                                         *)
(* One arena (init_ana_memory) is cut into blocks.  A block is described   *)
(* by a hash item (struct ana_hash_item).  The items of the live blocks    *)
(* form a list in address order (lprevious, lnext, from first_block); a    *)
(* free block is also on one of the ANASIZEHASH lists of size_list, a used *)
(* one on used_list, where ana_free looks it up by address.                *)
(*                                                                         *)
(* ana_malloc is one step; ana_free is one step per iteration of the two   *)
(* loops of ana_reclaim, and pc says where it is.  A book is served by one *)
(* thread, so nothing comes between those steps.  ana_realloc is its       *)
(* ana_malloc followed by its ana_free.                                    *)
(*                                                                         *)
(* Addresses are 1..ArenaSize, so that 0 is the null pointer.  The chains  *)
(* of used_list are abstracted to the flag used: no two used blocks have   *)
(* the same address, because no request is of 0 bytes.                     *)
(***************************************************************************)
EXTENDS Integers, Sequences, FiniteSets, SequencesExt

CONSTANTS
  ArenaSize,    \* the size of the arena, init_ana_memory's last parameter
  ANASIZEHASH,  \* how many lists size_list has
  Items,        \* the hash items apr_palloc can supply
  Requests      \* the sizes that callers ask for

ASSUME ArenaAssumption == ArenaSize \in Nat \ {0}
ASSUME HashAssumption == ANASIZEHASH \in Nat \ {0}
\* init_ana_memory puts the arena on the last list without testing its size.
ASSUME LargeArenaAssumption == ArenaSize >= ANASIZEHASH
ASSUME RequestsAssumption == Requests \subseteq Nat \ {0}

VARIABLES
  live,        \* the items on the list of blocks
  ptr, size, used, lprevious, lnext,  \* the fields of each item
  first_block,
  size_list,   \* for each index, the items chained by hnext
  mem_free, mem_used, number_of_blocks, number_of_blocks_used,
  memory_error,
  memory_start,  \* 0 once free_ana_memory has run
  lost,        \* stretches that no block describes any more (history)
  pc,          \* which step of the current call comes next
  cur,         \* this_hash_ptr of ana_reclaim
  target,      \* what ana_realloc still has to free
  reply        \* the last request and the address it was given

fields == <<ptr, size, used, lprevious, lnext>>
counters == <<mem_free, mem_used, number_of_blocks, number_of_blocks_used>>
vars == <<live, fields, first_block, size_list, counters, memory_error,
          memory_start, lost, pc, cur, target, reply>>

NULL == 0
ASSUME ItemsAssumption == Items # {} /\ NULL \notin Items

NoReply == [asked |-> 0, ptr |-> NULL]
Item0 == CHOOSE i \in Items : TRUE

(***************************************************************************)
(* The size lists                                                          *)
(***************************************************************************)
Top == ANASIZEHASH - 1

\* The list for blocks of n bytes: the last one takes all the large blocks.
Bucket(n) == IF n >= ANASIZEHASH THEN Top ELSE n

Push(lists, i, n) == [lists EXCEPT ![Bucket(n)] = Cons(i, @)]
\* Variant: only a block at the head of its list is taken off.
UnlinkHeadOnly(lists, i, n) ==
  [lists EXCEPT ![Bucket(n)] = IF @ # <<>> /\ Head(@) = i THEN Tail(@) ELSE @]
Unlink(lists, i, n) == [lists EXCEPT ![Bucket(n)] = RemoveFirst(@, i)]

\* The first search: the first block of n's own list that is large enough.
FirstFit(n) == SelectInSeq(size_list[Bucket(n)], LAMBDA i : size[i] >= n)

\* The second search, which starts at n's own list again and does not look
\* at sizes: it takes the head of the first list that has one.
\* Variant: it stops before the list of the large blocks.
NonEmptyNotTop(n) == {a \in Bucket(n) .. Top - 1 : size_list[a] # <<>>}
NonEmpty(n) == {a \in Bucket(n) .. Top : size_list[a] # <<>>}

Found(n) == FirstFit(n) # 0 \/ NonEmpty(n) # {}
Taken(n) == IF FirstFit(n) # 0
            THEN size_list[Bucket(n)][FirstFit(n)]
            ELSE Head(size_list[Min(NonEmpty(n))])

(***************************************************************************)
(* init_ana_memory                                                         *)
(***************************************************************************)
Init ==
  /\ live = {Item0}
  /\ ptr = [i \in Items |-> IF i = Item0 THEN 1 ELSE 0]
  /\ size = [i \in Items |-> IF i = Item0 THEN ArenaSize ELSE 0]
  /\ used = [i \in Items |-> FALSE]
  /\ lprevious = [i \in Items |-> NULL]
  /\ lnext = [i \in Items |-> NULL]
  /\ first_block = Item0
  /\ size_list = [a \in 0 .. Top |-> IF a = Top THEN <<Item0>> ELSE <<>>]
  /\ mem_free = ArenaSize
  /\ mem_used = 0
  /\ number_of_blocks = 1
  /\ number_of_blocks_used = 0
  /\ memory_error = FALSE
  /\ memory_start = 1
  /\ lost = {}
  /\ pc = "idle"
  /\ cur = NULL
  /\ target = NULL
  /\ reply = NoReply

(***************************************************************************)
(* ana_malloc of n bytes.  old is NULL, or the block that ana_realloc frees *)
(* once it has the new one.                                                *)
(***************************************************************************)
Answer(n, old, p) ==
  /\ reply' = [asked |-> n, ptr |-> p]
  /\ target' = IF p = NULL THEN NULL ELSE old
  /\ pc' = IF target' = NULL THEN "idle" ELSE "free_old"
  /\ UNCHANGED <<cur, memory_start>>

\* Variant: the number of used blocks is not kept.
CountGrantBytesOnly(n) ==
  /\ mem_free' = mem_free - n
  /\ mem_used' = mem_used + n
  /\ UNCHANGED number_of_blocks_used
CountGrant(n) ==
  /\ number_of_blocks_used' = number_of_blocks_used + 1
  /\ mem_free' = mem_free - n
  /\ mem_used' = mem_used + n

\* No list has a block.
MallocRefused(n, old) ==
  /\ ~Found(n)
  /\ memory_error' = TRUE
  /\ Answer(n, old, NULL)
  /\ UNCHANGED <<live, fields, first_block, size_list, counters, lost>>

\* The block found has the size asked for.
MallocWhole(n, old) ==
  /\ Found(n)
  /\ LET i == Taken(n) IN
       /\ size[i] = n
       /\ used' = [used EXCEPT ![i] = TRUE]
       /\ size_list' = Unlink(size_list, i, n)
       /\ Answer(n, old, ptr[i])
  /\ CountGrant(n)
  /\ UNCHANGED <<live, ptr, size, lprevious, lnext, first_block,
                 number_of_blocks, memory_error, lost>>

\* lprevious when item j comes between item i and the one after it.
\* Variant: the item after it is not told.
LinksBackOneSided(i, j) == [lprevious EXCEPT ![j] = i]
LinksBack(i, j) ==
  [k \in Items |-> IF k = j THEN i
                   ELSE IF k = lnext[i] THEN j
                   ELSE lprevious[k]]

\* Where the rest of item i begins.  Variant: at the same address.
RestPtrUnmoved(i, n) == ptr[i]
RestPtr(i, n) == ptr[i] + n

\* Item i, cut to n bytes, is followed in the list of blocks by item j.
CutAt(i, j, n) ==
  /\ live' = live \cup {j}
  /\ ptr' = [ptr EXCEPT ![j] = RestPtr(i, n)]
  /\ size' = [size EXCEPT ![i] = n, ![j] = size[i] - n]
  /\ used' = [used EXCEPT ![i] = TRUE, ![j] = FALSE]
  /\ lnext' = [lnext EXCEPT ![i] = j, ![j] = lnext[i]]
  /\ lprevious' = LinksBack(i, j)
  /\ number_of_blocks' = number_of_blocks + 1

\* Variant: the rest is cut off whatever its sign, as psize!=size has it.
HasRestOfAnySign(i, n) == size[i] # n
HasRest(i, n) == size[i] > n

\* The block found is larger: the rest becomes a block of its own.
MallocSplit(n, old) ==
  /\ Found(n)
  /\ \E j \in Items \ live :
       LET i == Taken(n) IN
         /\ HasRest(i, n)
         /\ CutAt(i, j, n)
         /\ size_list' = Push(Unlink(size_list, i, size[i]), j, size[i] - n)
         /\ Answer(n, old, ptr[i])
  /\ CountGrant(n)
  /\ UNCHANGED <<first_block, memory_error, lost>>

\* apr_palloc has no item for the rest: the block stays cut and used, its
\* address is not returned, and the rest belongs to no block.
MallocNoItem(n, old) ==
  /\ Found(n)
  /\ Items \ live = {}
  /\ LET i == Taken(n) IN
       /\ size[i] > n
       /\ size' = [size EXCEPT ![i] = n]
       /\ used' = [used EXCEPT ![i] = TRUE]
       /\ size_list' = Unlink(size_list, i, size[i])
       /\ lost' = lost \cup {[ptr |-> ptr[i] + n, size |-> size[i] - n]}
  /\ memory_error' = TRUE
  /\ Answer(n, old, NULL)
  /\ CountGrant(n)
  /\ UNCHANGED <<live, ptr, lprevious, lnext, first_block, number_of_blocks>>

\* The second search found a block smaller than the request: the rest has a
\* negative size, is stored at a negative index of size_list, and the arena
\* is no longer what the lists say.
MallocShort(n, old) ==
  /\ Found(n)
  /\ LET i == Taken(n) IN
       /\ size[i] < n
       /\ size_list' = Unlink(size_list, i, size[i])
       /\ \/ /\ \E j \in Items \ live : CutAt(i, j, n)
             /\ reply' = [asked |-> n, ptr |-> ptr[i]]
             /\ UNCHANGED memory_error
          \/ /\ Items \ live = {}
             /\ size' = [size EXCEPT ![i] = n]
             /\ used' = [used EXCEPT ![i] = TRUE]
             /\ memory_error' = TRUE
             /\ reply' = [asked |-> n, ptr |-> NULL]
             /\ UNCHANGED <<live, ptr, lnext, lprevious, number_of_blocks>>
  /\ CountGrant(n)
  /\ pc' = "undefined"
  /\ UNCHANGED <<first_block, memory_start, lost, cur, target>>

Malloc(n, old) ==
  \/ MallocRefused(n, old)
  \/ MallocWhole(n, old)
  \/ MallocSplit(n, old)
  \/ MallocNoItem(n, old)
  \/ MallocShort(n, old)

ana_malloc == pc = "idle" /\ \E n \in Requests : Malloc(n, NULL)

(***************************************************************************)
(* ana_free and ana_reclaim                                                *)
(***************************************************************************)
UsedBlocks == {i \in live : used[i]}
\* The addresses that ana_malloc returned: not that of a block cut without
\* an item for its rest.
UsedPtrs == {ptr[i] : i \in {k \in UsedBlocks :
                               \A s \in lost : s.ptr # ptr[k] + size[k]}}

\* ana_free of the used block at address p, up to its call of ana_reclaim.
FreeBlock(p) ==
  \E i \in UsedBlocks :
    /\ ptr[i] = p
    /\ used' = [used EXCEPT ![i] = FALSE]
    /\ size_list' = Push(size_list, i, size[i])
    /\ number_of_blocks_used' = number_of_blocks_used - 1
    /\ mem_free' = mem_free + size[i]
    /\ mem_used' = mem_used - size[i]
    /\ cur' = i
    /\ pc' = "reclaim_prev"
    /\ UNCHANGED <<live, ptr, size, lprevious, lnext, first_block,
                   number_of_blocks, memory_error, memory_start, lost>>

\* Only the addresses that were handed out come back.  An address that is no
\* longer used (or the arena is gone) changes nothing.
ana_free ==
  /\ pc = "idle"
  /\ \E p \in UsedPtrs : FreeBlock(p)
  /\ reply' = NoReply
  /\ UNCHANGED target

FreeOld ==
  /\ pc = "free_old"
  /\ FreeBlock(target)
  /\ target' = NULL
  /\ UNCHANGED reply

ana_realloc ==
  /\ pc = "idle"
  /\ \E n \in Requests, p \in UsedPtrs : Malloc(n, p)

Adjacent(i, k) == ptr[i] + size[i] = ptr[k]

\* Variant: the first block of the list is never merged.
MergesWithPreviousNotFirst ==
  /\ lprevious[cur] # NULL
  /\ lprevious[lprevious[cur]] # NULL
  /\ ~used[cur] /\ ~used[lprevious[cur]]
  /\ Adjacent(lprevious[cur], cur)
MergesWithPrevious ==
  /\ lprevious[cur] # NULL
  /\ ~used[cur] /\ ~used[lprevious[cur]]
  /\ Adjacent(lprevious[cur], cur)

MergesWithNext ==
  /\ cur # NULL
  /\ lnext[cur] # NULL
  /\ ~used[cur] /\ ~used[lnext[cur]]
  /\ Adjacent(cur, lnext[cur])

\* Item gone, whose block the block of item cur now covers, leaves its list
\* and the list of blocks.  The item is not reachable any more.
Absorb(gone) ==
  /\ live' = live \ {gone}
  /\ size_list' = Unlink(Push(Unlink(size_list, cur, size[cur]), cur,
                              size[cur] + size[gone]),
                         gone, size[gone])
  /\ size' = [size EXCEPT ![cur] = @ + size[gone], ![gone] = 0]
  /\ number_of_blocks' = number_of_blocks - 1
  /\ UNCHANGED <<used, mem_free, mem_used, number_of_blocks_used,
                 memory_error, memory_start, lost, target, reply>>

ReclaimPrevious ==
  /\ pc = "reclaim_prev"
  /\ MergesWithPrevious
  /\ LET p == lprevious[cur] IN
       /\ Absorb(p)
       /\ ptr' = [ptr EXCEPT ![cur] = ptr[p], ![p] = 0]
       /\ lprevious' = [lprevious EXCEPT ![cur] = lprevious[p], ![p] = NULL]
       /\ lnext' = [k \in Items |-> IF k = p THEN NULL
                                    ELSE IF k = lprevious[p] THEN cur
                                    ELSE lnext[k]]
       /\ first_block' = IF lprevious[p] = NULL THEN cur ELSE first_block
  /\ UNCHANGED <<pc, cur>>

ReclaimPreviousDone ==
  /\ pc = "reclaim_prev"
  /\ ~MergesWithPrevious
  /\ pc' = "reclaim_next"
  /\ UNCHANGED <<live, fields, first_block, size_list, counters,
                 memory_error, memory_start, lost, cur, target, reply>>

\* The loop goes on with the block after the one it absorbed.
ReclaimNext ==
  /\ pc = "reclaim_next"
  /\ MergesWithNext
  /\ LET x == lnext[cur] IN
       /\ Absorb(x)
       /\ ptr' = [ptr EXCEPT ![x] = 0]
       /\ lnext' = [lnext EXCEPT ![cur] = lnext[x], ![x] = NULL]
       /\ lprevious' = [k \in Items |-> IF k = x THEN NULL
                                        ELSE IF k = lnext[x] THEN cur
                                        ELSE lprevious[k]]
       /\ cur' = lnext[x]
  /\ UNCHANGED <<first_block, pc>>

\* Variant: the loop does not test for the end of the list.
ReclaimNextDoneUnlessLast ==
  /\ pc = "reclaim_next"
  /\ cur # NULL
  /\ ~MergesWithNext
  /\ pc' = "idle"
  /\ cur' = NULL
  /\ UNCHANGED <<live, fields, first_block, size_list, counters,
                 memory_error, memory_start, lost, target, reply>>
ReclaimNextDone ==
  /\ pc = "reclaim_next"
  /\ ~MergesWithNext
  /\ pc' = "idle"
  /\ cur' = NULL
  /\ UNCHANGED <<live, fields, first_block, size_list, counters,
                 memory_error, memory_start, lost, target, reply>>

ana_reclaim == \/ ReclaimPrevious \/ ReclaimPreviousDone
               \/ ReclaimNext \/ ReclaimNextDone

(***************************************************************************)
(* free_ana_memory: every list is emptied.  mem_used is left as it was.    *)
(***************************************************************************)
free_ana_memory ==
  /\ pc = "idle"
  /\ memory_start # NULL
  /\ live' = {}
  /\ ptr' = [i \in Items |-> 0]
  /\ size' = [i \in Items |-> 0]
  /\ used' = [i \in Items |-> FALSE]
  /\ lprevious' = [i \in Items |-> NULL]
  /\ lnext' = [i \in Items |-> NULL]
  /\ first_block' = NULL
  /\ size_list' = [a \in 0 .. Top |-> <<>>]
  /\ mem_free' = 0
  /\ number_of_blocks' = 0
  /\ number_of_blocks_used' = 0
  /\ memory_start' = NULL
  /\ lost' = {}
  /\ reply' = NoReply
  /\ UNCHANGED <<mem_used, memory_error, pc, cur, target>>

\* A second close finds no arena.
FreeAnaMemoryAgain ==
  /\ pc = "idle"
  /\ memory_start = NULL
  /\ memory_error' = TRUE
  /\ UNCHANGED <<live, fields, first_block, size_list, counters,
                 memory_start, lost, pc, cur, target, reply>>

Next ==
  \/ ana_malloc
  \/ ana_realloc
  \/ ana_free
  \/ FreeOld
  \/ ana_reclaim
  \/ free_ana_memory
  \/ FreeAnaMemoryAgain

\* A call that has begun is carried on to its return.
Fairness == WF_vars(ana_reclaim) /\ WF_vars(FreeOld)

Spec == Init /\ [][Next]_vars /\ Fairness

-----------------------------------------------------------------------------
(***************************************************************************)
(* Properties.  Until a short block is handed out (pc = "undefined").      *)
(***************************************************************************)
Sound == pc # "undefined"
FreeBlocks == live \ UsedBlocks

\* Every variable has the values its C type and its use give it.
TypeOK ==
  /\ live \subseteq Items
  /\ ptr \in [Items -> Int]
  /\ size \in [Items -> Int]
  /\ Sound => ptr \in [Items -> Nat] /\ size \in [Items -> Nat]
  /\ used \in [Items -> BOOLEAN]
  /\ lprevious \in [Items -> Items \cup {NULL}]
  /\ lnext \in [Items -> Items \cup {NULL}]
  /\ first_block \in Items \cup {NULL}
  /\ size_list \in [0 .. Top -> Seq(Items)]
  /\ mem_free \in Int /\ mem_used \in Int
  /\ number_of_blocks \in Int /\ number_of_blocks_used \in Int
  /\ memory_error \in BOOLEAN
  /\ memory_start \in {0, 1}
  /\ lost \subseteq [ptr : Int, size : Int]
  /\ pc \in {"idle", "free_old", "reclaim_prev", "reclaim_next", "undefined"}
  /\ cur \in Items \cup {NULL}
  /\ target \in Int
  /\ reply \in [asked : Requests \cup {0}, ptr : Int]

\* The stretch of addresses that an item describes.
Stretch(i) == [ptr |-> ptr[i], size |-> size[i]]
Covers(s, a) == s.ptr <= a /\ a < s.ptr + s.size
Disjoint(s, t) == s.ptr + s.size <= t.ptr \/ t.ptr + t.size <= s.ptr
InArena(s) == s.ptr >= 1 /\ s.size >= 1 /\ s.ptr + s.size <= ArenaSize + 1

BlocksInArena ==
  /\ \A i \in live : InArena(Stretch(i))
  /\ \A s \in lost : InArena(s)
BlocksDisjoint ==
  /\ \A i, k \in live : i # k => Disjoint(Stretch(i), Stretch(k))
  /\ \A i \in live, s \in lost : Disjoint(Stretch(i), s)
  /\ \A s, t \in lost : s # t => Disjoint(s, t)
AllCovered ==
  \A a \in 1 .. ArenaSize : \/ \E i \in live : Covers(Stretch(i), a)
                            \/ \E s \in lost : Covers(s, a)

\* Splits and merges keep the blocks (and the stretches lost to a failed
\* apr_palloc) a partition of the arena: no address is in two of them, which
\* would hand the same memory to two callers, and none leaks.
Partition ==
  Sound /\ memory_start # NULL =>
    BlocksInArena /\ BlocksDisjoint /\ AllCovered

\* The links: from first_block, lnext visits every live block once, in
\* address order, and lprevious is its inverse (the links deep_check tests).
Chain ==
  Sound =>
    /\ \A i \in live :
         /\ lprevious[i] = NULL <=> i = first_block
         /\ lprevious[i] # NULL => lprevious[i] \in live /\ lnext[lprevious[i]] = i
         /\ lnext[i] # NULL =>
              /\ lnext[i] \in live
              /\ lprevious[lnext[i]] = i
              /\ ptr[i] + size[i] <= ptr[lnext[i]]
    /\ first_block \in live \/ (first_block = NULL /\ live = {})

\* A free block is on the list of its size, once, and no used block is on any:
\* what malloc takes off a list is free and of the size the list is for.
SizeLists ==
  Sound => \A a \in 0 .. Top :
    /\ IsInjective(size_list[a])
    /\ Range(size_list[a]) = {i \in FreeBlocks : Bucket(size[i]) = a}

\* Between calls no two neighbouring blocks are both free: ana_reclaim leaves
\* nothing to merge, so that free space is never split up for good.
Coalesced ==
  pc = "idle" => \A i, k \in FreeBlocks : ~Adjacent(i, k)

LostBytes == SumFunctionOnSet([s \in lost |-> s.size], lost)

\* The counters are the sums over the list of blocks that check_mem and
\* deep_check compare them with; lost bytes stay counted as free.
Counters ==
  Sound /\ memory_start # NULL =>
    /\ mem_free = SumFunctionOnSet(size, FreeBlocks) + LostBytes
    /\ mem_used = SumFunctionOnSet(size, UsedBlocks)
    /\ mem_free + mem_used = ArenaSize
    /\ number_of_blocks = Cardinality(live)
    /\ number_of_blocks_used = Cardinality(UsedBlocks)

\* deep_check's last test ("Error!"): every block that is not used is on a
\* size list.  It is not conditional on anything: the violation run shows a
\* large request that should have been refused break it.
DeepCheck ==
  pc \in {"idle", "undefined"} =>
    number_of_blocks - number_of_blocks_used =
      MapThenSumSet(LAMBDA a : Len(size_list[a]), 0 .. Top)

\* The two loops of ana_reclaim end, and so does the free inside a realloc.
CallsReturn == pc \in {"free_old", "reclaim_prev", "reclaim_next"} ~> pc = "idle"

\* What nobody else may be given: the blocks in use, and what is lost.
Held == {Stretch(i) : i \in UsedBlocks} \cup lost

\* The blocks in use are the stretches of the abstract arena.
Promise == INSTANCE Arena WITH
  Large <- Top,
  held <- Held,
  open <- memory_start # NULL,
  broken <- pc = "undefined"

\* ana_memory.c keeps the promise of Arena: disjoint grants, honest refusals.
KeepsPromise == Promise!Spec
=============================================================================
