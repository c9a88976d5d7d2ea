------------------------ MODULE AnaMemoryRefinement ------------------------
(***************************************************************************)
(* The allocator of AnaMemory keeps the promise of Arena, leaves no two    *)
(* free neighbours behind, and counts what it hands out.                   *)
(*                                                                         *)
(* Each step is first summed up by what it does to the blocks (Granted to  *)
(* Freed below); the three results are then proved from the summaries.     *)
(***************************************************************************)
EXTENDS AnaMemoryProofs

-----------------------------------------------------------------------------
(***************************************************************************)
(* What each step does to the blocks                                       *)
(***************************************************************************)

\* Free block i is handed out, or kept back, as a block of n bytes.
Granted(i, n) ==
  /\ i \in FreeBlocks /\ n \in Nat \ {0} /\ size[i] >= n
  /\ UsedBlocks' = UsedBlocks \cup {i}
  /\ ptr'[i] = ptr[i] /\ size'[i] = n
  /\ \A k \in live \ {i} : ptr'[k] = ptr[k] /\ size'[k] = size[k]
  /\ number_of_blocks_used' = number_of_blocks_used + 1
  /\ mem_free' = mem_free - n /\ mem_used' = mem_used + n
  /\ memory_start' = memory_start
  /\ pc' \in {"idle", "free_old"}

GrantedWhole(i, n) ==
  /\ Granted(i, n) /\ size[i] = n
  /\ live' = live /\ FreeBlocks' = FreeBlocks \ {i}
  /\ lnext' = lnext /\ lost' = lost /\ number_of_blocks' = number_of_blocks
  /\ reply' = [asked |-> n, ptr |-> ptr[i]]

\* The rest of block i is the new free block j.
GrantedCut(i, j, n) ==
  /\ Granted(i, n) /\ size[i] > n
  /\ j \in Items \ live /\ live' = live \cup {j}
  /\ FreeBlocks' = (FreeBlocks \ {i}) \cup {j}
  /\ ptr'[j] = ptr[i] + n /\ size'[j] = size[i] - n
  /\ lnext'[i] = j /\ lnext'[j] = lnext[i]
  /\ \A k \in live \ {i} : lnext'[k] = lnext[k]
  /\ lost' = lost /\ number_of_blocks' = number_of_blocks + 1
  /\ reply' = [asked |-> n, ptr |-> ptr[i]]

\* The rest of block i is lost.
GrantedToNobody(i, n) ==
  /\ Granted(i, n) /\ size[i] > n
  /\ live' = live /\ FreeBlocks' = FreeBlocks \ {i}
  /\ lost' = lost \cup {[ptr |-> ptr[i] + n, size |-> size[i] - n]}
  /\ lnext' = lnext /\ number_of_blocks' = number_of_blocks
  /\ reply' = [asked |-> n, ptr |-> NULL]

\* Used block i is free again, and to be merged.
Freed(i) ==
  /\ i \in UsedBlocks
  /\ FreeBlocks' = FreeBlocks \cup {i} /\ UsedBlocks' = UsedBlocks \ {i}
  /\ number_of_blocks_used' = number_of_blocks_used - 1
  /\ mem_free' = mem_free + size[i] /\ mem_used' = mem_used - size[i]
  /\ pc' = "reclaim_prev" /\ cur' = i
  /\ reply' \in {NoReply, reply}
  /\ UNCHANGED <<live, ptr, size, lnext, number_of_blocks, memory_start, lost>>

\* Free block c takes over free block g.
Joined(c, g) ==
  /\ c \in FreeBlocks /\ g \in FreeBlocks /\ c # g /\ cur = c
  /\ live' = live \ {g} /\ FreeBlocks' = FreeBlocks \ {g}
  /\ UsedBlocks' = UsedBlocks
  /\ size'[c] = size[c] + size[g]
  /\ \A k \in live \ {c, g} : ptr'[k] = ptr[k] /\ size'[k] = size[k]
  /\ number_of_blocks' = number_of_blocks - 1
  /\ UNCHANGED <<mem_free, mem_used, number_of_blocks_used, memory_start, lost,
                 reply, pc>>

\* g came before c.
JoinedPrevious(c, g) ==
  /\ Joined(c, g) /\ pc = "reclaim_prev" /\ cur' = cur
  /\ lnext[g] = c /\ ptr[g] + size[g] = ptr[c] /\ ptr'[c] = ptr[g]
  /\ \A k \in live \ {g} : lnext'[k] = IF lnext[k] = g THEN c ELSE lnext[k]

\* g came after c.
JoinedNext(c, g) ==
  /\ Joined(c, g) /\ pc = "reclaim_next" /\ cur' = lnext[g]
  /\ lnext[c] = g /\ ptr[c] + size[c] = ptr[g] /\ ptr'[c] = ptr[c]
  /\ \A k \in live \ {g} : lnext'[k] = IF lnext[k] = g THEN lnext[g] ELSE lnext[k]

\* No block changes.
BlocksStay ==
  UNCHANGED <<live, ptr, size, used, lnext, counters, memory_start, lost>>

\* The three ways to take a block are those.
LEMMA WholeEffect ==
  ASSUME IInv, NEW n \in Requests, NEW old \in Int, MallocWhole(n, old), pc = "idle"
  PROVE  \E i \in FreeBlocks : i = Taken(n) /\ GrantedWhole(i, n)
<1>1. n \in Nat \ {0} /\ Sound
  BY RequestsAssumption DEF Sound
<1>2. PICK i \in FreeBlocks : i = Taken(n)
  BY <1>1, TakenIsFree DEF MallocWhole
<1>3. /\ i \in live /\ i \in Items /\ size[i] = n
      /\ used' = [used EXCEPT ![i] = TRUE] /\ used \in [Items -> BOOLEAN]
      /\ live \subseteq Items
  BY <1>2, Parts, <1>1 DEF MallocWhole, FreeBlocks, UsedBlocks, IInv, TypeOK
<1>4. /\ UNCHANGED <<live, ptr, size, lnext, lost, number_of_blocks, memory_start>>
      /\ CountGrant(n) /\ reply' = [asked |-> n, ptr |-> ptr[i]]
      /\ pc' \in {"idle", "free_old"}
  BY <1>2 DEF MallocWhole, Answer
<1>5. UsedBlocks' = UsedBlocks \cup {i} /\ FreeBlocks' = FreeBlocks \ {i}
  BY <1>3, <1>4 DEF FreeBlocks, UsedBlocks
<1>6. Granted(i, n)
  BY <1>1, <1>3, <1>4, <1>5 DEF Granted, CountGrant
<1>7. QED  BY <1>2, <1>3, <1>4, <1>5, <1>6 DEF GrantedWhole

\* The block is larger, and there is an item for its rest.
LEMMA CutEffect ==
  ASSUME IInv, NEW n \in Requests, NEW old \in Int, MallocSplit(n, old), pc = "idle"
  PROVE  \E i \in FreeBlocks, j \in Items : GrantedCut(i, j, n)
<1>1. n \in Nat \ {0} /\ Sound
  BY RequestsAssumption DEF Sound
<1>2. PICK i \in FreeBlocks : i = Taken(n)
  BY <1>1, TakenIsFree DEF MallocSplit
<1>3. PICK j \in Items \ live : size[i] > n /\ CutAt(i, j, n) /\ Answer(n, old, ptr[i])
  BY <1>2 DEF MallocSplit, HasRest
<1>4. /\ i \in live /\ i \in Items /\ ~used[i] /\ j # i
      /\ used \in [Items -> BOOLEAN] /\ live \subseteq Items
      /\ ptr \in [Items -> Nat] /\ size \in [Items -> Nat]
      /\ lnext \in [Items -> Items \cup {NULL}]
  BY <1>1, <1>2, <1>3, Parts DEF FreeBlocks, UsedBlocks, IInv, TypeOK
<1>5. /\ live' = live \cup {j}
      /\ ptr' = [ptr EXCEPT ![j] = ptr[i] + n]
      /\ size' = [size EXCEPT ![i] = n, ![j] = size[i] - n]
      /\ used' = [used EXCEPT ![i] = TRUE, ![j] = FALSE]
      /\ lnext' = [lnext EXCEPT ![i] = j, ![j] = lnext[i]]
      /\ number_of_blocks' = number_of_blocks + 1
      /\ lost' = lost /\ memory_start' = memory_start
      /\ CountGrant(n) /\ reply' = [asked |-> n, ptr |-> ptr[i]]
      /\ pc' \in {"idle", "free_old"}
  BY <1>3 DEF CutAt, RestPtr, MallocSplit, Answer
<1>6. UsedBlocks' = UsedBlocks \cup {i} /\ FreeBlocks' = (FreeBlocks \ {i}) \cup {j}
  BY <1>4, <1>5 DEF FreeBlocks, UsedBlocks
<1>7. Granted(i, n)
  BY <1>1, <1>3, <1>4, <1>5, <1>6 DEF Granted, CountGrant
<1>8. /\ ptr'[j] = ptr[i] + n /\ size'[j] = size[i] - n
      /\ lnext'[i] = j /\ lnext'[j] = lnext[i]
      /\ \A k \in live \ {i} : lnext'[k] = lnext[k]
  BY <1>3, <1>4, <1>5
<1>9. QED  BY <1>3, <1>5, <1>6, <1>7, <1>8 DEF GrantedCut

\* The block is larger, and there is none.
LEMMA NoItemEffect ==
  ASSUME IInv, NEW n \in Requests, NEW old \in Int, MallocNoItem(n, old), pc = "idle"
  PROVE  \E i \in FreeBlocks : GrantedToNobody(i, n)
<1>1. n \in Nat \ {0} /\ Sound
  BY RequestsAssumption DEF Sound
<1>2. PICK i \in FreeBlocks : i = Taken(n)
  BY <1>1, TakenIsFree DEF MallocNoItem
<1>3. /\ i \in live /\ i \in Items /\ size[i] > n
      /\ used \in [Items -> BOOLEAN] /\ live \subseteq Items /\ size \in [Items -> Nat]
  BY <1>1, <1>2, Parts DEF MallocNoItem, FreeBlocks, UsedBlocks, IInv, TypeOK
<1>4. /\ used' = [used EXCEPT ![i] = TRUE] /\ size' = [size EXCEPT ![i] = n]
      /\ lost' = lost \cup {[ptr |-> ptr[i] + n, size |-> size[i] - n]}
      /\ UNCHANGED <<live, ptr, lnext, number_of_blocks, memory_start>>
      /\ CountGrant(n) /\ reply' = [asked |-> n, ptr |-> NULL]
      /\ pc' \in {"idle", "free_old"}
  BY <1>2 DEF MallocNoItem, Answer
<1>5. UsedBlocks' = UsedBlocks \cup {i} /\ FreeBlocks' = FreeBlocks \ {i}
  BY <1>3, <1>4 DEF FreeBlocks, UsedBlocks
<1>6. Granted(i, n)
  BY <1>1, <1>3, <1>4, <1>5 DEF Granted, CountGrant
<1>7. QED  BY <1>3, <1>4, <1>5, <1>6 DEF GrantedToNobody

\* ana_free, of whichever address.
LEMMA FreeEffect ==
  ASSUME IInv, Sound, NEW p, FreeBlock(p), reply' \in {NoReply, reply}
  PROVE  \E i \in UsedBlocks : Freed(i)
<1>1. PICK i \in UsedBlocks :
        /\ used' = [used EXCEPT ![i] = FALSE]
        /\ number_of_blocks_used' = number_of_blocks_used - 1
        /\ mem_free' = mem_free + size[i]
        /\ mem_used' = mem_used - size[i]
        /\ cur' = i
        /\ pc' = "reclaim_prev"
        /\ UNCHANGED <<live, ptr, size, lnext, number_of_blocks, memory_start, lost>>
  BY DEF FreeBlock
<1>2. i \in live /\ i \in Items /\ used \in [Items -> BOOLEAN] /\ live \subseteq Items
  BY <1>1, Parts DEF UsedBlocks, IInv, TypeOK
<1>3. FreeBlocks' = FreeBlocks \cup {i} /\ UsedBlocks' = UsedBlocks \ {i}
  BY <1>1, <1>2 DEF FreeBlocks, UsedBlocks
<1>4. QED  BY <1>1, <1>3 DEF Freed

\* One turn of the first loop of ana_reclaim.
LEMMA PreviousEffect ==
  ASSUME IInv, ReclaimPrevious
  PROVE  \E c, g \in FreeBlocks : JoinedPrevious(c, g)
<1>1. Sound /\ pc = "reclaim_prev" /\ pc' = pc /\ cur' = cur
  BY DEF ReclaimPrevious, Sound
<1>2. PICK c \in live : c = cur /\ ~used[c]
  BY <1>1 DEF IInv, Reclaiming
<1>3. PICK g \in live : /\ g = lprevious[c] /\ ~used[g] /\ ptr[g] + size[g] = ptr[c]
                        /\ lnext[g] = c
  <2>1. Linked(c) /\ lprevious[c] # NULL /\ ~used[lprevious[c]]
        /\ ptr[lprevious[c]] + size[lprevious[c]] = ptr[c]
    BY <1>1, <1>2, PlainChain
    DEF IInv, ReclaimPrevious, MergesWithPrevious, Adjacent
  <2>2. QED  BY <2>1 DEF Linked
<1>4. /\ c # g
      /\ \A k \in live : k \in Items /\ k # NULL /\ Linked(k)
  BY <1>1, <1>3, MergeBlocks
<1>5. /\ live' = live \ {g}
      /\ size' = [size EXCEPT ![c] = size[c] + size[g], ![g] = 0]
      /\ ptr' = [ptr EXCEPT ![c] = ptr[g], ![g] = 0]
      /\ lnext' = [k \in Items |-> IF k = g THEN NULL
                                   ELSE IF k = lprevious[g] THEN c ELSE lnext[k]]
      /\ number_of_blocks' = number_of_blocks - 1
      /\ UNCHANGED <<used, mem_free, mem_used, number_of_blocks_used,
                     memory_start, lost, reply>>
  BY <1>2, <1>3, <1>4 DEF ReclaimPrevious, Absorb, IInv, TypeOK
<1>6. ptr \in [Items -> Nat] /\ size \in [Items -> Nat]
  BY <1>1, Parts
<1>7. /\ ptr'[c] = ptr[g] /\ size'[c] = size[c] + size[g]
      /\ \A k \in live \ {c, g} : ptr'[k] = ptr[k] /\ size'[k] = size[k]
  BY <1>4, <1>5, <1>6
<1>8. /\ c \in FreeBlocks /\ g \in FreeBlocks /\ FreeBlocks' = FreeBlocks \ {g}
      /\ UsedBlocks' = UsedBlocks
  BY <1>2, <1>3, <1>5 DEF FreeBlocks, UsedBlocks
<1>9. ASSUME NEW k \in live \ {g}
      PROVE  lnext'[k] = IF lnext[k] = g THEN c ELSE lnext[k]
  <2>1. Linked(k) /\ Linked(g) /\ k # NULL /\ g # NULL
    BY <1>4
  <2>2. k = lprevious[g] <=> lnext[k] = g
    BY <2>1 DEF Linked
  <2>3. QED  BY <1>4, <1>5, <2>2
<1>10. Joined(c, g)
  BY <1>1, <1>2, <1>4, <1>5, <1>7, <1>8 DEF Joined
<1>11. JoinedPrevious(c, g)
  BY <1>1, <1>3, <1>7, <1>9, <1>10 DEF JoinedPrevious
<1>12. QED  BY <1>8, <1>11

\* One turn of the second.
LEMMA NextEffect ==
  ASSUME IInv, ReclaimNext
  PROVE  \E c, g \in FreeBlocks : JoinedNext(c, g)
<1>1. Sound /\ pc = "reclaim_next" /\ pc' = pc
  BY DEF ReclaimNext, Sound
<1>2. PICK c \in live : c = cur /\ ~used[c]
  BY <1>1 DEF IInv, Reclaiming, ReclaimNext, MergesWithNext
<1>3. PICK g \in live : /\ g = lnext[c] /\ ~used[g] /\ ptr[c] + size[c] = ptr[g]
  <2>1. Linked(c) /\ lnext[c] # NULL /\ ~used[lnext[c]]
        /\ ptr[c] + size[c] = ptr[lnext[c]]
    BY <1>1, <1>2, PlainChain DEF IInv, ReclaimNext, MergesWithNext, Adjacent
  <2>2. QED  BY <2>1 DEF Linked
<1>4. /\ c # g
      /\ \A k \in live : k \in Items /\ k # NULL /\ Linked(k)
  BY <1>1, <1>3, MergeBlocks
<1>5. /\ live' = live \ {g}
      /\ size' = [size EXCEPT ![c] = size[c] + size[g], ![g] = 0]
      /\ ptr' = [ptr EXCEPT ![g] = 0]
      /\ lnext' = [lnext EXCEPT ![c] = lnext[g], ![g] = NULL]
      /\ cur' = lnext[g]
      /\ number_of_blocks' = number_of_blocks - 1
      /\ UNCHANGED <<used, mem_free, mem_used, number_of_blocks_used,
                     memory_start, lost, reply>>
  BY <1>2, <1>3, <1>4 DEF ReclaimNext, Absorb, IInv, TypeOK
<1>6. /\ ptr \in [Items -> Nat] /\ size \in [Items -> Nat]
      /\ lnext \in [Items -> Items \cup {NULL}]
  BY <1>1, Parts DEF IInv, TypeOK
<1>7. /\ ptr'[c] = ptr[c] /\ size'[c] = size[c] + size[g]
      /\ \A k \in live \ {c, g} : ptr'[k] = ptr[k] /\ size'[k] = size[k]
  BY <1>4, <1>5, <1>6
<1>8. /\ c \in FreeBlocks /\ g \in FreeBlocks /\ FreeBlocks' = FreeBlocks \ {g}
      /\ UsedBlocks' = UsedBlocks
  BY <1>2, <1>3, <1>5 DEF FreeBlocks, UsedBlocks
<1>9. ASSUME NEW k \in live \ {g}
      PROVE  lnext'[k] = IF lnext[k] = g THEN lnext[g] ELSE lnext[k]
  <2>1. Linked(k) /\ Linked(c) /\ k # NULL /\ g # NULL
    BY <1>4
  <2>2. lnext[k] = g <=> k = c
    BY <1>3, <2>1 DEF Linked
  <2>3. k \in Items /\ c \in Items
    BY <1>4
  <2>4. QED  BY <1>4, <1>5, <1>6, <2>2, <2>3
<1>10. QED
  BY <1>1, <1>2, <1>3, <1>4, <1>5, <1>7, <1>8, <1>9 DEF JoinedNext, Joined

\* No block changes, and ana_reclaim goes on to its second loop or returns
\* because its test says so; or nothing is going on.
Passed ==
  /\ BlocksStay
  /\ \/ pc = "idle" /\ pc' \in {"idle", "free_old"} /\ cur' = cur
     \/ pc = "reclaim_prev" /\ ~MergesWithPrevious /\ pc' = "reclaim_next" /\ cur' = cur
        /\ reply' = reply
     \/ pc = "reclaim_next" /\ ~MergesWithNext /\ pc' = "idle" /\ reply' = reply
     \/ pc' = pc /\ cur' = cur /\ reply' = reply

Refused(n) ==
  pc = "idle" /\ ~Found(n) /\ BlocksStay /\ reply' = [asked |-> n, ptr |-> NULL]

\* A block of less than n bytes is handed out for n.
Overrun(n) ==
  /\ pc = "idle" /\ Found(n) /\ size[Taken(n)] < n
  /\ pc' = "undefined" /\ memory_start' = memory_start

Closes ==
  /\ pc = "idle" /\ pc' = "idle"
  /\ live' = {} /\ lost' = {} /\ memory_start' = NULL /\ reply' = NoReply

\* What ana_malloc can do.
MallocEffects(n) ==
  \/ Refused(n)
  \/ \E i \in FreeBlocks : i = Taken(n) /\ GrantedWhole(i, n)
  \/ \E i \in FreeBlocks, j \in Items : GrantedCut(i, j, n)
  \/ \E i \in FreeBlocks : GrantedToNobody(i, n)
  \/ Overrun(n)

\* A call of ana_malloc does one of these.
LEMMA MallocEffect ==
  ASSUME IInv, NEW n \in Requests, NEW old \in Int, Malloc(n, old), pc = "idle"
  PROVE  MallocEffects(n) /\ (Refused(n) => Passed)
<1>1. CASE MallocRefused(n, old)
  BY <1>1 DEF MallocRefused, Answer, MallocEffects, Refused, Passed, BlocksStay, fields,
              counters
<1>2. CASE MallocShort(n, old)
  <2>1. Overrun(n)
    BY <1>2 DEF MallocShort, Overrun
  <2>2. QED  BY <1>2, <2>1 DEF MallocEffects, Refused, MallocShort
<1>3. CASE MallocWhole(n, old) \/ MallocSplit(n, old) \/ MallocNoItem(n, old)
  <2>1. Found(n)
    BY <1>3 DEF MallocWhole, MallocSplit, MallocNoItem
  <2>2. MallocEffects(n)
    BY <1>3, WholeEffect, CutEffect, NoItemEffect DEF MallocEffects
  <2>3. QED  BY <2>1, <2>2 DEF Refused
<1>4. QED  BY <1>1, <1>2, <1>3 DEF Malloc

\* Every step is one of these; an overrun is the last.
LEMMA Effects ==
  ASSUME IInv, [Next]_vars
  PROVE  \/ pc = "idle" /\ \E n \in Requests : MallocEffects(n) /\ (Refused(n) => Passed)
         \/ pc \in {"idle", "free_old"} /\ \E i \in UsedBlocks : Freed(i)
         \/ \E c, g \in FreeBlocks : JoinedPrevious(c, g)
         \/ \E c, g \in FreeBlocks : JoinedNext(c, g)
         \/ Passed /\ (pc = "idle" => pc' = "idle" /\ reply' = reply)
         \/ Closes
<1>0. target \in Int /\ (Sound => ptr \in [Items -> Nat]) /\ live \subseteq Items
  BY DEF IInv, TypeOK
<1>1. CASE ana_malloc
  <2>1. PICK n \in Requests : Malloc(n, NULL) /\ pc = "idle"
    BY <1>1 DEF ana_malloc
  <2>2. QED  BY <2>1, MallocEffect DEF NULL
<1>2. CASE ana_realloc
  <2>1. PICK n \in Requests, p \in UsedPtrs : Malloc(n, p) /\ pc = "idle"
    BY <1>2 DEF ana_realloc
  <2>2. p \in Int
    BY <1>0, <2>1 DEF UsedPtrs, UsedBlocks, Sound
  <2>3. QED  BY <2>1, <2>2, MallocEffect
<1>3. CASE ana_free
  <2>1. PICK p \in UsedPtrs : FreeBlock(p)
    BY <1>3 DEF ana_free
  <2>2. pc = "idle" /\ Sound /\ reply' \in {NoReply, reply}
    BY <1>3 DEF ana_free, Sound
  <2>3. QED  BY <2>1, <2>2, FreeEffect
<1>4. CASE FreeOld
  <2>1. FreeBlock(target) /\ pc = "free_old" /\ Sound /\ reply' \in {NoReply, reply}
    BY <1>4 DEF FreeOld, Sound
  <2>2. QED  BY <2>1, FreeEffect
<1>5. CASE ReclaimPrevious \/ ReclaimNext
  BY <1>5, PreviousEffect, NextEffect
<1>6. CASE ReclaimPreviousDone \/ ReclaimNextDone
  BY <1>6 DEF ReclaimPreviousDone, ReclaimNextDone, Passed, BlocksStay, fields, counters
<1>7. CASE free_ana_memory
  BY <1>7 DEF free_ana_memory, Closes
<1>8. CASE FreeAnaMemoryAgain \/ UNCHANGED vars
  BY <1>8 DEF FreeAnaMemoryAgain, vars, Passed, BlocksStay, fields, counters
<1>9. QED
  BY <1>1, <1>2, <1>3, <1>4, <1>5, <1>6, <1>7, <1>8 DEF Next, ana_reclaim
-----------------------------------------------------------------------------
(***************************************************************************)
(* Nothing is left to merge                                                *)
(***************************************************************************)

\* lnext goes to the nearest block above.
NextIsNearest ==
  Sound => \A k, m \in live :
    ptr[k] < ptr[m] => lnext[k] # NULL /\ ptr[lnext[k]] <= ptr[m]

\* Two free neighbours are what the loop that runs is about to join.
LeftToMerge ==
  Sound => \A a, b \in FreeBlocks :
    Adjacent(a, b) => \/ pc = "reclaim_prev" /\ cur \in {a, b}
                      \/ pc = "reclaim_next" /\ cur = a

\* What the blocks are like, in plain arithmetic.
LEMMA Plain ==
  ASSUME IInv, Sound
  PROVE  /\ \A k \in live : /\ ptr[k] \in Nat /\ size[k] \in Nat
                            /\ size[k] >= 1 /\ ptr[k] >= 1
                            /\ k \in Items /\ k # NULL /\ Linked(k)
                            /\ lnext[k] \in live \cup {NULL}
                            /\ lnext[k] # k
         /\ \A k, m \in live :
              k # m => ptr[k] + size[k] <= ptr[m] \/ ptr[m] + size[m] <= ptr[k]
         /\ FreeBlocks \subseteq live
<1>1. /\ ArenaFact /\ DisjointFact /\ FreeBlocks \subseteq live /\ live \subseteq Items
      /\ ptr \in [Items -> Nat] /\ size \in [Items -> Nat]
  BY Parts
<1>2. \A k \in live : Linked(k)
  BY PlainChain DEF IInv
<1>3. ASSUME NEW k \in live
      PROVE  /\ ptr[k] \in Nat /\ size[k] \in Nat /\ size[k] >= 1 /\ ptr[k] >= 1
             /\ k \in Items /\ k # NULL /\ lnext[k] \in live \cup {NULL}
  BY <1>1, <1>2, ItemsAssumption DEF ArenaFact, Linked
<1>4. ASSUME NEW k \in live
      PROVE  lnext[k] # k
  BY <1>2, <1>3 DEF Linked
<1>5. QED  BY <1>1, <1>2, <1>3, <1>4 DEF DisjointFact

\* Neighbours in the arena are neighbours on the list of blocks.
LEMMA NeighboursLinked ==
  ASSUME IInv, Sound, NextIsNearest, NEW a \in live, NEW b \in live, Adjacent(a, b)
  PROVE  lnext[a] = b /\ lprevious[b] = a
<1>1. ptr[a] + size[a] = ptr[b] /\ ptr[a] < ptr[b]
  BY Plain DEF Adjacent
<1>2. lnext[a] \in live /\ ptr[lnext[a]] <= ptr[b]
  BY <1>1, Plain DEF NextIsNearest
<1>3. ptr[a] + size[a] <= ptr[lnext[a]] /\ lprevious[lnext[a]] = a
  BY <1>2, Plain DEF Linked
<1>4. ptr[lnext[a]] = ptr[b]
  BY <1>1, <1>2, <1>3, Plain
<1>5. lnext[a] = b
  BY <1>2, <1>4, Plain
<1>6. QED  BY <1>3, <1>5

\* A block handed out whole, or kept back, changes no list and frees nothing.
LEMMA GrantKeepsMerged ==
  ASSUME IInv, Sound, pc = "idle", NextIsNearest, LeftToMerge,
         NEW i \in FreeBlocks, NEW n, Granted(i, n),
         live' = live, FreeBlocks' = FreeBlocks \ {i}, lnext' = lnext
  PROVE  NextIsNearest' /\ LeftToMerge'
<1>1. \A k \in live : ptr'[k] = ptr[k]
  BY DEF Granted
<1>2. \A k \in FreeBlocks \ {i} : size'[k] = size[k] /\ k \in live
  BY Plain DEF Granted
<1>3. NextIsNearest'
  <2>1. \A k \in live : lnext[k] # NULL => lnext[k] \in live
    BY Plain
  <2>2. QED  BY <1>1, <2>1 DEF NextIsNearest
<1>4. LeftToMerge'
  BY <1>1, <1>2 DEF LeftToMerge, Adjacent
<1>5. QED  BY <1>3, <1>4

\* A cut puts the new block between the one that was cut and the next: it is
\* nobody's free neighbour, or the block that was cut would have been.
LEMMA CutKeepsMerged ==
  ASSUME IInv, Sound, pc = "idle", NextIsNearest, LeftToMerge,
         NEW i \in FreeBlocks, NEW j \in Items, NEW n, GrantedCut(i, j, n)
  PROVE  NextIsNearest' /\ LeftToMerge'
<1>1. /\ n \in Nat \ {0} /\ size[i] > n /\ i \in live /\ j \notin live
      /\ live' = live \cup {j} /\ FreeBlocks' = (FreeBlocks \ {i}) \cup {j}
      /\ ptr'[j] = ptr[i] + n /\ size'[j] = size[i] - n
      /\ \A k \in live : ptr'[k] = ptr[k]
      /\ \A k \in live \ {i} : size'[k] = size[k]
      /\ lnext'[i] = j /\ lnext'[j] = lnext[i]
      /\ \A k \in live \ {i} : lnext'[k] = lnext[k]
  BY Plain DEF GrantedCut, Granted
<1>2. j # NULL
  BY ItemsAssumption
<1>3. ASSUME NEW k \in live', NEW m \in live', ptr'[k] < ptr'[m]
      PROVE  lnext'[k] # NULL /\ ptr'[lnext'[k]] <= ptr'[m]
  <2>1. CASE k = i
    <3>1. CASE m = j
      BY <1>1, <1>2, <2>1, <3>1, Plain
    <3>2. CASE m \in live
      <4>1. ptr[i] + size[i] <= ptr[m]
        BY <1>1, <1>3, <2>1, <3>2, Plain
      <4>2. QED  BY <1>1, <1>2, <2>1, <3>2, <4>1, Plain
    <3>3. QED  BY <1>1, <3>1, <3>2
  <2>2. CASE k = j
    <3>1. m \in live /\ ptr[i] < ptr[m]
      <4>1. m \in live
        BY <1>1, <1>3, <2>2, Plain
      <4>2. QED  BY <1>1, <1>3, <2>2, <4>1, Plain
    <3>2. lnext[i] \in live /\ ptr[lnext[i]] <= ptr[m]
      BY <1>1, <3>1, Plain DEF NextIsNearest
    <3>3. QED  BY <1>1, <2>2, <3>1, <3>2, Plain
  <2>3. CASE k \in live \ {i} /\ m = j
    <3>1. ptr[k] < ptr[i]
      BY <1>1, <1>3, <2>3, Plain
    <3>2. lnext[k] \in live /\ ptr[lnext[k]] <= ptr[i]
      BY <1>1, <2>3, <3>1, Plain DEF NextIsNearest
    <3>3. ptr[lnext[k]] \in Nat /\ ptr[i] \in Nat
      BY <1>1, <3>2, Plain
    <3>4. QED  BY <1>1, <2>3, <3>2, <3>3, Plain
  <2>4. CASE k \in live \ {i} /\ m \in live
    <3>1. lnext[k] \in live /\ ptr[lnext[k]] <= ptr[m]
      BY <1>1, <1>3, <2>4, Plain DEF NextIsNearest
    <3>2. QED  BY <1>1, <2>4, <3>1, Plain
  <2>5. QED  BY <1>1, <2>1, <2>2, <2>3, <2>4
<1>4. ASSUME NEW a \in FreeBlocks', NEW b \in FreeBlocks', ptr'[a] + size'[a] = ptr'[b]
      PROVE  FALSE
  <2>1. \A x, y \in FreeBlocks : ptr[x] + size[x] # ptr[y]
    BY DEF LeftToMerge, Adjacent
  <2>2. CASE a # j /\ b # j
    BY <1>1, <1>4, <2>1, <2>2, Plain
  <2>3. CASE a = j /\ b # j
    <3>1. b \in FreeBlocks /\ b \in live
      BY <1>1, <1>4, <2>3, Plain
    <3>2. ptr[i] + size[i] = ptr[b]
      BY <1>1, <1>4, <2>3, <3>1, Plain
    <3>3. QED  BY <2>1, <3>1, <3>2
  <2>4. CASE a # j /\ b = j
    <3>1. a \in live /\ a # i
      BY <1>1, <1>4, <2>4, Plain
    <3>2. ptr[a] + size[a] = ptr[i] + n
      BY <1>1, <1>4, <2>4, <3>1, Plain
    <3>3. QED  BY <1>1, <3>1, <3>2, Plain
  <2>5. CASE a = j /\ b = j
    BY <1>1, <1>4, <2>5, Plain
  <2>6. QED  BY <2>2, <2>3, <2>4, <2>5
<1>5. QED  BY <1>3, <1>4 DEF NextIsNearest, LeftToMerge, Adjacent

\* The freed block is the one that the first loop runs on.
LEMMA FreeKeepsMerged ==
  ASSUME IInv, Sound, pc \in {"idle", "free_old"}, NextIsNearest, LeftToMerge,
         NEW i \in UsedBlocks, Freed(i)
  PROVE  NextIsNearest' /\ LeftToMerge'
<1>1. NextIsNearest'
  BY DEF NextIsNearest, Freed, Sound
<1>2. \A x, y \in FreeBlocks : ptr[x] + size[x] # ptr[y]
  BY DEF LeftToMerge, Adjacent
<1>3. LeftToMerge'
  BY <1>2 DEF LeftToMerge, Adjacent, Freed
<1>4. QED  BY <1>1, <1>3

\* Joining the block before leaves the joined block as the one to look at.
LEMMA PreviousKeepsMerged ==
  ASSUME IInv, Sound, NextIsNearest, LeftToMerge,
         NEW c \in FreeBlocks, NEW g \in FreeBlocks, JoinedPrevious(c, g)
  PROVE  NextIsNearest' /\ LeftToMerge'
<1>1. /\ c # g /\ c \in live /\ g \in live /\ cur = c /\ cur' = c
      /\ pc = "reclaim_prev" /\ pc' = pc
      /\ live' = live \ {g} /\ FreeBlocks' = FreeBlocks \ {g}
      /\ lnext[g] = c /\ ptr[g] + size[g] = ptr[c] /\ ptr'[c] = ptr[g]
      /\ \A k \in live \ {c, g} : ptr'[k] = ptr[k] /\ size'[k] = size[k]
      /\ \A k \in live \ {g} : lnext'[k] = IF lnext[k] = g THEN c ELSE lnext[k]
  BY Plain DEF JoinedPrevious, Joined
<1>2. lprevious[c] = g /\ c # NULL /\ lnext[c] # g
  BY <1>1, Plain DEF Linked
<1>3. ASSUME NEW k \in live', NEW m \in live', ptr'[k] < ptr'[m]
      PROVE  lnext'[k] # NULL /\ ptr'[lnext'[k]] <= ptr'[m]
  <2>1. CASE k = c
    <3>1. m \in live \ {c, g} /\ ptr[g] < ptr[m]
      BY <1>1, <1>3, <2>1, Plain
    <3>2. ptr[c] <= ptr[m]
      BY <1>1, <3>1 DEF NextIsNearest
    <3>3. ptr[c] < ptr[m]
      BY <1>1, <3>1, <3>2, Plain
    <3>4. lnext[c] \in live /\ ptr[lnext[c]] <= ptr[m]
      BY <1>1, <3>1, <3>3, Plain DEF NextIsNearest
    <3>5. lnext[c] \in live \ {c, g}
      BY <1>1, <1>2, <3>4, Plain
    <3>6. QED  BY <1>1, <1>2, <2>1, <3>1, <3>4, <3>5, Plain
  <2>2. CASE k # c /\ lnext[k] = g
    <3>1. lnext'[k] = c /\ k \in live \ {c, g}
      BY <1>1, <1>3, <2>2, Plain
    <3>2. CASE m = c
      BY <1>1, <1>2, <3>1, <3>2, Plain
    <3>3. CASE m # c
      <4>1. m \in live \ {c, g} /\ ptr[k] < ptr[m]
        BY <1>1, <1>3, <3>1, <3>3
      <4>2. ptr[g] <= ptr[m]
        BY <2>2, <3>1, <4>1 DEF NextIsNearest
      <4>3. QED  BY <1>1, <1>2, <3>1, <4>1, <4>2
    <3>4. QED  BY <3>2, <3>3
  <2>3. CASE k # c /\ lnext[k] # g
    <3>1. lnext'[k] = lnext[k] /\ k \in live \ {c, g} /\ ptr'[k] = ptr[k]
      BY <1>1, <1>3, <2>3
    <3>2. PICK t \in live : ptr[t] = ptr'[m] /\ t # k
      <4>1. CASE m = c
        BY <1>1, <3>1, <4>1
      <4>2. CASE m # c
        <5>1. m \in live /\ ptr'[m] = ptr[m] /\ ptr[k] < ptr[m]
          BY <1>1, <1>3, <3>1, <4>2
        <5>2. QED  BY <3>1, <5>1, Plain
      <4>3. QED  BY <4>1, <4>2
    <3>3. lnext[k] \in live /\ ptr[lnext[k]] <= ptr[t]
      BY <1>3, <3>1, <3>2, Plain DEF NextIsNearest
    <3>4. lnext[k] # c
      BY <1>2, <3>1, <3>3, Plain DEF Linked
    <3>5. lnext[k] \in live \ {c, g}
      BY <2>3, <3>3, <3>4
    <3>6. QED  BY <1>1, <3>1, <3>2, <3>3, <3>5, Plain
  <2>4. QED  BY <2>1, <2>2, <2>3
<1>4. ASSUME NEW a \in FreeBlocks', NEW b \in FreeBlocks', Adjacent(a, b)',
             a # c, b # c
      PROVE  FALSE
  <2>1. a \in FreeBlocks /\ b \in FreeBlocks /\ a \in live \ {c, g}
        /\ b \in live \ {c, g}
    BY <1>1, <1>4, Plain
  <2>2. Adjacent(a, b)
    BY <1>1, <1>4, <2>1 DEF Adjacent
  <2>3. QED  BY <1>1, <1>4, <2>1, <2>2 DEF LeftToMerge
<1>5. NextIsNearest'
  BY <1>3 DEF NextIsNearest
<1>6. LeftToMerge'
  BY <1>1, <1>4 DEF LeftToMerge
<1>7. QED  BY <1>5, <1>6

\* Joining the block after leaves nothing to join: what follows it was not
\* its free neighbour before.
LEMMA NextKeepsMerged ==
  ASSUME IInv, Sound, NextIsNearest, LeftToMerge,
         NEW c \in FreeBlocks, NEW g \in FreeBlocks, JoinedNext(c, g)
  PROVE  NextIsNearest' /\ LeftToMerge'
<1>1. /\ c # g /\ c \in live /\ g \in live /\ cur = c
      /\ pc = "reclaim_next" /\ pc' = pc
      /\ live' = live \ {g} /\ FreeBlocks' = FreeBlocks \ {g}
      /\ lnext[c] = g /\ ptr[c] + size[c] = ptr[g] /\ ptr'[c] = ptr[c]
      /\ size'[c] = size[c] + size[g]
      /\ \A k \in live \ {c, g} : ptr'[k] = ptr[k] /\ size'[k] = size[k]
      /\ \A k \in live \ {g} :
           lnext'[k] = IF lnext[k] = g THEN lnext[g] ELSE lnext[k]
  BY Plain DEF JoinedNext, Joined
<1>2. \A k \in live \ {g} : ptr'[k] = ptr[k]
  BY <1>1
<1>3. ASSUME NEW k \in live', NEW m \in live', ptr'[k] < ptr'[m]
      PROVE  lnext'[k] # NULL /\ ptr'[lnext'[k]] <= ptr'[m]
  <2>1. /\ k \in live \ {g} /\ m \in live \ {g} /\ ptr[k] < ptr[m]
        /\ ptr'[m] = ptr[m]
    BY <1>1, <1>2, <1>3
  <2>2. lnext[k] \in live /\ ptr[lnext[k]] <= ptr[m]
    BY <2>1, Plain DEF NextIsNearest
  <2>3. CASE lnext[k] = g
    <3>1. ptr[g] < ptr[m]
      BY <1>1, <2>1, <2>2, <2>3, Plain
    <3>2. lnext[g] \in live /\ ptr[lnext[g]] <= ptr[m] /\ lnext[g] # g
      BY <1>1, <2>1, <3>1, Plain DEF NextIsNearest
    <3>3. lnext'[k] = lnext[g]
      BY <1>1, <2>1, <2>3
    <3>4. QED  BY <1>2, <2>1, <3>2, <3>3, Plain
  <2>4. CASE lnext[k] # g
    BY <1>1, <1>2, <2>1, <2>2, <2>4, Plain
  <2>5. QED  BY <2>3, <2>4
<1>4. ASSUME NEW a \in FreeBlocks', NEW b \in FreeBlocks', Adjacent(a, b)'
      PROVE  FALSE
  <2>1. a \in FreeBlocks /\ b \in FreeBlocks /\ a \in live \ {g}
        /\ b \in live \ {g} /\ ptr'[b] = ptr[b] /\ ptr'[a] = ptr[a]
    BY <1>1, <1>2, <1>4, Plain
  <2>2. \A x, y \in FreeBlocks : ptr[x] + size[x] = ptr[y] => x = c
    BY <1>1 DEF LeftToMerge, Adjacent
  <2>3. CASE a = c
    <3>1. ptr[g] + size[g] = ptr[b]
      BY <1>1, <1>4, <2>1, <2>3, Plain DEF Adjacent
    <3>2. QED  BY <1>1, <2>1, <2>2, <3>1
  <2>4. CASE a # c
    BY <1>1, <1>4, <2>1, <2>2, <2>4 DEF Adjacent
  <2>5. QED  BY <2>3, <2>4
<1>5. NextIsNearest'
  BY <1>3 DEF NextIsNearest
<1>6. LeftToMerge'
  BY <1>4 DEF LeftToMerge
<1>7. QED  BY <1>5, <1>6

\* A loop ends when its test finds nothing to join, and then there is nothing.
LEMMA PassedKeepsMerged ==
  ASSUME IInv, Sound, NextIsNearest, LeftToMerge, Passed
  PROVE  NextIsNearest' /\ LeftToMerge'
<1>1. /\ UNCHANGED <<live, ptr, size, used, lnext>>
      /\ FreeBlocks' = FreeBlocks
      /\ \A a, b : Adjacent(a, b)' <=> Adjacent(a, b)
  BY DEF Passed, BlocksStay, FreeBlocks, UsedBlocks, Adjacent
<1>2. NextIsNearest'
  BY <1>1 DEF NextIsNearest
<1>3. ASSUME NEW a \in FreeBlocks, NEW b \in FreeBlocks, Adjacent(a, b)
      PROVE  /\ lnext[a] = b /\ lprevious[b] = a /\ a # NULL /\ b # NULL
             /\ ~used[a] /\ ~used[b]
             /\ \/ pc = "reclaim_prev" /\ cur \in {a, b}
                \/ pc = "reclaim_next" /\ cur = a
  BY <1>3, NeighboursLinked, Plain DEF LeftToMerge, FreeBlocks, UsedBlocks
<1>4. LeftToMerge'
  <2>1. CASE pc = "idle" /\ pc' \in {"idle", "free_old"}
    BY <1>1, <2>1 DEF LeftToMerge
  <2>2. CASE pc = "reclaim_prev" /\ ~MergesWithPrevious /\ pc' = "reclaim_next"
             /\ cur' = cur
    BY <1>1, <1>3, <2>2 DEF LeftToMerge, MergesWithPrevious
  <2>3. CASE pc = "reclaim_next" /\ ~MergesWithNext /\ pc' = "idle"
    BY <1>1, <1>3, <2>3 DEF LeftToMerge, MergesWithNext
  <2>4. CASE pc' = pc /\ cur' = cur
    BY <1>1, <2>4 DEF LeftToMerge, Sound
  <2>5. QED  BY <2>1, <2>2, <2>3, <2>4 DEF Passed
<1>5. QED  BY <1>2, <1>4

\* Every step keeps the two.
LEMMA MergedStep ==
  IInv /\ NextIsNearest /\ LeftToMerge /\ [Next]_vars => NextIsNearest' /\ LeftToMerge'
<1> SUFFICES ASSUME IInv, NextIsNearest, LeftToMerge, [Next]_vars, Sound'
             PROVE  NextIsNearest' /\ LeftToMerge'
  BY DEF NextIsNearest, LeftToMerge
<1>1. CASE \E n \in Requests : pc = "idle" /\ MallocEffects(n) /\ (Refused(n) => Passed)
  <2>1. PICK n \in Requests : pc = "idle" /\ MallocEffects(n) /\ (Refused(n) => Passed)
    BY <1>1
  <2>2. Sound /\ ~Overrun(n)
    BY <2>1 DEF Sound, Overrun
  <2>3. QED
    BY <2>1, <2>2, GrantKeepsMerged, CutKeepsMerged, PassedKeepsMerged
    DEF MallocEffects, GrantedWhole, GrantedToNobody
<1>2. CASE Passed
  <2>1. Sound
    BY <1>2 DEF Passed, Sound
  <2>2. QED  BY <1>2, <2>1, PassedKeepsMerged
<1>3. CASE Closes
  BY <1>3 DEF Closes, NextIsNearest, LeftToMerge, FreeBlocks
<1>4. CASE pc \in {"idle", "free_old"} /\ \E i \in UsedBlocks : Freed(i)
  BY <1>4, FreeKeepsMerged DEF Sound
<1>5. CASE \E c, g \in FreeBlocks : JoinedPrevious(c, g)
  BY <1>5, PreviousKeepsMerged DEF JoinedPrevious, Sound
<1>6. CASE \E c, g \in FreeBlocks : JoinedNext(c, g)
  BY <1>6, NextKeepsMerged DEF JoinedNext, Sound
<1>7. QED  BY <1>1, <1>2, <1>3, <1>4, <1>5, <1>6, Effects

\* The arena begins as one block.
LEMMA MergedInit == Init => NextIsNearest /\ LeftToMerge
<1> SUFFICES ASSUME Init PROVE NextIsNearest /\ LeftToMerge
  OBVIOUS
<1>1. live = {Item0} /\ FreeBlocks \subseteq {Item0}
  BY DEF Init, FreeBlocks
<1>2. Item0 \in Items /\ ptr[Item0] = 1 /\ size[Item0] = ArenaSize
  BY ItemsAssumption DEF Init, Item0
<1>3. QED  BY <1>1, <1>2, ArenaAssumption DEF NextIsNearest, LeftToMerge, Adjacent

\* Between calls no two free blocks are neighbours: ana_reclaim has joined the
\* block that was freed with both of its neighbours, and nothing else makes two.
THEOREM NothingLeftToMerge == Spec => []Coalesced
<1>1. LeftToMerge => Coalesced
  BY DEF LeftToMerge, Coalesced, Sound
<1>2. QED  BY <1>1, MergedInit, MergedStep, Invariant, PTL DEF Spec

-----------------------------------------------------------------------------
(***************************************************************************)
(* The counters                                                            *)
(***************************************************************************)
Total(S) == SumFunctionOnSet(size, S)

\* There are only finitely many blocks to count.
FinitelyMany == Sound => IsFiniteSet(live) /\ IsFiniteSet(lost)

Counted == FinitelyMany /\ Counters

\* The sums over the blocks, and over parts of them, are natural numbers.
LEMMA TotalsAreNat ==
  ASSUME IInv, Sound, FinitelyMany
  PROVE  /\ \A S \in SUBSET live : IsFiniteSet(S) /\ Total(S) \in Nat
                                    /\ Cardinality(S) \in Nat
         /\ UsedBlocks \in SUBSET live /\ FreeBlocks \in SUBSET live
         /\ LostBytes \in Nat /\ IsFiniteSet(lost)
<1>1. ASSUME NEW S \in SUBSET live
      PROVE  IsFiniteSet(S) /\ Total(S) \in Nat /\ Cardinality(S) \in Nat
  <2>1. IsFiniteSet(S)
    BY FS_Subset DEF FinitelyMany
  <2>2. \A k \in S : size[k] \in Nat
    BY Plain
  <2>3. QED  BY <2>1, <2>2, SumNat, FS_CardinalityType DEF Total
<1>2. LostBytes \in Nat
  <2>1. \A s \in lost : s.size \in Nat
    <3>1. ArenaFact /\ lost \subseteq [ptr : Int, size : Int]
      BY Parts DEF IInv, TypeOK
    <3>2. QED  BY <3>1 DEF ArenaFact
  <2>2. \A s \in lost : [t \in lost |-> t.size][s] \in Nat
    BY <2>1
  <2>3. QED  BY <2>2, SumNat DEF LostBytes, FinitelyMany
<1>3. QED  BY <1>1, <1>2 DEF UsedBlocks, FreeBlocks, FinitelyMany

\* The sum over blocks whose sizes stay.
LEMMA TotalStays ==
  ASSUME IInv, Sound, FinitelyMany, NEW S \in SUBSET live,
         \A k \in S : size'[k] = size[k]
  PROVE  SumFunctionOnSet(size', S) = Total(S)
<1>1. \A k \in S : size[k] \in Nat
  BY Plain
<1>2. QED  BY <1>1, TotalsAreNat, SumSame DEF Total

\* The sum without one block.
LEMMA TotalWithout ==
  ASSUME IInv, Sound, FinitelyMany, NEW S \in SUBSET live, NEW k \in S
  PROVE  Total(S) = size[k] + Total(S \ {k})
<1>1. \A m \in S : size[m] \in Nat
  BY Plain
<1>2. QED  BY <1>1, TotalsAreNat, SumWithout DEF Total

\* The sum in the next state with one block more.
LEMMA TotalWith ==
  ASSUME IInv, Sound, FinitelyMany, NEW S \in SUBSET live,
         \A m \in S : size'[m] = size[m], NEW k, k \notin S, size'[k] \in Nat
  PROVE  SumFunctionOnSet(size', S \cup {k}) = size'[k] + Total(S)
<1>1. \A m \in S \cup {k} : size'[m] \in Nat
  BY Plain
<1>2. SumFunctionOnSet(size', S \cup {k}) = size'[k] + SumFunctionOnSet(size', S)
  BY <1>1, TotalsAreNat, SumWith
<1>3. QED  BY <1>2, TotalStays

\* A grant moves n bytes and one block to the used ones.
LEMMA GrantCounts ==
  ASSUME IInv, Sound, FinitelyMany, NEW i \in FreeBlocks, NEW n, Granted(i, n)
  PROVE  /\ Total(UsedBlocks)' = n + Total(UsedBlocks)
         /\ Cardinality(UsedBlocks') = Cardinality(UsedBlocks) + 1
         /\ SumFunctionOnSet(size', FreeBlocks \ {i}) = Total(FreeBlocks \ {i})
         /\ Total(FreeBlocks) = size[i] + Total(FreeBlocks \ {i})
         /\ Total(FreeBlocks \ {i}) \in Nat /\ size[i] \in Nat /\ n \in Nat
         /\ i \notin UsedBlocks
<1>1. /\ i \notin UsedBlocks /\ n \in Nat /\ i \in live /\ size'[i] = n
      /\ UsedBlocks' = UsedBlocks \cup {i}
      /\ \A k \in live \ {i} : size'[k] = size[k]
  BY Plain DEF Granted, FreeBlocks
<1>2. /\ UsedBlocks \in SUBSET live /\ FreeBlocks \in SUBSET live
      /\ FreeBlocks \ {i} \in SUBSET live
  BY TotalsAreNat
<1>3. SumFunctionOnSet(size', UsedBlocks \cup {i}) = n + Total(UsedBlocks)
  <2>1. \A k \in UsedBlocks : size'[k] = size[k]
    BY <1>1, <1>2
  <2>2. QED  BY <1>1, <1>2, <2>1, TotalWith
<1>4. Cardinality(UsedBlocks \cup {i}) = Cardinality(UsedBlocks) + 1
  BY <1>1, <1>2, TotalsAreNat, FS_AddElement
<1>5. SumFunctionOnSet(size', FreeBlocks \ {i}) = Total(FreeBlocks \ {i})
  <2>1. \A k \in FreeBlocks \ {i} : size'[k] = size[k]
    BY <1>1, <1>2
  <2>2. QED  BY <1>2, <2>1, TotalStays
<1>6. Total(FreeBlocks) = size[i] + Total(FreeBlocks \ {i})
  BY <1>2, TotalWithout
<1>7. Total(FreeBlocks \ {i}) \in Nat /\ size[i] \in Nat
  BY <1>1, <1>2, TotalsAreNat, Plain
<1>8. QED  BY <1>1, <1>3, <1>4, <1>5, <1>6, <1>7 DEF Total

\* The three grants are counted right.
LEMMA WholeCounted ==
  ASSUME IInv, Sound, Counted, NEW i \in FreeBlocks, NEW n, GrantedWhole(i, n)
  PROVE  Counted'
<1>1. /\ Granted(i, n) /\ size[i] = n /\ live' = live /\ lost' = lost
      /\ FreeBlocks' = FreeBlocks \ {i} /\ number_of_blocks' = number_of_blocks
      /\ LostBytes' = LostBytes
  BY DEF GrantedWhole, LostBytes
<1>2. FinitelyMany'
  BY <1>1 DEF Counted, FinitelyMany
<1>3. ASSUME memory_start' # NULL
      PROVE  /\ mem_free' = Total(FreeBlocks)' + LostBytes'
             /\ mem_used' = Total(UsedBlocks)'
             /\ mem_free' + mem_used' = ArenaSize
             /\ number_of_blocks' = Cardinality(live')
             /\ number_of_blocks_used' = Cardinality(UsedBlocks')
  <2>1. /\ mem_free = Total(FreeBlocks) + LostBytes /\ mem_used = Total(UsedBlocks)
        /\ mem_free + mem_used = ArenaSize
        /\ number_of_blocks = Cardinality(live)
        /\ number_of_blocks_used = Cardinality(UsedBlocks)
    BY <1>1, <1>3 DEF Counted, Counters, Granted, Total
  <2>2. /\ mem_free' = mem_free - n /\ mem_used' = mem_used + n
        /\ number_of_blocks_used' = number_of_blocks_used + 1
    BY <1>1 DEF Granted
  <2>3. Total(UsedBlocks) \in Nat /\ LostBytes \in Nat
    BY TotalsAreNat DEF Counted
  <2>4. Total(FreeBlocks)' = Total(FreeBlocks \ {i})
    BY <1>1, GrantCounts DEF Total, Counted
  <2>5. /\ Total(FreeBlocks) = n + Total(FreeBlocks \ {i})
        /\ Total(FreeBlocks \ {i}) \in Nat /\ n \in Nat
        /\ Total(UsedBlocks)' = n + Total(UsedBlocks)
        /\ Cardinality(UsedBlocks') = Cardinality(UsedBlocks) + 1
    BY <1>1, GrantCounts DEF Counted
  <2>6. mem_free' = Total(FreeBlocks)' + LostBytes' /\ mem_used' = Total(UsedBlocks)'
        /\ mem_free' + mem_used' = ArenaSize
    <3>1. PICK f \in Nat, u \in Nat, l \in Nat, m \in Nat :
            /\ f = Total(FreeBlocks \ {i}) /\ u = Total(UsedBlocks) /\ l = LostBytes
            /\ m = n
      BY <2>3, <2>5
    <3>2. \A x, y, a \in Int : (x = (m + f) + l /\ y = u /\ x + y = a)
              => (x - m = f + l /\ y + m = m + u /\ (x - m) + (y + m) = a)
      OBVIOUS
    <3>3. mem_free \in Int /\ mem_used \in Int /\ ArenaSize \in Int
      BY ArenaAssumption DEF IInv, TypeOK
    <3>4. QED  BY <1>1, <2>1, <2>2, <2>4, <2>5, <3>1, <3>2, <3>3
  <2>7. QED  BY <1>1, <2>1, <2>2, <2>5, <2>6
<1>4. QED  BY <1>2, <1>3 DEF Counted, Counters, Total

\* A cut: the rest of the block stays free.
LEMMA CutCounted ==
  ASSUME IInv, Sound, Counted, NEW i \in FreeBlocks, NEW j \in Items, NEW n,
         GrantedCut(i, j, n)
  PROVE  Counted'
<1>1. /\ Granted(i, n) /\ size[i] > n /\ live' = live \cup {j} /\ lost' = lost
      /\ j \notin live /\ size'[j] = size[i] - n
      /\ FreeBlocks' = (FreeBlocks \ {i}) \cup {j}
      /\ number_of_blocks' = number_of_blocks + 1
      /\ LostBytes' = LostBytes
  BY DEF GrantedCut, LostBytes
<1>2. FinitelyMany'
  BY <1>1, FS_AddElement DEF Counted, FinitelyMany, Sound
<1>3. ASSUME memory_start' # NULL
      PROVE  /\ mem_free' = Total(FreeBlocks)' + LostBytes'
             /\ mem_used' = Total(UsedBlocks)'
             /\ mem_free' + mem_used' = ArenaSize
             /\ number_of_blocks' = Cardinality(live')
             /\ number_of_blocks_used' = Cardinality(UsedBlocks')
  <2>1. /\ mem_free = Total(FreeBlocks) + LostBytes /\ mem_used = Total(UsedBlocks)
        /\ mem_free + mem_used = ArenaSize
        /\ number_of_blocks = Cardinality(live)
        /\ number_of_blocks_used = Cardinality(UsedBlocks)
    BY <1>1, <1>3 DEF Counted, Counters, Granted, Total
  <2>2. /\ mem_free' = mem_free - n /\ mem_used' = mem_used + n
        /\ number_of_blocks_used' = number_of_blocks_used + 1
    BY <1>1 DEF Granted
  <2>3. /\ Total(UsedBlocks) \in Nat /\ LostBytes \in Nat /\ IsFiniteSet(live)
        /\ FreeBlocks \ {i} \in SUBSET live
    BY TotalsAreNat DEF Counted
  <2>4. /\ Total(FreeBlocks) = size[i] + Total(FreeBlocks \ {i})
        /\ Total(FreeBlocks \ {i}) \in Nat /\ n \in Nat /\ size[i] \in Nat
        /\ Total(UsedBlocks)' = n + Total(UsedBlocks)
        /\ Cardinality(UsedBlocks') = Cardinality(UsedBlocks) + 1
    BY <1>1, GrantCounts DEF Counted
  <2>5. Total(FreeBlocks)' = (size[i] - n) + Total(FreeBlocks \ {i})
    <3>1. \A k \in FreeBlocks \ {i} : size'[k] = size[k]
      BY <1>1, <2>3 DEF Granted
    <3>2. size'[j] \in Nat /\ j \notin FreeBlocks \ {i}
      BY <1>1, <2>3, <2>4
    <3>3. SumFunctionOnSet(size', (FreeBlocks \ {i}) \cup {j})
            = size'[j] + Total(FreeBlocks \ {i})
      BY <2>3, <3>1, <3>2, TotalWith DEF Counted
    <3>4. QED  BY <1>1, <3>3 DEF Total
  <2>6. mem_free' = Total(FreeBlocks)' + LostBytes' /\ mem_used' = Total(UsedBlocks)'
        /\ mem_free' + mem_used' = ArenaSize
    <3>1. PICK f \in Nat, u \in Nat, l \in Nat, m \in Nat, z \in Nat :
            /\ f = Total(FreeBlocks \ {i}) /\ u = Total(UsedBlocks) /\ l = LostBytes
            /\ m = n /\ z = size[i]
      BY <2>3, <2>4
    <3>2. \A x, y, a \in Int : (x = (z + f) + l /\ y = u /\ x + y = a)
              => (x - m = ((z - m) + f) + l /\ y + m = m + u /\ (x - m) + (y + m) = a)
      OBVIOUS
    <3>3. mem_free \in Int /\ mem_used \in Int /\ ArenaSize \in Int
      BY ArenaAssumption DEF IInv, TypeOK
    <3>4. QED  BY <1>1, <2>1, <2>2, <2>4, <2>5, <3>1, <3>2, <3>3
  <2>7. Cardinality(live \cup {j}) = Cardinality(live) + 1
    BY <1>1, <2>3, FS_AddElement
  <2>8. QED  BY <1>1, <2>1, <2>2, <2>4, <2>6, <2>7
<1>4. QED  BY <1>2, <1>3 DEF Counted, Counters, Total

\* No item for the rest: its bytes are lost, and stay counted as free.
LEMMA NobodyCounted ==
  ASSUME IInv, Sound, Counted, NEW i \in FreeBlocks, NEW n,
         GrantedToNobody(i, n)
  PROVE  Counted'
<1> DEFINE rest == [ptr |-> ptr[i] + n, size |-> size[i] - n]
<1>1. /\ Granted(i, n) /\ size[i] > n /\ live' = live /\ lost' = lost \cup {rest}
      /\ FreeBlocks' = FreeBlocks \ {i} /\ number_of_blocks' = number_of_blocks
  BY DEF GrantedToNobody
<1>2. FinitelyMany'
  BY <1>1, FS_AddElement DEF Counted, FinitelyMany
<1>3. rest \notin lost
  <2>1. ArenaFact /\ DisjointFact
    BY Parts
  <2>2. i \in live /\ n \in Nat \ {0} /\ ptr[i] \in Nat /\ size[i] \in Nat
    BY <1>1, Plain DEF Granted
  <2>3. rest.ptr = ptr[i] + n /\ rest.size = size[i] - n
    OBVIOUS
  <2>4. \A s \in lost : ptr[i] + size[i] <= s.ptr \/ s.ptr + s.size <= ptr[i]
    BY <2>1, <2>2 DEF DisjointFact
  <2> HIDE DEF rest
  <2>5. QED  BY <1>1, <2>2, <2>3, <2>4
<1>4. ASSUME memory_start' # NULL
      PROVE  /\ mem_free' = Total(FreeBlocks)' + LostBytes'
             /\ mem_used' = Total(UsedBlocks)'
             /\ mem_free' + mem_used' = ArenaSize
             /\ number_of_blocks' = Cardinality(live')
             /\ number_of_blocks_used' = Cardinality(UsedBlocks')
  <2>1. /\ mem_free = Total(FreeBlocks) + LostBytes /\ mem_used = Total(UsedBlocks)
        /\ mem_free + mem_used = ArenaSize
        /\ number_of_blocks = Cardinality(live)
        /\ number_of_blocks_used = Cardinality(UsedBlocks)
    BY <1>1, <1>4 DEF Counted, Counters, Granted, Total
  <2>2. /\ mem_free' = mem_free - n /\ mem_used' = mem_used + n
        /\ number_of_blocks_used' = number_of_blocks_used + 1
    BY <1>1 DEF Granted
  <2>3. /\ Total(UsedBlocks) \in Nat /\ LostBytes \in Nat /\ IsFiniteSet(lost)
    BY TotalsAreNat DEF Counted
  <2>4. /\ Total(FreeBlocks) = size[i] + Total(FreeBlocks \ {i})
        /\ Total(FreeBlocks \ {i}) \in Nat /\ n \in Nat /\ size[i] \in Nat
        /\ Total(UsedBlocks)' = n + Total(UsedBlocks)
        /\ Cardinality(UsedBlocks') = Cardinality(UsedBlocks) + 1
        /\ Total(FreeBlocks)' = Total(FreeBlocks \ {i})
    BY <1>1, GrantCounts DEF Counted, Total
  <2>5. LostBytes' = (size[i] - n) + LostBytes
    <3> DEFINE w == [s \in lost |-> s.size]
               v == [s \in lost \cup {rest} |-> s.size]
    <3>1. \A s \in lost : s.size \in Nat
      <4>1. ArenaFact /\ lost \subseteq [ptr : Int, size : Int]
        BY Parts DEF IInv, TypeOK
      <4>2. QED  BY <4>1 DEF ArenaFact
    <3>2. rest.size = size[i] - n /\ size[i] - n \in Nat
      BY <1>1, <2>4
    <3>3. \A s \in lost \cup {rest} : v[s] \in Nat
      BY <3>1, <3>2
    <3>4. \A s \in lost : w[s] \in Nat /\ v[s] = w[s]
      BY <3>1
    <3>5. v[rest] = size[i] - n
      BY <3>2
    <3> HIDE DEF v, w, rest
    <3>6. SumFunctionOnSet(v, lost \cup {rest}) = v[rest] + SumFunctionOnSet(v, lost)
      BY <1>3, <2>3, <3>3, SumWith
    <3>7. SumFunctionOnSet(v, lost) = SumFunctionOnSet(w, lost)
      BY <2>3, <3>4, SumSame
    <3>8. LostBytes = SumFunctionOnSet(w, lost)
      BY DEF LostBytes, w
    <3>9. LostBytes' = SumFunctionOnSet(v, lost \cup {rest})
      BY <1>1 DEF LostBytes, v
    <3>10. QED  BY <3>5, <3>6, <3>7, <3>8, <3>9
  <2>6. mem_free' = Total(FreeBlocks)' + LostBytes' /\ mem_used' = Total(UsedBlocks)'
        /\ mem_free' + mem_used' = ArenaSize
    <3>1. PICK f \in Nat, u \in Nat, l \in Nat, m \in Nat, z \in Nat :
            /\ f = Total(FreeBlocks \ {i}) /\ u = Total(UsedBlocks) /\ l = LostBytes
            /\ m = n /\ z = size[i]
      BY <2>3, <2>4
    <3>2. \A x, y, a \in Int : (x = (z + f) + l /\ y = u /\ x + y = a)
              => (x - m = f + ((z - m) + l) /\ y + m = m + u /\ (x - m) + (y + m) = a)
      OBVIOUS
    <3>3. mem_free \in Int /\ mem_used \in Int /\ ArenaSize \in Int
      BY ArenaAssumption DEF IInv, TypeOK
    <3>4. QED  BY <1>1, <2>1, <2>2, <2>4, <2>5, <3>1, <3>2, <3>3
  <2>7. QED  BY <1>1, <2>1, <2>2, <2>4, <2>6
<1>5. QED  BY <1>2, <1>4 DEF Counted, Counters, Total

\* A freed block counts as free again.
LEMMA FreeCounted ==
  ASSUME IInv, Sound, Counted, NEW i \in UsedBlocks, Freed(i)
  PROVE  Counted'
<1>1. /\ FreeBlocks' = FreeBlocks \cup {i} /\ UsedBlocks' = UsedBlocks \ {i}
      /\ number_of_blocks_used' = number_of_blocks_used - 1
      /\ mem_free' = mem_free + size[i] /\ mem_used' = mem_used - size[i]
      /\ UNCHANGED <<live, size, number_of_blocks, memory_start, lost>>
      /\ LostBytes' = LostBytes
      /\ i \notin FreeBlocks
  BY DEF Freed, LostBytes, FreeBlocks
<1>2. FinitelyMany'
  BY <1>1 DEF Counted, FinitelyMany
<1>3. /\ UsedBlocks \in SUBSET live /\ FreeBlocks \in SUBSET live /\ i \in live
      /\ UsedBlocks \ {i} \in SUBSET live
      /\ Total(FreeBlocks) \in Nat /\ LostBytes \in Nat
      /\ Total(UsedBlocks \ {i}) \in Nat /\ size[i] \in Nat
  BY TotalsAreNat, Plain DEF Counted
<1>4. Total(FreeBlocks \cup {i}) = size[i] + Total(FreeBlocks)
  <2>1. \A m \in FreeBlocks : size'[m] = size[m]
    BY <1>1
  <2>2. SumFunctionOnSet(size', FreeBlocks \cup {i}) = size'[i] + Total(FreeBlocks)
    BY <1>1, <1>3, <2>1, TotalWith DEF Counted
  <2>3. QED  BY <1>1, <2>2 DEF Total
<1>5. Total(UsedBlocks) = size[i] + Total(UsedBlocks \ {i})
  BY <1>3, TotalWithout DEF Counted
<1>6. Cardinality(UsedBlocks \ {i}) = Cardinality(UsedBlocks) - 1
  BY <1>3, TotalsAreNat, FS_RemoveElement DEF Counted
<1>7. ASSUME memory_start' # NULL
      PROVE  /\ mem_free' = Total(FreeBlocks \cup {i}) + LostBytes
             /\ mem_used' = Total(UsedBlocks \ {i})
             /\ mem_free' + mem_used' = ArenaSize
             /\ number_of_blocks' = Cardinality(live')
             /\ number_of_blocks_used' = Cardinality(UsedBlocks')
  <2>1. /\ mem_free = Total(FreeBlocks) + LostBytes /\ mem_used = Total(UsedBlocks)
        /\ mem_free + mem_used = ArenaSize
        /\ number_of_blocks = Cardinality(live)
        /\ number_of_blocks_used = Cardinality(UsedBlocks)
    BY <1>1, <1>7 DEF Counted, Counters, Total
  <2>2. PICK f \in Nat, u \in Nat, l \in Nat, z \in Nat :
          /\ f = Total(FreeBlocks) /\ u = Total(UsedBlocks \ {i}) /\ l = LostBytes
          /\ z = size[i]
    BY <1>3
  <2>3. \A x, y, a \in Int : (x = f + l /\ y = z + u /\ x + y = a)
            => (x + z = (z + f) + l /\ y - z = u /\ (x + z) + (y - z) = a)
    OBVIOUS
  <2>4. mem_free \in Int /\ mem_used \in Int /\ ArenaSize \in Int
    BY ArenaAssumption DEF IInv, TypeOK
  <2>5. /\ mem_free' = Total(FreeBlocks \cup {i}) + LostBytes
        /\ mem_used' = Total(UsedBlocks \ {i})
        /\ mem_free' + mem_used' = ArenaSize
    BY <1>1, <1>4, <1>5, <2>1, <2>2, <2>3, <2>4
  <2>6. QED  BY <1>1, <1>6, <2>1, <2>5
<1>8. QED  BY <1>1, <1>2, <1>7 DEF Counted, Counters, Total

\* Two free blocks joined are as large as the two.
LEMMA JoinedCounted ==
  ASSUME IInv, Sound, Counted, NEW c \in FreeBlocks, NEW g \in FreeBlocks, Joined(c, g)
  PROVE  Counted'
<1>1. /\ c # g /\ live' = live \ {g} /\ FreeBlocks' = FreeBlocks \ {g}
      /\ UsedBlocks' = UsedBlocks
      /\ size'[c] = size[c] + size[g]
      /\ \A k \in live \ {c, g} : size'[k] = size[k]
      /\ number_of_blocks' = number_of_blocks - 1
      /\ UNCHANGED <<mem_free, mem_used, number_of_blocks_used, memory_start, lost>>
      /\ LostBytes' = LostBytes
  BY DEF Joined, LostBytes
<1>2. FinitelyMany'
  BY <1>1, FS_RemoveElement DEF Counted, FinitelyMany, Sound
<1> DEFINE others == FreeBlocks \ {c, g}
<1>3. /\ UsedBlocks \in SUBSET live /\ FreeBlocks \in SUBSET live
      /\ FreeBlocks \ {g} \in SUBSET live /\ others \in SUBSET live
      /\ c \in live /\ g \in live /\ size[c] \in Nat /\ size[g] \in Nat
      /\ Total(others) \in Nat
  BY TotalsAreNat, Plain DEF Counted
<1>4. Total(FreeBlocks) = size[g] + (size[c] + Total(others))
  <2>1. Total(FreeBlocks) = size[g] + Total(FreeBlocks \ {g})
    BY <1>3, TotalWithout DEF Counted
  <2>2. Total(FreeBlocks \ {g}) = size[c] + Total((FreeBlocks \ {g}) \ {c})
    BY <1>1, <1>3, TotalWithout DEF Counted
  <2>3. (FreeBlocks \ {g}) \ {c} = others
    OBVIOUS
  <2>4. QED  BY <2>1, <2>2, <2>3
<1>5. Total(FreeBlocks)' = (size[c] + size[g]) + Total(others)
  <2>1. \A m \in others : size'[m] = size[m]
    BY <1>1, <1>3
  <2>2. c \notin others /\ size'[c] \in Nat
    BY <1>1, <1>3
  <2>3. FreeBlocks' = others \cup {c}
    BY <1>1
  <2> HIDE DEF others
  <2>4. SumFunctionOnSet(size', others \cup {c}) = size'[c] + Total(others)
    BY <1>3, <2>1, <2>2, TotalWith DEF Counted
  <2>5. QED  BY <1>1, <2>3, <2>4 DEF Total
<1>6. Total(FreeBlocks)' = Total(FreeBlocks)
  <2>1. PICK x \in Nat, y \in Nat, z \in Nat :
          x = size[c] /\ y = size[g] /\ z = Total(others)
    BY <1>3
  <2>2. (x + y) + z = y + (x + z)
    OBVIOUS
  <2>3. QED  BY <1>4, <1>5, <2>1, <2>2
<1>7. Total(UsedBlocks)' = Total(UsedBlocks)
  <2>1. \A k \in UsedBlocks : size'[k] = size[k]
    <3>1. c \notin UsedBlocks /\ g \notin UsedBlocks
      BY DEF FreeBlocks
    <3>2. QED  BY <1>1, <1>3, <3>1
  <2>2. QED  BY <1>1, <1>3, <2>1, TotalStays DEF Total, Counted
<1>8. Cardinality(live \ {g}) = Cardinality(live) - 1
  BY <1>3, TotalsAreNat, FS_RemoveElement DEF Counted
<1>9. QED
  BY <1>1, <1>2, <1>6, <1>7, <1>8 DEF Counted, Counters, Total, Sound

\* Where no block changes, no count does.
LEMMA PassedCounted ==
  ASSUME Sound, Counted, Passed
  PROVE  Counted'
<1>1. /\ UNCHANGED <<live, size, used, lost, memory_start, counters>>
      /\ FreeBlocks' = FreeBlocks /\ UsedBlocks' = UsedBlocks
      /\ LostBytes' = LostBytes
  BY DEF Passed, BlocksStay, FreeBlocks, UsedBlocks, LostBytes
<1>2. QED  BY <1>1 DEF Counted, Counters, FinitelyMany, Sound, counters

\* Every step counts what it does.
LEMMA CountedStep == IInv /\ Counted /\ [Next]_vars => Counted'
<1> SUFFICES ASSUME IInv, Counted, [Next]_vars, Sound'
             PROVE  Counted'
  BY DEF Counted, Counters, FinitelyMany
<1>1. CASE \E n \in Requests : pc = "idle" /\ MallocEffects(n) /\ (Refused(n) => Passed)
  <2>1. PICK n \in Requests : pc = "idle" /\ MallocEffects(n) /\ (Refused(n) => Passed)
    BY <1>1
  <2>2. Sound /\ ~Overrun(n)
    BY <2>1 DEF Sound, Overrun
  <2>3. QED
    BY <2>1, <2>2, WholeCounted, CutCounted, NobodyCounted, PassedCounted
    DEF MallocEffects
<1>2. CASE Passed
  <2>1. Sound
    BY <1>2 DEF Passed, Sound
  <2>2. QED  BY <1>2, <2>1, PassedCounted
<1>3. CASE Closes
  <2>1. live' = {} /\ lost' = {} /\ memory_start' = NULL
    BY <1>3 DEF Closes
  <2>2. QED  BY <2>1, FS_EmptySet DEF Counted, Counters, FinitelyMany
<1>4. CASE pc \in {"idle", "free_old"} /\ \E i \in UsedBlocks : Freed(i)
  BY <1>4, FreeCounted DEF Sound
<1>5. CASE \E c, g \in FreeBlocks : JoinedPrevious(c, g)
  BY <1>5, JoinedCounted DEF JoinedPrevious, Sound
<1>6. CASE \E c, g \in FreeBlocks : JoinedNext(c, g)
  BY <1>6, JoinedCounted DEF JoinedNext, Sound
<1>7. QED  BY <1>1, <1>2, <1>3, <1>4, <1>5, <1>6, Effects

\* init_ana_memory counts its one block.
LEMMA CountedInit == Init => Counted
<1> SUFFICES ASSUME Init PROVE Counted
  OBVIOUS
<1>1. live = {Item0} /\ UsedBlocks = {} /\ FreeBlocks = {Item0} /\ lost = {}
  BY ItemsAssumption DEF Init, FreeBlocks, UsedBlocks, Item0
<1>2. Item0 \in Items /\ size[Item0] = ArenaSize /\ ArenaSize \in Nat
  BY ItemsAssumption, ArenaAssumption DEF Init, Item0
<1>3. Cardinality({Item0}) = 1 /\ IsFiniteSet({Item0})
  BY FS_Singleton
<1>4. Cardinality({}) = 0 /\ IsFiniteSet({})
  BY FS_EmptySet
<1>5. Total({}) = 0 /\ LostBytes = 0
  BY <1>1, SumEmpty DEF Total, LostBytes
<1>6. Total({Item0}) = ArenaSize
  <2>1. SumFunctionOnSet(size, {} \cup {Item0})
          = size[Item0] + SumFunctionOnSet(size, {})
    BY <1>2, <1>4, SumWith
  <2>2. {} \cup {Item0} = {Item0}
    OBVIOUS
  <2>3. QED  BY <1>2, <1>5, <2>1, <2>2 DEF Total
<1>7. mem_free = ArenaSize /\ mem_used = 0 /\ number_of_blocks = 1
      /\ number_of_blocks_used = 0
  BY DEF Init
<1>8. QED
  BY <1>1, <1>2, <1>3, <1>4, <1>5, <1>6, <1>7 DEF Counted, Counters, FinitelyMany, Total

\* mem_free, mem_used, number_of_blocks and number_of_blocks_used are what the
\* blocks add up to, through every cut, merge and lost rest.
THEOREM CountsAddUp == Spec => []Counters
<1>1. Counted => Counters
  BY DEF Counted
<1>2. QED  BY <1>1, CountedInit, CountedStep, Invariant, PTL DEF Spec

-----------------------------------------------------------------------------
(***************************************************************************)
(* The promise                                                             *)
(***************************************************************************)

\* What the arena promises about, in plain arithmetic.
LEMMA RoomIs ==
  ASSUME IInv, Sound, NEW n \in Nat \ {0}, NEW a
  PROVE  a \in Promise!Room(n) <=>
           /\ a \in 1 .. (ArenaSize - n + 1) /\ memory_start # NULL
           /\ \A i \in UsedBlocks : a + n <= ptr[i] \/ ptr[i] + size[i] <= a
           /\ \A s \in lost : a + n <= s.ptr \/ s.ptr + s.size <= a
<1>1. \A i : Stretch(i).ptr = ptr[i] /\ Stretch(i).size = size[i]
  BY DEF Stretch
<1>2. \A x : [ptr |-> x, size |-> n].ptr = x /\ [ptr |-> x, size |-> n].size = n
  OBVIOUS
<1>3. QED  BY <1>1, <1>2 DEF Promise!Room, Promise!Disjoint, Held

\* The whole of a free block, and so any part of it, is room.
LEMMA FreeIsRoom ==
  ASSUME IInv, Sound, NEW i \in FreeBlocks, NEW n \in Nat \ {0}, n <= size[i]
  PROVE  ptr[i] \in Promise!Room(n)
<1>1. /\ ArenaFact /\ DisjointFact /\ i \in live /\ live # {}
      /\ ptr[i] \in Nat /\ size[i] \in Nat /\ i \notin UsedBlocks
      /\ UsedBlocks \subseteq live
      /\ \A k \in live : ptr[k] \in Nat /\ size[k] \in Nat
  BY Parts, Plain DEF FreeBlocks, UsedBlocks
<1>2. memory_start # NULL
  BY <1>1 DEF IInv, Closed
<1>3. ptr[i] \in 1 .. (ArenaSize - n + 1)
  BY <1>1, ArenaAssumption DEF ArenaFact
<1>4. \A k \in UsedBlocks : ptr[i] + n <= ptr[k] \/ ptr[k] + size[k] <= ptr[i]
  BY <1>1 DEF DisjointFact
<1>5. \A s \in lost : ptr[i] + n <= s.ptr \/ s.ptr + s.size <= ptr[i]
  <2>1. lost \subseteq [ptr : Int, size : Int]
    BY DEF IInv, TypeOK
  <2>2. QED  BY <1>1, <2>1 DEF DisjointFact
<1>6. QED  BY <1>2, <1>3, <1>4, <1>5, RoomIs

\* Where there is room between calls, it is in one free block: were it in two,
\* these would be neighbours.
LEMMA RoomIsInOneBlock ==
  ASSUME IInv, Sound, pc = "idle", LeftToMerge, NEW n \in Nat \ {0},
         NEW a \in Promise!Room(n)
  PROVE  \E i \in FreeBlocks : size[i] >= n
<1>1. /\ a \in 1 .. (ArenaSize - n + 1) /\ memory_start # NULL
      /\ \A i \in UsedBlocks : a + n <= ptr[i] \/ ptr[i] + size[i] <= a
      /\ \A s \in lost : a + n <= s.ptr \/ s.ptr + s.size <= a
  BY RoomIs
<1>2. CoverFact /\ lost \subseteq [ptr : Int, size : Int]
  BY <1>1, Parts DEF IInv, TypeOK
<1>3. ArenaSize \in Nat /\ a \in Nat /\ a >= 1 /\ a + n <= ArenaSize + 1
  BY <1>1, ArenaAssumption
<1>4. ASSUME NEW e \in 1 .. ArenaSize, a <= e, e < a + n
      PROVE  \E i \in FreeBlocks : ptr[i] <= e /\ e < ptr[i] + size[i]
  <2>1. ~ \E s \in lost : s.ptr <= e /\ e < s.ptr + s.size
    BY <1>1, <1>2, <1>3, <1>4
  <2>2. PICK i \in live : ptr[i] <= e /\ e < ptr[i] + size[i]
    BY <1>2, <2>1 DEF CoverFact
  <2>3. i \notin UsedBlocks
    BY <1>1, <1>3, <1>4, <2>2, Plain
  <2>4. QED  BY <2>2, <2>3 DEF FreeBlocks
<1>5. PICK i \in FreeBlocks : ptr[i] <= a /\ a < ptr[i] + size[i]
  BY <1>3, <1>4
<1>6. i \in live /\ ptr[i] \in Nat /\ size[i] \in Nat
  BY Plain
<1>7. ptr[i] + size[i] >= a + n
  <2>1. SUFFICES ASSUME ptr[i] + size[i] < a + n
                 PROVE  FALSE
    BY <1>3, <1>6
  <2>2. PICK k \in FreeBlocks :
          ptr[k] <= ptr[i] + size[i] /\ ptr[i] + size[i] < ptr[k] + size[k]
    BY <1>3, <1>4, <1>5, <1>6, <2>1
  <2>3. k \in live /\ ptr[k] \in Nat /\ size[k] \in Nat /\ size[i] >= 1
    BY <1>6, Plain
  <2>4. k # i
    BY <1>6, <2>2
  <2>5. ptr[i] + size[i] <= ptr[k] \/ ptr[k] + size[k] <= ptr[i]
    BY <1>6, <2>3, <2>4, Plain
  <2>6. ptr[i] + size[i] = ptr[k]
    BY <1>6, <2>2, <2>3, <2>5
  <2>7. QED  BY <2>6 DEF LeftToMerge, Adjacent
<1>8. size[i] >= n
  BY <1>3, <1>5, <1>6, <1>7
<1>9. QED  BY <1>8

\* A free block that is large enough is found.
LEMMA LargeEnoughIsFound ==
  ASSUME IInv, Sound, NEW n \in Nat \ {0}, NEW i \in FreeBlocks, size[i] >= n
  PROVE  Found(n) /\ (n >= ANASIZEHASH => FirstFit(n) # 0)
<1>1. /\ size_list \in [0 .. Top -> Seq(Items)]
      /\ \A a \in 0 .. Top : Range(size_list[a]) = {k \in FreeBlocks : Bucket(size[k]) = a}
      /\ size[i] \in Nat
  BY Parts, Plain DEF Listed
<1>2. /\ Bucket(n) \in 0 .. Top /\ Bucket(size[i]) \in 0 .. Top
      /\ Bucket(n) <= Bucket(size[i])
      /\ n >= ANASIZEHASH => Bucket(size[i]) = Bucket(n)
  <2>1. ANASIZEHASH \in Nat \ {0}
    BY HashAssumption
  <2>2. QED  BY <1>1, <2>1, BucketType DEF Bucket, Top
<1>3. i \in Range(size_list[Bucket(size[i])])
  BY <1>1, <1>2
<1>4. Found(n)
  <2>1. size_list[Bucket(size[i])] # <<>>
    BY <1>3 DEF Range
  <2>2. Bucket(size[i]) \in Bucket(n) .. Top
    BY <1>2
  <2>3. Bucket(size[i]) \in NonEmpty(n)
    BY <2>1, <2>2 DEF NonEmpty
  <2>4. QED  BY <2>3 DEF Found
<1>5. ASSUME n >= ANASIZEHASH
      PROVE  FirstFit(n) # 0
  <2> DEFINE q == size_list[Bucket(n)]
             T == {k \in 1 .. Len(q) : size[q[k]] >= n}
  <2>1. q \in Seq(Items) /\ i \in Range(q)
    BY <1>1, <1>2, <1>3, <1>5
  <2>2. PICK k \in 1 .. Len(q) : q[k] = i
    BY <2>1 DEF Range
  <2>3. T # {} /\ T \in SUBSET Nat
    BY <2>2
  <2>4. FirstFit(n) = Min(T)
    BY <2>3 DEF FirstFit, SelectInSeq
  <2>5. Min(T) \in T
    BY <2>3, MinIsLeast
  <2>6. QED  BY <2>4, <2>5
<1>6. QED  BY <1>4, <1>5

\* A block that is too small is taken only for a large request that no block
\* is large enough for.
LEMMA ShortIsLarge ==
  ASSUME IInv, Sound, NEW n \in Nat \ {0}, Found(n), size[Taken(n)] < n
  PROVE  n >= ANASIZEHASH /\ FirstFit(n) = 0
<1> DEFINE q == size_list[Bucket(n)]
           T == {k \in 1 .. Len(q) : size[q[k]] >= n}
<1>1. /\ size_list \in [0 .. Top -> Seq(Items)]
      /\ \A a \in 0 .. Top : Range(size_list[a]) = {k \in FreeBlocks : Bucket(size[k]) = a}
      /\ ANASIZEHASH \in Nat \ {0} /\ Bucket(n) \in 0 .. Top
  BY Parts, BucketType, HashAssumption DEF Listed
<1>2. size[Taken(n)] \in Nat /\ Taken(n) \in FreeBlocks
  BY TakenIsFree, Plain
<1>3. FirstFit(n) = 0
  <2>1. SUFFICES ASSUME FirstFit(n) # 0
                 PROVE  FALSE
    OBVIOUS
  <2>2. T # {} /\ T \in SUBSET Nat /\ FirstFit(n) = Min(T)
    BY <2>1 DEF FirstFit, SelectInSeq
  <2>3. FirstFit(n) \in T
    BY <2>2, MinIsLeast
  <2>4. Taken(n) = q[FirstFit(n)]
    BY <2>1 DEF Taken
  <2>5. size[Taken(n)] >= n
    BY <2>3, <2>4
  <2>6. QED  BY <1>2, <2>5
<1>4. PICK a : a = Min(NonEmpty(n))
  OBVIOUS
<1>5. a \in NonEmpty(n)
  <2>1. NonEmpty(n) # {} /\ NonEmpty(n) \in SUBSET Nat
    BY <1>1, <1>3 DEF Found, NonEmpty, Top
  <2>2. QED  BY <1>4, <2>1, MinIsLeast
<1>6. a \in Bucket(n) .. Top /\ a \in 0 .. Top /\ size_list[a] # <<>>
  BY <1>1, <1>5 DEF NonEmpty, Top
<1>7. Head(size_list[a]) \in Range(size_list[a])
  <2>1. size_list[a] \in Seq(Items) /\ Len(size_list[a]) \in Nat \ {0}
    BY <1>1, <1>6, EmptySeq
  <2>2. Head(size_list[a]) = size_list[a][1] /\ 1 \in DOMAIN size_list[a]
    BY <2>1
  <2>3. QED  BY <2>2 DEF Range
<1>8. Bucket(size[Taken(n)]) = a
  BY <1>1, <1>3, <1>4, <1>6, <1>7 DEF Taken
<1>9. n >= ANASIZEHASH
  <2>1. SUFFICES ASSUME n < ANASIZEHASH
                 PROVE  FALSE
    BY <1>1
  <2>2. Bucket(n) = n
    BY <1>1, <2>1 DEF Bucket
  <2>3. n <= a /\ a \in Nat
    BY <1>1, <1>6, <2>2 DEF Top
  <2>4. a <= size[Taken(n)]
    BY <1>1, <1>2, <1>8 DEF Bucket, Top
  <2>5. QED  BY <1>2, <2>3, <2>4
<1>10. QED  BY <1>3, <1>9

\* The two stay what they were in a step that neither closes nor overruns.
Goes == /\ (memory_start # NULL)' = (memory_start # NULL)
        /\ (pc = "undefined")' = (pc = "undefined")

\* Blocks that are not touched are held as before.
LEMMA HeldAfter ==
  ASSUME NEW U, \A k \in U : ptr'[k] = ptr[k] /\ size'[k] = size[k]
  PROVE  {Stretch(k)' : k \in U} = {Stretch(k) : k \in U}
BY DEF Stretch

\* What is held once a block is granted.
LEMMA HeldGrant ==
  ASSUME IInv, Sound, NEW i \in FreeBlocks, NEW n, Granted(i, n)
  PROVE  /\ Held' = {Stretch(k) : k \in UsedBlocks} \cup {[ptr |-> ptr[i], size |-> n]}
                      \cup lost'
         /\ Goes /\ pc' # "undefined" /\ n <= size[i] /\ n \in Nat \ {0}
<1>1. /\ UsedBlocks' = UsedBlocks \cup {i} /\ ptr'[i] = ptr[i] /\ size'[i] = n
      /\ \A k \in live \ {i} : ptr'[k] = ptr[k] /\ size'[k] = size[k]
      /\ pc' \in {"idle", "free_old"} /\ memory_start' = memory_start
      /\ n \in Nat \ {0} /\ size[i] >= n /\ i \in live /\ size[i] \in Nat
  BY Plain DEF Granted
<1>2. \A k \in UsedBlocks : ptr'[k] = ptr[k] /\ size'[k] = size[k]
  BY <1>1 DEF UsedBlocks, FreeBlocks
<1>3. {Stretch(k)' : k \in UsedBlocks} = {Stretch(k) : k \in UsedBlocks}
  BY <1>2, HeldAfter
<1>4. Stretch(i)' = [ptr |-> ptr[i], size |-> n]
  BY <1>1 DEF Stretch
<1>5. {Stretch(k) : k \in UsedBlocks}'
        = {Stretch(k) : k \in UsedBlocks} \cup {[ptr |-> ptr[i], size |-> n]}
  BY <1>1, <1>3, <1>4
<1>6. Goes /\ pc' # "undefined"
  BY <1>1 DEF Goes, Sound
<1>7. n <= size[i]
  BY <1>1
<1>8. QED  BY <1>1, <1>5, <1>6, <1>7 DEF Held

\* A block handed out is a grant of room.
LEMMA GrantRefines ==
  ASSUME IInv, Sound, NEW i \in FreeBlocks, NEW n \in Requests, Granted(i, n),
         lost' = lost, reply' = [asked |-> n, ptr |-> ptr[i]]
  PROVE  Promise!Next
<1>1. ptr[i] \in Promise!Room(n)
  BY HeldGrant, FreeIsRoom
<1>2. Held' = Held \cup {[ptr |-> ptr[i], size |-> n]}
  BY HeldGrant DEF Held
<1>3. Promise!Grant(n)
  BY <1>1, <1>2, HeldGrant DEF Promise!Grant, Goes
<1>4. QED  BY <1>3 DEF Promise!Next, Sound

\* A block kept back, with its lost rest, was room for both.
LEMMA NobodyRefines ==
  ASSUME IInv, Sound, NEW i \in FreeBlocks, NEW n \in Requests, GrantedToNobody(i, n)
  PROVE  Promise!Next
<1>1. /\ Granted(i, n) /\ size[i] > n /\ reply' = [asked |-> n, ptr |-> 0]
      /\ lost' = lost \cup {[ptr |-> ptr[i] + n, size |-> size[i] - n]}
  BY DEF GrantedToNobody, NULL
<1>2. /\ n \in Nat \ {0} /\ size[i] \in Nat /\ ptr[i] \in Nat /\ ptr[i] >= 1
      /\ ptr[i] + size[i] <= ArenaSize + 1
  BY <1>1, Plain, Parts DEF Granted, ArenaFact
<1>3. size[i] \in n + 1 .. ArenaSize
  BY <1>1, <1>2, ArenaAssumption
<1>4. ptr[i] \in Promise!Room(size[i])
  BY <1>1, <1>2, FreeIsRoom
<1>5. Held' = Held \cup {[ptr |-> ptr[i], size |-> n],
                        [ptr |-> ptr[i] + n, size |-> size[i] - n]}
  BY <1>1, HeldGrant DEF Held
<1>6. Promise!Lose(n)
  BY <1>1, <1>3, <1>4, <1>5, HeldGrant DEF Promise!Lose, Goes
<1>7. QED  BY <1>6 DEF Promise!Next, Sound

\* A refusal is honest.
LEMMA RefuseRefines ==
  ASSUME IInv, Sound, LeftToMerge, NEW n \in Requests, Refused(n), Passed
  PROVE  Promise!Next
<1>1. n \in Nat \ {0}
  BY RequestsAssumption
<1>2. pc = "idle" /\ ~Found(n) /\ reply' = [asked |-> n, ptr |-> 0]
  BY DEF Refused, NULL
<1>3. Promise!Room(n) = {}
  BY <1>1, <1>2, RoomIsInOneBlock, LargeEnoughIsFound
<1>4. Held' = Held /\ Goes
  BY <1>2 DEF Passed, BlocksStay, Held, UsedBlocks, Stretch, Goes
<1>5. Promise!Refuse(n)
  BY <1>2, <1>3, <1>4 DEF Promise!Refuse, Goes
<1>6. QED  BY <1>5 DEF Promise!Next, Sound

\* The one way out: a request of more than the small sizes, and no room.
LEMMA OverrunRefines ==
  ASSUME IInv, Sound, LeftToMerge, NEW n \in Requests, Overrun(n)
  PROVE  Promise!Next
<1>1. n \in Nat \ {0}
  BY RequestsAssumption
<1>2. /\ pc = "idle" /\ Found(n) /\ size[Taken(n)] < n /\ pc' = "undefined"
      /\ memory_start' = memory_start
  BY DEF Overrun
<1>3. n >= ANASIZEHASH /\ FirstFit(n) = 0
  BY <1>1, <1>2, ShortIsLarge
<1>4. n > Top
  BY <1>1, <1>3, HashAssumption DEF Top
<1>5. Promise!Room(n) = {}
  BY <1>1, <1>2, <1>3, RoomIsInOneBlock, LargeEnoughIsFound
<1>6. Promise!Overrun(n)
  BY <1>2, <1>4, <1>5 DEF Promise!Overrun
<1>7. QED  BY <1>6 DEF Promise!Next, Sound

\* A freed block was held by one caller only: the rest stays held.
LEMMA FreeRefines ==
  ASSUME IInv, Sound, NEW i \in UsedBlocks, Freed(i)
  PROVE  Promise!Next
<1>1. /\ UsedBlocks' = UsedBlocks \ {i} /\ pc' = "reclaim_prev"
      /\ reply' \in {NoReply, reply}
      /\ UNCHANGED <<live, ptr, size, memory_start, lost>>
  BY DEF Freed
<1>2. \A k : Stretch(k)' = Stretch(k)
  BY <1>1 DEF Stretch
<1>3. /\ DisjointFact /\ i \in live /\ UsedBlocks \subseteq live
      /\ \A k \in live : ptr[k] \in Nat /\ size[k] \in Nat /\ size[k] >= 1
      /\ lost \subseteq [ptr : Int, size : Int]
  BY Parts, Plain DEF UsedBlocks, IInv, TypeOK
<1>4. \A k \in UsedBlocks \ {i} : Stretch(k) # Stretch(i)
  <2>1. \A k \in UsedBlocks \ {i} : ptr[k] # ptr[i]
    BY <1>3 DEF DisjointFact
  <2>2. QED  BY <2>1 DEF Stretch
<1>5. Stretch(i) \notin lost
  <2>1. \A s \in lost : s.ptr # ptr[i] \/ s.size # size[i]
    BY <1>3 DEF DisjointFact
  <2>2. Stretch(i).ptr = ptr[i] /\ Stretch(i).size = size[i]
    BY DEF Stretch
  <2>3. QED  BY <2>1, <2>2
<1>6. Held' = Held \ {Stretch(i)} /\ Stretch(i) \in Held
  <2>1. Held' = {Stretch(k) : k \in UsedBlocks \ {i}} \cup lost
    BY <1>1, <1>2 DEF Held
  <2>2. QED  BY <1>4, <1>5, <2>1 DEF Held
<1>7. Goes
  BY <1>1 DEF Goes, Sound
<1>8. reply' \in {Promise!NoReply, reply}
  BY <1>1 DEF Promise!NoReply, NoReply, NULL
<1>9. Promise!Release
  BY <1>6, <1>7, <1>8 DEF Promise!Release, Goes
<1>10. QED  BY <1>9 DEF Promise!Next, Sound

\* Joining free blocks is nothing that a caller can see.
LEMMA JoinedRefines ==
  ASSUME IInv, Sound, NEW c \in FreeBlocks, NEW g \in FreeBlocks, Joined(c, g)
  PROVE  UNCHANGED Promise!vars
<1>1. /\ UsedBlocks' = UsedBlocks
      /\ \A k \in live \ {c, g} : ptr'[k] = ptr[k] /\ size'[k] = size[k]
      /\ UNCHANGED <<memory_start, lost, reply, pc>>
  BY DEF Joined
<1>2. \A k \in UsedBlocks : ptr'[k] = ptr[k] /\ size'[k] = size[k]
  BY <1>1 DEF UsedBlocks, FreeBlocks
<1>3. {Stretch(k)' : k \in UsedBlocks} = {Stretch(k) : k \in UsedBlocks}
  BY <1>2, HeldAfter
<1>4. Held' = Held
  BY <1>1, <1>3 DEF Held
<1>5. QED  BY <1>1, <1>4 DEF Promise!vars

\* Every step is one of the promise, or changes nothing that it is about.
LEMMA NextRefines ==
  ASSUME IInv, LeftToMerge, [Next]_vars
  PROVE  [Promise!Next]_(Promise!vars)
<1>1. CASE \E n \in Requests : pc = "idle" /\ MallocEffects(n) /\ (Refused(n) => Passed)
  <2>1. PICK n \in Requests : pc = "idle" /\ MallocEffects(n) /\ (Refused(n) => Passed)
    BY <1>1
  <2>2. Sound
    BY <2>1 DEF Sound
  <2>3. Promise!Next
    BY <2>1, <2>2, GrantRefines, NobodyRefines, RefuseRefines, OverrunRefines
    DEF MallocEffects, GrantedWhole, GrantedCut
  <2>4. QED  BY <2>3
<1>2. CASE Passed /\ (pc = "idle" => pc' = "idle" /\ reply' = reply)
  <2>1. reply' = reply /\ Held' = Held /\ memory_start' = memory_start
    BY <1>2 DEF Passed, BlocksStay, Held, UsedBlocks, Stretch
  <2>2. (pc = "undefined")' = (pc = "undefined")
    BY <1>2 DEF Passed
  <2>3. QED  BY <2>1, <2>2 DEF Promise!vars
<1>3. CASE Closes
  <2>1. /\ Held' = {} /\ (memory_start # NULL)' = FALSE
        /\ pc # "undefined" /\ pc' # "undefined"
        /\ reply' = Promise!NoReply
    BY <1>3 DEF Closes, Held, UsedBlocks, Promise!NoReply, NoReply, NULL
  <2>2. (pc = "undefined")' = (pc = "undefined")
    BY <2>1
  <2>3. Promise!Close
    BY <2>1, <2>2 DEF Promise!Close
  <2>4. QED  BY <2>1, <2>3 DEF Promise!Next
<1>4. CASE pc \in {"idle", "free_old"} /\ \E i \in UsedBlocks : Freed(i)
  BY <1>4, FreeRefines DEF Sound
<1>5. CASE \E c, g \in FreeBlocks : JoinedPrevious(c, g)
  BY <1>5, JoinedRefines DEF JoinedPrevious, Sound
<1>6. CASE \E c, g \in FreeBlocks : JoinedNext(c, g)
  BY <1>6, JoinedRefines DEF JoinedNext, Sound
<1>7. QED  BY <1>1, <1>2, <1>3, <1>4, <1>5, <1>6, Effects

\* The arena opens with nothing held.
LEMMA InitRefines == Init => Promise!Init
<1> SUFFICES ASSUME Init PROVE Promise!Init
  OBVIOUS
<1>1. Held = {} /\ reply = Promise!NoReply
  <2>1. live = {Item0} /\ lost = {} /\ ~used[Item0]
    BY ItemsAssumption DEF Init, Item0
  <2>2. UsedBlocks = {}
    BY <2>1 DEF UsedBlocks
  <2>3. reply = Promise!NoReply
    BY DEF Init, Promise!NoReply, NoReply, NULL
  <2>4. QED  BY <2>1, <2>2, <2>3 DEF Held
<1>2. (memory_start # NULL) = TRUE /\ (pc = "undefined") = FALSE
  BY DEF Init, NULL
<1>3. QED  BY <1>1, <1>2 DEF Promise!Init

\* ana_memory.c does what Arena promises: a grant is n addresses that nobody
\* holds, a refusal means that no n addresses in a row are free, and giving a
\* stretch back touches no other; until it hands out a short block, which it
\* does only for a request above the small sizes that it had no room for.
THEOREM ArenaRefined == Spec => KeepsPromise
<1>1. Init => Promise!Init
  BY InitRefines
<1>2. IInv /\ LeftToMerge /\ [Next]_vars => [Promise!Next]_(Promise!vars)
  BY NextRefines
<1>3. QED
  BY <1>1, <1>2, MergedInit, MergedStep, Invariant, PTL
  DEF Spec, KeepsPromise, Promise!Spec
=============================================================================
