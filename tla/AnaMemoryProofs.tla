-------------------------- MODULE AnaMemoryProofs --------------------------
(***************************************************************************)
(* The safety of src/ana_memory.c for every arena, every set of items and  *)
(* requests: the inductive invariant IInv, one lemma per operation that    *)
(* keeps it, and the theorems that follow from it.                         *)
(***************************************************************************)
EXTENDS AnaMemory, FiniteSetTheorems, CollectionLemmas

\* The list of a size is one of the lists there are.
LEMMA BucketType == \A n \in Nat : Bucket(n) \in 0 .. Top
  BY HashAssumption DEF Bucket, Top

-----------------------------------------------------------------------------
(***************************************************************************)
(* The size lists, as what Push and Unlink keep of them.                   *)
(***************************************************************************)

\* The items F, of sizes sz, are on the lists of their sizes, once.
Listed(lists, F, sz) ==
  /\ lists \in [0 .. Top -> Seq(Items)]
  /\ \A a \in 0 .. Top :
       /\ IsInjective(lists[a])
       /\ Range(lists[a]) = {k \in F : Bucket(sz[k]) = a}

\* Push adds one item of the size it is given.
LEMMA PushListed ==
  ASSUME NEW F \in SUBSET Items, NEW lists, NEW sz, Listed(lists, F, sz),
         NEW i \in Items \ F, NEW n \in Nat,
         NEW sz2, sz2[i] = n, \A k \in F : sz2[k] = sz[k]
  PROVE  Listed(Push(lists, i, n), F \cup {i}, sz2)
<1> DEFINE b == Bucket(n)
           l2 == Push(lists, i, n)
<1>1. b \in 0 .. Top
  BY BucketType
<1>2. /\ Cons(i, lists[b]) \in Seq(Items)
      /\ IsInjective(Cons(i, lists[b]))
      /\ Range(Cons(i, lists[b])) = Range(lists[b]) \cup {i}
  BY <1>1, ConsList DEF Listed
<1>3. /\ l2 \in [0 .. Top -> Seq(Items)]
      /\ l2[b] = Cons(i, lists[b])
      /\ \A a \in 0 .. Top : a # b => l2[a] = lists[a]
  BY <1>1, <1>2 DEF Push, Listed
<1> HIDE DEF b, l2
<1>4. b = Bucket(sz2[i])
  BY DEF b
<1>5. ASSUME NEW a \in 0 .. Top
      PROVE  /\ IsInjective(l2[a])
             /\ Range(l2[a]) = {k \in F \cup {i} : Bucket(sz2[k]) = a}
  <2>1. CASE a = b
    BY <1>2, <1>3, <1>4, <2>1 DEF Listed
  <2>2. CASE a # b
    BY <1>3, <1>4, <2>2 DEF Listed
  <2>3. QED  BY <2>1, <2>2
<1>6. QED  BY <1>3, <1>5 DEF Listed, l2

\* Unlink takes off one item, from the list of the size it has.
LEMMA UnlinkListed ==
  ASSUME NEW F \in SUBSET Items, NEW lists, NEW sz, Listed(lists, F, sz),
         NEW i \in F, sz[i] \in Nat,
         NEW sz2, \A k \in F \ {i} : sz2[k] = sz[k]
  PROVE  Listed(Unlink(lists, i, sz[i]), F \ {i}, sz2)
<1> DEFINE b == Bucket(sz[i])
           l2 == Unlink(lists, i, sz[i])
<1>1. b \in 0 .. Top
  BY BucketType
<1>2. i \in Range(lists[b])
  BY <1>1 DEF Listed
<1>3. /\ RemoveFirst(lists[b], i) \in Seq(Items)
      /\ IsInjective(RemoveFirst(lists[b], i))
      /\ Range(RemoveFirst(lists[b], i)) = Range(lists[b]) \ {i}
  BY <1>1, <1>2, RemoveFirstList DEF Listed
<1>4. /\ l2 \in [0 .. Top -> Seq(Items)]
      /\ l2[b] = RemoveFirst(lists[b], i)
      /\ \A a \in 0 .. Top : a # b => l2[a] = lists[a]
  BY <1>1, <1>3 DEF Unlink, Listed
<1>5. \A k \in F \ {i} : Bucket(sz2[k]) = Bucket(sz[k])
  OBVIOUS
<1>6. b = Bucket(sz[i])
  OBVIOUS
<1> HIDE DEF b, l2
<1>7. ASSUME NEW a \in 0 .. Top
      PROVE  /\ IsInjective(l2[a])
             /\ Range(l2[a]) = {k \in F \ {i} : Bucket(sz2[k]) = a}
  <2>1. CASE a = b
    BY <1>3, <1>4, <1>5, <2>1 DEF Listed
  <2>2. CASE a # b
    BY <1>4, <1>5, <1>6, <2>2 DEF Listed
  <2>3. QED  BY <2>1, <2>2
<1>8. QED  BY <1>4, <1>7 DEF Listed, l2
-----------------------------------------------------------------------------
(***************************************************************************)
(* The inductive invariant.  A step of ana_malloc needs the block it takes *)
(* to be free and in the arena (SizeLists, Partition); a merge needs the   *)
(* neighbour to be a live block at the address the links say (Chain), and  *)
(* the block it extends to be live and free (Reclaiming).                  *)
(***************************************************************************)
Closed == Sound /\ memory_start = NULL => live = {} /\ lost = {}

Reclaiming ==
  /\ pc = "reclaim_prev" => cur \in live /\ ~used[cur]
  /\ pc = "reclaim_next" => cur = NULL \/ cur \in live

IInv == TypeOK /\ Closed /\ Partition /\ Chain /\ SizeLists /\ Reclaiming

\* The partition in plain arithmetic, without the records of Stretch.
ArenaFact ==
  /\ \A i \in live : ptr[i] >= 1 /\ size[i] >= 1 /\ ptr[i] + size[i] <= ArenaSize + 1
  /\ \A s \in lost : s.ptr >= 1 /\ s.size >= 1 /\ s.ptr + s.size <= ArenaSize + 1
DisjointFact ==
  /\ \A i, k \in live :
       i # k => ptr[i] + size[i] <= ptr[k] \/ ptr[k] + size[k] <= ptr[i]
  /\ \A i \in live, s \in lost :
       ptr[i] + size[i] <= s.ptr \/ s.ptr + s.size <= ptr[i]
  /\ \A s, t \in lost :
       s # t => s.ptr + s.size <= t.ptr \/ t.ptr + t.size <= s.ptr
CoverFact ==
  \A a \in 1 .. ArenaSize :
    \/ \E i \in live : ptr[i] <= a /\ a < ptr[i] + size[i]
    \/ \E s \in lost : s.ptr <= a /\ a < s.ptr + s.size

\* The plain form says the same as the three parts of Partition.
LEMMA PlainPartition ==
  /\ BlocksInArena <=> ArenaFact
  /\ BlocksDisjoint <=> DisjointFact
  /\ AllCovered <=> CoverFact
<1>1. \A i : Stretch(i).ptr = ptr[i] /\ Stretch(i).size = size[i]
  BY DEF Stretch
<1>2. QED
  BY <1>1 DEF BlocksInArena, BlocksDisjoint, AllCovered, ArenaFact, DisjointFact,
              CoverFact, InArena, Disjoint, Covers

\* The same in the next state.
LEMMA PlainPartitionPrime ==
  /\ BlocksInArena' <=> ArenaFact'
  /\ BlocksDisjoint' <=> DisjointFact'
  /\ AllCovered' <=> CoverFact'
  BY PlainPartition, PTL

\* Its parts in the form the steps use.
LEMMA Parts ==
  ASSUME IInv, Sound
  PROVE  /\ Listed(size_list, FreeBlocks, size)
         /\ ArenaFact /\ DisjointFact
         /\ memory_start # NULL => CoverFact
         /\ FreeBlocks \subseteq live /\ live \subseteq Items
         /\ ptr \in [Items -> Nat] /\ size \in [Items -> Nat]
<1>1. Listed(size_list, FreeBlocks, size)
  BY DEF IInv, TypeOK, SizeLists, Listed
<1>2. BlocksInArena /\ BlocksDisjoint /\ (memory_start # NULL => AllCovered)
  BY DEF IInv, Partition, Closed, BlocksInArena, BlocksDisjoint
<1>3. QED  BY PlainPartition, <1>1, <1>2 DEF IInv, TypeOK, FreeBlocks, UsedBlocks

\* The links of one live block.
Linked(k) ==
  /\ lprevious[k] = NULL <=> k = first_block
  /\ lprevious[k] # NULL => lprevious[k] \in live /\ lnext[lprevious[k]] = k
  /\ lnext[k] # NULL => /\ lnext[k] \in live
                       /\ lprevious[lnext[k]] = k
                       /\ ptr[k] + size[k] <= ptr[lnext[k]]

\* Chain says that every live block is linked, and that the list has a head.
LEMMA PlainChain ==
  Chain <=> (Sound => /\ \A k \in live : Linked(k)
                      /\ \/ first_block \in live
                         \/ first_block = NULL /\ live = {})
  BY DEF Chain, Linked

\* The same in the next state.
LEMMA PlainChainPrime ==
  Chain' <=> (Sound' => /\ \A k \in live' : Linked(k)'
                        /\ \/ first_block' \in live'
                           \/ first_block' = NULL /\ live' = {})
  BY DEF Chain, Linked

\* What either search of ana_malloc takes off the size lists is a free block.
LEMMA TakenIsFree ==
  ASSUME IInv, Sound, NEW n \in Nat, Found(n)
  PROVE  Taken(n) \in FreeBlocks
<1> DEFINE q == size_list[Bucket(n)]
           T == {k \in 1 .. Len(q) : size[q[k]] >= n}
<1>1. /\ size_list \in [0 .. Top -> Seq(Items)]
      /\ \A a \in 0 .. Top : Range(size_list[a]) \subseteq FreeBlocks
  BY Parts DEF Listed
<1>2. Bucket(n) \in 0 .. Top
  BY BucketType
<1>3. FirstFit(n) = IF T # {} THEN Min(T) ELSE 0
  BY DEF FirstFit, SelectInSeq
<1>4. CASE FirstFit(n) # 0
  <2>1. T # {} /\ T \in SUBSET Nat
    BY <1>3, <1>4
  <2>2. Min(T) \in T
    BY <2>1, MinIsLeast
  <2>3. FirstFit(n) \in 1 .. Len(q)
    BY <1>3, <2>1, <2>2
  <2>4. q[FirstFit(n)] \in Range(q)
    BY <1>1, <1>2, <2>3 DEF Range
  <2>5. QED  BY <1>1, <1>2, <1>4, <2>4 DEF Taken
<1>5. CASE FirstFit(n) = 0
  <2> DEFINE a == Min(NonEmpty(n))
  <2>1. NonEmpty(n) # {} /\ NonEmpty(n) \in SUBSET Nat
    BY <1>2, <1>5, HashAssumption DEF Found, NonEmpty, Top
  <2>2. a \in NonEmpty(n)
    BY <2>1, MinIsLeast
  <2>3. a \in 0 .. Top /\ size_list[a] # <<>>
    BY <1>2, <2>2 DEF NonEmpty
  <2>4. Head(size_list[a]) \in Range(size_list[a])
    <3>1. size_list[a] \in Seq(Items) /\ Len(size_list[a]) \in Nat \ {0}
      BY <1>1, <2>3, EmptySeq
    <3>2. Head(size_list[a]) = size_list[a][1] /\ 1 \in DOMAIN size_list[a]
      BY <3>1
    <3>3. QED  BY <3>2 DEF Range
  <2>5. Taken(n) = Head(size_list[a])
    BY <1>5 DEF Taken
  <2>6. QED  BY <1>1, <2>3, <2>4, <2>5
<1>6. QED  BY <1>4, <1>5

-----------------------------------------------------------------------------
(***************************************************************************)
(* ana_malloc                                                              *)
(***************************************************************************)

\* A refusal changes no block.
LEMMA RefusedStep ==
  ASSUME IInv, NEW n \in Requests, NEW old \in Int, MallocRefused(n, old),
         pc = "idle"
  PROVE  IInv'
<1> USE DEF MallocRefused, Answer, fields, counters
<1>1. TypeOK'
  BY DEF IInv, TypeOK, NULL, Sound
<1>2. Closed' /\ Partition'
  BY DEF IInv, Closed, Partition, Sound, BlocksInArena, BlocksDisjoint,
         AllCovered, InArena, Disjoint, Covers, Stretch
<1>3. Chain' /\ SizeLists' /\ Reclaiming'
  BY DEF IInv, Chain, SizeLists, Reclaiming, Sound, FreeBlocks, UsedBlocks
<1>4. QED  BY <1>1, <1>2, <1>3 DEF IInv

\* A whole block changes hands: only its flag and its list change.
LEMMA WholeStep ==
  ASSUME IInv, NEW n \in Requests, NEW old \in Int, MallocWhole(n, old),
         pc = "idle"
  PROVE  IInv'
<1> DEFINE i == Taken(n)
<1>1. n \in Nat /\ Sound
  BY RequestsAssumption DEF Sound
<1>2. i \in FreeBlocks
  BY <1>1, TakenIsFree DEF MallocWhole
<1>3. /\ i \in live /\ ~used[i] /\ size[i] = n
      /\ used' = [used EXCEPT ![i] = TRUE]
      /\ size_list' = Unlink(size_list, i, n)
      /\ pc' \in {"idle", "free_old"}
      /\ UNCHANGED <<live, ptr, size, lprevious, lnext, first_block, lost,
                     memory_error, memory_start, cur>>
  BY <1>2 DEF MallocWhole, Answer, FreeBlocks, UsedBlocks, fields
<1>4. FreeBlocks' = FreeBlocks \ {i}
  BY <1>3 DEF FreeBlocks, UsedBlocks, IInv, TypeOK
<1>5. Listed(size_list', FreeBlocks', size')
  <2>1. Listed(Unlink(size_list, i, size[i]), FreeBlocks \ {i}, size)
    BY <1>1, <1>2, <1>3, Parts, UnlinkListed
  <2>2. QED  BY <1>3, <1>4, <2>1
<1>6. TypeOK'
  <2>1. size_list' \in [0 .. Top -> Seq(Items)]
    BY <1>5 DEF Listed
  <2>2. reply' \in [asked : Requests \cup {0}, ptr : Int] /\ target' \in Int
    BY <1>3 DEF MallocWhole, Answer, IInv, TypeOK, NULL
  <2>3. mem_free' \in Int /\ mem_used' \in Int /\ number_of_blocks' \in Int
        /\ number_of_blocks_used' \in Int
    BY <1>1 DEF MallocWhole, CountGrant, IInv, TypeOK
  <2>4. QED  BY <1>1, <1>3, <2>1, <2>2, <2>3 DEF IInv, TypeOK, Sound
<1>7. Closed' /\ Partition'
  BY <1>1, <1>3 DEF IInv, Closed, Partition, Sound, BlocksInArena, BlocksDisjoint,
         AllCovered, InArena, Disjoint, Covers, Stretch
<1>8. Chain'
  BY <1>1, <1>3 DEF IInv, Chain, Sound
<1>9. SizeLists' /\ Reclaiming'
  BY <1>3, <1>5 DEF SizeLists, Listed, Reclaiming
<1>10. QED  BY <1>6, <1>7, <1>8, <1>9 DEF IInv

\* A block is cut: the rest is the address range after the part handed out.
LEMMA SplitStep ==
  ASSUME IInv, NEW n \in Requests, NEW old \in Int, MallocSplit(n, old),
         pc = "idle"
  PROVE  IInv'
<1>1. n \in Nat \ {0} /\ Sound
  BY RequestsAssumption DEF Sound
<1>2. PICK i \in FreeBlocks : i = Taken(n)
  BY <1>1, TakenIsFree DEF MallocSplit
<1>3. PICK j \in Items \ live :
        /\ size[i] > n
        /\ CutAt(i, j, n)
        /\ size_list' = Push(Unlink(size_list, i, size[i]), j, size[i] - n)
        /\ Answer(n, old, ptr[i])
  BY <1>2 DEF MallocSplit, HasRest
<1>4. /\ i \in live /\ ~used[i] /\ i \in Items /\ j # i /\ j # NULL
      /\ ptr \in [Items -> Nat] /\ size \in [Items -> Nat] /\ live \subseteq Items
      /\ size[i] - n \in Nat \ {0}
  BY <1>1, <1>2, <1>3, Parts, ItemsAssumption DEF FreeBlocks, UsedBlocks
<1>5. /\ live' = live \cup {j}
      /\ ptr' = [ptr EXCEPT ![j] = ptr[i] + n]
      /\ size' = [size EXCEPT ![i] = n, ![j] = size[i] - n]
      /\ used' = [used EXCEPT ![i] = TRUE, ![j] = FALSE]
      /\ lnext' = [lnext EXCEPT ![i] = j, ![j] = lnext[i]]
      /\ lprevious' = [k \in Items |-> IF k = j THEN i
                                       ELSE IF k = lnext[i] THEN j
                                       ELSE lprevious[k]]
      /\ pc' \in {"idle", "free_old"}
      /\ UNCHANGED <<first_block, lost, memory_error, memory_start, cur>>
  BY <1>3 DEF CutAt, RestPtr, LinksBack, MallocSplit, Answer
<1>6. /\ ptr'[i] = ptr[i] /\ size'[i] = n
      /\ ptr'[j] = ptr[i] + n /\ size'[j] = size[i] - n
      /\ \A k \in live \ {i} : ptr'[k] = ptr[k] /\ size'[k] = size[k]
      /\ ptr' \in [Items -> Nat] /\ size' \in [Items -> Nat]
  BY <1>1, <1>4, <1>5
<1>7. FreeBlocks' = (FreeBlocks \ {i}) \cup {j}
  BY <1>4, <1>5 DEF FreeBlocks, UsedBlocks, IInv, TypeOK
<1>8. Listed(size_list', FreeBlocks', size')
  <2>1. Listed(Unlink(size_list, i, size[i]), FreeBlocks \ {i}, size)
    BY <1>1, <1>2, <1>4, Parts, UnlinkListed
  <2>2. j \in Items \ (FreeBlocks \ {i}) /\ FreeBlocks \ {i} \in SUBSET Items
    BY <1>4 DEF FreeBlocks
  <2>3. \A k \in FreeBlocks \ {i} : size'[k] = size[k]
    BY <1>6 DEF FreeBlocks
  <2>4. QED  BY <1>3, <1>4, <1>6, <1>7, <2>1, <2>2, <2>3, PushListed
<1>9. TypeOK'
  <2>1. size_list' \in [0 .. Top -> Seq(Items)]
    BY <1>8 DEF Listed
  <2>2. reply' \in [asked : Requests \cup {0}, ptr : Int] /\ target' \in Int
    BY <1>3, <1>4 DEF Answer, IInv, TypeOK, NULL
  <2>3. mem_free' \in Int /\ mem_used' \in Int /\ number_of_blocks' \in Int
        /\ number_of_blocks_used' \in Int
    BY <1>1, <1>3 DEF MallocSplit, CountGrant, CutAt, IInv, TypeOK
  <2>4. lprevious' \in [Items -> Items \cup {NULL}]
        /\ lnext' \in [Items -> Items \cup {NULL}]
    BY <1>4, <1>5 DEF IInv, TypeOK
  <2>5. live' \subseteq Items /\ used' \in [Items -> BOOLEAN]
    BY <1>4, <1>5 DEF IInv, TypeOK
  <2>6. /\ first_block' \in Items \cup {NULL} /\ cur' \in Items \cup {NULL}
        /\ memory_error' \in BOOLEAN /\ memory_start' \in {0, 1}
        /\ lost' \subseteq [ptr : Int, size : Int]
        /\ pc' \in {"idle", "free_old", "reclaim_prev", "reclaim_next", "undefined"}
    BY <1>5 DEF IInv, TypeOK
  <2>7. ptr' \in [Items -> Int] /\ size' \in [Items -> Int]
    BY <1>6
  <2>8. QED
    BY <1>6, <2>1, <2>2, <2>3, <2>4, <2>5, <2>6, <2>7 DEF TypeOK
<1>10. Closed'
  BY <1>1, <1>4, <1>5 DEF IInv, Closed, Sound
<1>11. Partition'
  <2>0. /\ ArenaFact /\ DisjointFact
        /\ \A k \in live : ptr[k] \in Nat /\ size[k] \in Nat
        /\ lost \subseteq [ptr : Int, size : Int]
    BY <1>1, <1>4, Parts DEF IInv, TypeOK
  <2>1. BlocksInArena'
    <3>1. ArenaFact'
      BY <1>1, <1>4, <1>5, <1>6, <2>0, ArenaAssumption DEF ArenaFact
    <3>2. QED  BY <3>1, PlainPartitionPrime
  <2>2. BlocksDisjoint'
    <3>1. ASSUME NEW k \in live', NEW m \in live', k # m
          PROVE  ptr'[k] + size'[k] <= ptr'[m] \/ ptr'[m] + size'[m] <= ptr'[k]
      <4>1. CASE k \in live /\ m \in live
        BY <1>1, <1>4, <1>6, <2>0, <3>1, <4>1 DEF DisjointFact
      <4>2. CASE k = j \/ m = j
        BY <1>1, <1>4, <1>5, <1>6, <2>0, <3>1, <4>2 DEF DisjointFact
      <4>3. QED  BY <1>5, <4>1, <4>2
    <3>2. ASSUME NEW k \in live', NEW s \in lost'
          PROVE  ptr'[k] + size'[k] <= s.ptr \/ s.ptr + s.size <= ptr'[k]
      <4>1. s \in lost /\ s.ptr \in Int /\ s.size \in Int
        BY <1>5, <2>0
      <4>2. CASE k \in live /\ k # i
        BY <1>6, <2>0, <4>1, <4>2 DEF DisjointFact
      <4>3. CASE k = i \/ k = j
        <5>1. ptr[i] + size[i] <= s.ptr \/ s.ptr + s.size <= ptr[i]
          BY <1>4, <2>0, <4>1 DEF DisjointFact
        <5>2. QED  BY <1>1, <1>4, <1>6, <4>1, <4>3, <5>1
      <4>4. QED  BY <1>5, <4>2, <4>3
    <3>3. DisjointFact'
      BY <1>5, <2>0, <3>1, <3>2 DEF DisjointFact
    <3>4. QED  BY <3>3, PlainPartitionPrime
  <2>3. ASSUME memory_start # NULL
        PROVE  AllCovered'
    <3>1. SUFFICES ASSUME NEW a \in 1 .. ArenaSize
                   PROVE  \/ \E k \in live' : ptr'[k] <= a /\ a < ptr'[k] + size'[k]
                          \/ \E s \in lost' : Covers(s, a)
      BY DEF AllCovered, Covers, Stretch
    <3>2. CASE \E s \in lost : Covers(s, a)
      BY <1>5, <3>2
    <3>3. CASE \E k \in live : ptr[k] <= a /\ a < ptr[k] + size[k]
      <4>1. PICK k \in live : ptr[k] <= a /\ a < ptr[k] + size[k]
        BY <3>3
      <4>2. CASE k # i
        BY <1>5, <1>6, <4>1, <4>2
      <4>3. CASE k = i /\ a < ptr[i] + n
        BY <1>4, <1>5, <1>6, <4>1, <4>3
      <4>4. CASE k = i /\ ~(a < ptr[i] + n)
        BY <1>1, <1>4, <1>5, <1>6, <4>1, <4>4
      <4>5. QED  BY <4>2, <4>3, <4>4
    <3>4. QED
      BY <1>1, <2>3, <3>2, <3>3 DEF IInv, Partition, AllCovered, Covers, Stretch
  <2>4. QED  BY <1>5, <2>1, <2>2, <2>3 DEF Partition
<1>12. Chain'
  <2>1. first_block \in live /\ \A k \in live : Linked(k)
    BY <1>1, <1>4, PlainChain DEF IInv
  <2>2. /\ lnext \in [Items -> Items \cup {NULL}]
        /\ lprevious \in [Items -> Items \cup {NULL}]
    BY DEF IInv, TypeOK
  <2>3. lnext[i] # i
    <3>1. /\ size[i] > 0 /\ ptr[i] \in Nat /\ size[i] \in Nat
          /\ lnext[i] # NULL => ptr[i] + size[i] <= ptr[lnext[i]]
      BY <1>1, <1>4, <2>1 DEF Linked
    <3>2. i # NULL
      BY <1>4, ItemsAssumption
    <3>3. QED  BY <3>1, <3>2
  <2>4. /\ lnext'[i] = j /\ lnext'[j] = lnext[i]
        /\ \A k \in live \ {i} : lnext'[k] = lnext[k]
        /\ lprevious'[j] = i
        /\ lnext[i] # NULL => lprevious'[lnext[i]] = j
        /\ \A k \in live : k # lnext[i] => lprevious'[k] = lprevious[k]
    BY <1>4, <1>5, <2>1, <2>2 DEF Linked
  <2>5. Linked(i)'
    <3>1. Linked(i)
      BY <1>4, <2>1
    <3>2. lprevious'[i] = lprevious[i]
      BY <1>4, <2>3, <2>4
    <3>3. lprevious[i] # NULL => /\ lprevious[i] \in live
                                /\ lnext'[lprevious[i]] = i
      BY <2>3, <2>4, <3>1 DEF Linked
    <3>4. ptr'[i] + size'[i] <= ptr'[j]
      BY <1>1, <1>4, <1>6
    <3>5. j \in live' /\ live \subseteq live' /\ first_block' = first_block
      BY <1>5
    <3>6. lprevious'[i] = NULL <=> i = first_block'
      BY <3>1, <3>2, <3>5 DEF Linked
    <3>7. QED  BY <2>4, <3>2, <3>3, <3>4, <3>5, <3>6 DEF Linked
  <2>6. Linked(j)'
    <3>1. lnext[i] # NULL =>
            /\ lnext[i] \in live \ {i}
            /\ ptr'[lnext[i]] = ptr[lnext[i]]
            /\ ptr[i] + size[i] <= ptr[lnext[i]]
      BY <1>4, <1>6, <2>1, <2>3 DEF Linked
    <3>2. ptr'[j] + size'[j] = ptr[i] + size[i]
      BY <1>1, <1>4, <1>6
    <3>3. j # first_block
      BY <2>1
    <3>4. i # NULL /\ i \in live' /\ live \subseteq live' /\ first_block' = first_block
      BY <1>4, <1>5, ItemsAssumption
    <3>5. lprevious'[j] = i /\ lnext'[i] = j /\ lnext'[j] = lnext[i]
      BY <2>4
    <3>6. lnext[i] # NULL => /\ lprevious'[lnext[i]] = j
                            /\ ptr'[j] + size'[j] <= ptr'[lnext[i]]
      BY <2>4, <3>1, <3>2
    <3>7. QED  BY <1>4, <3>1, <3>3, <3>4, <3>5, <3>6 DEF Linked
  <2>7. ASSUME NEW k \in live \ {i}
        PROVE  Linked(k)'
    <3>1. Linked(k) /\ Linked(i)
      BY <1>4, <2>1
    <3>2. lnext[k] # NULL => /\ lnext[k] \in live /\ ptr'[lnext[k]] = ptr[lnext[k]]
                            /\ lnext[k] # lnext[i]
      BY <1>4, <1>6, <3>1 DEF Linked
    <3>3. lnext[k] # NULL => lprevious'[lnext[k]] = lprevious[lnext[k]]
      BY <2>4, <3>2
    <3>4. lprevious[k] # NULL => lprevious[k] # i \/ k = lnext[i]
      BY <3>1 DEF Linked
    <3>5. lnext'[k] = lnext[k] /\ ptr'[k] = ptr[k] /\ size'[k] = size[k]
      BY <1>6, <2>4
    <3>6. lnext'[k] # NULL => /\ lnext'[k] \in live' /\ lprevious'[lnext'[k]] = k
                             /\ ptr'[k] + size'[k] <= ptr'[lnext'[k]]
      BY <1>5, <3>1, <3>2, <3>3, <3>5 DEF Linked
    <3>7. CASE k = lnext[i]
      <4>1. lprevious'[k] = j /\ j # NULL /\ k # first_block
        BY <1>4, <2>4, <3>1, <3>7, ItemsAssumption DEF Linked
      <4>2. j \in live' /\ lnext'[j] = k /\ first_block' = first_block
        BY <1>5, <2>4, <3>7
      <4>3. QED  BY <3>6, <4>1, <4>2 DEF Linked
    <3>8. CASE k # lnext[i]
      <4>1. lprevious'[k] = lprevious[k]
        BY <2>4, <3>8
      <4>2. lprevious[k] # NULL =>
              lprevious[k] \in live \ {i} /\ lnext'[lprevious[k]] = k
        BY <2>4, <3>1, <3>4, <3>8 DEF Linked
      <4>3. QED  BY <1>5, <3>1, <3>6, <4>1, <4>2 DEF Linked
    <3>9. QED  BY <3>7, <3>8
  <2>8. first_block' \in live' /\ \A k \in live' : Linked(k)'
    BY <1>5, <2>1, <2>5, <2>6, <2>7
  <2>9. QED  BY <2>8, PlainChainPrime
<1>13. SizeLists' /\ Reclaiming'
  BY <1>5, <1>8 DEF SizeLists, Listed, Reclaiming
<1>14. QED  BY <1>9, <1>10, <1>11, <1>12, <1>13 DEF IInv

\* The block is cut but its rest is lost: the rest still counts as taken.
LEMMA NoItemStep ==
  ASSUME IInv, NEW n \in Requests, NEW old \in Int, MallocNoItem(n, old),
         pc = "idle"
  PROVE  IInv'
<1>1. n \in Nat \ {0} /\ Sound
  BY RequestsAssumption DEF Sound
<1>2. PICK i \in FreeBlocks : i = Taken(n)
  BY <1>1, TakenIsFree DEF MallocNoItem
<1>3. /\ i \in live /\ ~used[i] /\ i \in Items
      /\ ptr \in [Items -> Nat] /\ size \in [Items -> Nat] /\ live \subseteq Items
      /\ size[i] > n
  BY <1>1, <1>2, Parts DEF FreeBlocks, UsedBlocks, MallocNoItem
<1> DEFINE rest == [ptr |-> ptr[i] + n, size |-> size[i] - n]
<1>4. /\ size' = [size EXCEPT ![i] = n]
      /\ used' = [used EXCEPT ![i] = TRUE]
      /\ size_list' = Unlink(size_list, i, size[i])
      /\ lost' = lost \cup {rest}
      /\ pc' \in {"idle", "free_old"}
      /\ memory_error' = TRUE
      /\ UNCHANGED <<live, ptr, lprevious, lnext, first_block, memory_start, cur>>
  BY <1>2 DEF MallocNoItem, Answer
<1>5. /\ size'[i] = n /\ size' \in [Items -> Nat]
      /\ \A k \in live \ {i} : size'[k] = size[k]
  BY <1>1, <1>3, <1>4
<1>6. rest \in [ptr : Int, size : Int] /\ rest.ptr = ptr[i] + n
      /\ rest.size = size[i] - n
  BY <1>1, <1>3
<1> HIDE DEF rest
<1>7. FreeBlocks' = FreeBlocks \ {i}
  BY <1>3, <1>4 DEF FreeBlocks, UsedBlocks, IInv, TypeOK
<1>8. Listed(size_list', FreeBlocks', size')
  <2>1. \A k \in FreeBlocks \ {i} : size'[k] = size[k]
    BY <1>5 DEF FreeBlocks
  <2>2. Listed(Unlink(size_list, i, size[i]), FreeBlocks \ {i}, size')
    BY <1>1, <1>2, <1>3, <2>1, Parts, UnlinkListed
  <2>3. QED  BY <1>4, <1>7, <2>2
<1>9. TypeOK'
  <2>1. size_list' \in [0 .. Top -> Seq(Items)]
    BY <1>8 DEF Listed
  <2>2. reply' \in [asked : Requests \cup {0}, ptr : Int] /\ target' \in Int
    BY DEF MallocNoItem, Answer, IInv, TypeOK, NULL
  <2>3. mem_free' \in Int /\ mem_used' \in Int /\ number_of_blocks' \in Int
        /\ number_of_blocks_used' \in Int
    BY <1>1 DEF MallocNoItem, CountGrant, IInv, TypeOK
  <2>4. ptr' \in [Items -> Nat] /\ ptr' \in [Items -> Int] /\ size' \in [Items -> Int]
    BY <1>3, <1>4, <1>5
  <2>5. lost' \subseteq [ptr : Int, size : Int]
    BY <1>4, <1>6 DEF IInv, TypeOK
  <2>6. used' \in [Items -> BOOLEAN]
    BY <1>3, <1>4 DEF IInv, TypeOK
  <2>7. QED
    BY <1>4, <1>5, <2>1, <2>2, <2>3, <2>4, <2>5, <2>6 DEF IInv, TypeOK
<1>10. Closed'
  BY <1>1, <1>3, <1>4 DEF IInv, Closed, Sound
<1>11. Partition'
  <2>0. /\ ArenaFact /\ DisjointFact /\ (memory_start # NULL => CoverFact)
        /\ \A k \in live : ptr[k] \in Nat /\ size[k] \in Nat
        /\ \A s \in lost : s.ptr \in Int /\ s.size \in Int
    BY <1>1, <1>3, Parts DEF IInv, TypeOK
  <2>1. ArenaFact'
    BY <1>1, <1>3, <1>4, <1>5, <1>6, <2>0, ArenaAssumption DEF ArenaFact
  <2>2. DisjointFact'
    <3>1. ASSUME NEW k \in live, NEW m \in live, k # m
          PROVE  ptr[k] + size'[k] <= ptr[m] \/ ptr[m] + size'[m] <= ptr[k]
      BY <1>1, <1>3, <1>5, <2>0, <3>1 DEF DisjointFact
    <3>2. ASSUME NEW k \in live, NEW s \in lost
          PROVE  ptr[k] + size'[k] <= s.ptr \/ s.ptr + s.size <= ptr[k]
      BY <1>1, <1>3, <1>5, <2>0 DEF DisjointFact
    <3>3. ASSUME NEW k \in live
          PROVE  ptr[k] + size'[k] <= rest.ptr \/ rest.ptr + rest.size <= ptr[k]
      <4>1. CASE k = i
        BY <1>1, <1>3, <1>5, <1>6, <4>1
      <4>2. CASE k # i
        BY <1>1, <1>3, <1>5, <1>6, <2>0, <4>2 DEF DisjointFact
      <4>3. QED  BY <4>1, <4>2
    <3>4. ASSUME NEW s \in lost
          PROVE  s.ptr + s.size <= rest.ptr \/ rest.ptr + rest.size <= s.ptr
      BY <1>1, <1>3, <1>6, <2>0 DEF DisjointFact
    <3>5. QED  BY <1>4, <2>0, <3>1, <3>2, <3>3, <3>4 DEF DisjointFact
  <2>3. ASSUME memory_start # NULL, NEW a \in 1 .. ArenaSize
        PROVE  \/ \E k \in live' : ptr'[k] <= a /\ a < ptr'[k] + size'[k]
               \/ \E s \in lost' : s.ptr <= a /\ a < s.ptr + s.size
    <3>1. CASE \E s \in lost : s.ptr <= a /\ a < s.ptr + s.size
      BY <1>4, <3>1
    <3>2. CASE \E k \in live : ptr[k] <= a /\ a < ptr[k] + size[k]
      <4>1. PICK k \in live : ptr[k] <= a /\ a < ptr[k] + size[k]
        BY <3>2
      <4>2. CASE k # i \/ a < ptr[i] + n
        BY <1>3, <1>4, <1>5, <4>1, <4>2
      <4>3. CASE k = i /\ ~(a < ptr[i] + n)
        BY <1>1, <1>3, <1>4, <1>6, <4>1, <4>3
      <4>4. QED  BY <4>2, <4>3
    <3>3. QED  BY <2>0, <2>3, <3>1, <3>2 DEF CoverFact
  <2>4. memory_start' # NULL => CoverFact'
    BY <1>4, <2>3 DEF CoverFact
  <2>5. QED  BY <2>1, <2>2, <2>4, PlainPartitionPrime DEF Partition
<1>12. Chain'
  <2>1. (first_block \in live) /\ \A k \in live : Linked(k)
    BY <1>1, <1>3, PlainChain DEF IInv
  <2>2. ASSUME NEW k \in live
        PROVE  Linked(k)'
    <3>1. Linked(k) /\ size'[k] <= size[k] /\ size'[k] \in Nat /\ size[k] \in Nat
          /\ (lnext[k] # NULL => ptr[lnext[k]] \in Nat) /\ ptr[k] \in Nat
      BY <1>1, <1>3, <1>5, <2>1 DEF Linked
    <3>2. lnext[k] # NULL => ptr[k] + size'[k] <= ptr[lnext[k]]
      BY <3>1 DEF Linked
    <3>3. QED  BY <1>4, <3>1, <3>2 DEF Linked
  <2>3. QED  BY <1>4, <2>1, <2>2, PlainChainPrime
<1>13. SizeLists' /\ Reclaiming'
  BY <1>4, <1>8 DEF SizeLists, Listed, Reclaiming
<1>14. QED  BY <1>9, <1>10, <1>11, <1>12, <1>13 DEF IInv

\* A short block: the state keeps its types and nothing more.
LEMMA ShortStep ==
  ASSUME IInv, NEW n \in Requests, NEW old \in Int, MallocShort(n, old),
         pc = "idle"
  PROVE  IInv'
<1>1. n \in Nat \ {0} /\ Sound
  BY RequestsAssumption DEF Sound
<1>2. PICK i \in FreeBlocks : i = Taken(n)
  BY <1>1, TakenIsFree DEF MallocShort
<1>3. /\ i \in live /\ i \in Items
      /\ ptr \in [Items -> Nat] /\ size \in [Items -> Nat] /\ live \subseteq Items
  BY <1>1, <1>2, Parts DEF FreeBlocks, UsedBlocks
<1>4. size_list' \in [0 .. Top -> Seq(Items)]
  <2>1. Listed(Unlink(size_list, i, size[i]), FreeBlocks \ {i}, size)
    BY <1>1, <1>2, <1>3, Parts, UnlinkListed
  <2>2. QED  BY <1>2, <2>1 DEF MallocShort, Listed
<1>5. /\ pc' = "undefined"
      /\ UNCHANGED <<first_block, memory_start, lost, cur, target>>
      /\ mem_free' \in Int /\ mem_used' \in Int /\ number_of_blocks_used' \in Int
  <2>1. CountGrant(n) /\ pc' = "undefined"
        /\ UNCHANGED <<first_block, memory_start, lost, cur, target>>
    BY DEF MallocShort
  <2>2. mem_free \in Int /\ mem_used \in Int /\ number_of_blocks_used \in Int
    BY DEF IInv, TypeOK
  <2>3. QED  BY <1>1, <2>1, <2>2 DEF CountGrant
<1>6. ASSUME NEW j \in Items \ live, CutAt(i, j, n),
             reply' = [asked |-> n, ptr |-> ptr[i]], UNCHANGED memory_error
      PROVE  TypeOK'
  <2>1. /\ live' \subseteq Items /\ used' \in [Items -> BOOLEAN]
        /\ number_of_blocks' \in Int
    <3>1. used \in [Items -> BOOLEAN] /\ number_of_blocks \in Int
      BY DEF IInv, TypeOK
    <3>2. /\ live' = live \cup {j}
          /\ used' = [used EXCEPT ![i] = TRUE, ![j] = FALSE]
          /\ number_of_blocks' = number_of_blocks + 1
      BY <1>6 DEF CutAt
    <3>3. number_of_blocks' \in Int
      BY <3>1, <3>2
    <3>4. QED  BY <1>3, <1>6, <3>1, <3>2, <3>3
  <2>2. ptr' \in [Items -> Int] /\ size' \in [Items -> Int]
    BY <1>1, <1>3, <1>6 DEF CutAt, RestPtr
  <2>3. /\ lprevious' \in [Items -> Items \cup {NULL}]
        /\ lnext' \in [Items -> Items \cup {NULL}]
    BY <1>3, <1>6 DEF CutAt, LinksBack, IInv, TypeOK
  <2>4. reply' \in [asked : Requests \cup {0}, ptr : Int]
    BY <1>3, <1>6
  <2>5. QED
    BY <1>4, <1>5, <1>6, <2>1, <2>2, <2>3, <2>4 DEF IInv, TypeOK, Sound
<1>7. ASSUME size' = [size EXCEPT ![i] = n], used' = [used EXCEPT ![i] = TRUE],
             memory_error' = TRUE, reply' = [asked |-> n, ptr |-> NULL],
             UNCHANGED <<live, ptr, lnext, lprevious, number_of_blocks>>
      PROVE  TypeOK'
  <2>1. size' \in [Items -> Int] /\ used' \in [Items -> BOOLEAN]
    BY <1>1, <1>3, <1>7 DEF IInv, TypeOK
  <2>2. reply' \in [asked : Requests \cup {0}, ptr : Int]
    BY <1>7 DEF NULL
  <2>3. QED
    BY <1>4, <1>5, <1>7, <2>1, <2>2 DEF IInv, TypeOK, Sound
<1>8. TypeOK'
  BY <1>2, <1>6, <1>7 DEF MallocShort
<1>9. QED
  BY <1>5, <1>8 DEF IInv, Closed, Partition, Chain, SizeLists, Reclaiming, Sound

\* ana_malloc, as a call of its own or inside ana_realloc.
LEMMA MallocStep ==
  ASSUME IInv, NEW n \in Requests, NEW old \in Int, Malloc(n, old), pc = "idle"
  PROVE  IInv'
  BY RefusedStep, WholeStep, SplitStep, NoItemStep, ShortStep DEF Malloc
-----------------------------------------------------------------------------
(***************************************************************************)
(* ana_free and ana_reclaim                                                *)
(***************************************************************************)

\* The freed block goes back on the list of its size; ana_reclaim starts on it.
LEMMA FreeStep ==
  ASSUME IInv, Sound, NEW p, FreeBlock(p), target' \in Int,
         reply' \in [asked : Requests \cup {0}, ptr : Int]
  PROVE  IInv'
<1>1. PICK i \in UsedBlocks :
        /\ used' = [used EXCEPT ![i] = FALSE]
        /\ size_list' = Push(size_list, i, size[i])
        /\ number_of_blocks_used' = number_of_blocks_used - 1
        /\ mem_free' = mem_free + size[i]
        /\ mem_used' = mem_used - size[i]
        /\ cur' = i
        /\ pc' = "reclaim_prev"
        /\ UNCHANGED <<live, ptr, size, lprevious, lnext, first_block,
                       number_of_blocks, memory_error, memory_start, lost>>
  BY DEF FreeBlock
<1>2. /\ i \in live /\ i \in Items /\ i \notin FreeBlocks /\ size[i] \in Nat
      /\ FreeBlocks \in SUBSET Items /\ used \in [Items -> BOOLEAN]
  BY <1>1, Parts DEF UsedBlocks, FreeBlocks, IInv, TypeOK
<1>3. FreeBlocks' = FreeBlocks \cup {i}
  BY <1>1, <1>2 DEF FreeBlocks, UsedBlocks
<1>4. Listed(size_list', FreeBlocks', size')
  <2>1. Listed(Push(size_list, i, size[i]), FreeBlocks \cup {i}, size)
    BY <1>2, Parts, PushListed
  <2>2. QED  BY <1>1, <1>3, <2>1
<1>5. TypeOK'
  <2>1. size_list' \in [0 .. Top -> Seq(Items)] /\ used' \in [Items -> BOOLEAN]
    BY <1>1, <1>2, <1>4 DEF Listed
  <2>2. /\ mem_free' \in Int /\ mem_used' \in Int /\ number_of_blocks' \in Int
        /\ number_of_blocks_used' \in Int
    BY <1>1, <1>2 DEF IInv, TypeOK
  <2>3. QED  BY <1>1, <1>2, <2>1, <2>2 DEF IInv, TypeOK, Sound
<1>6. Closed' /\ Partition'
  BY <1>1 DEF IInv, Closed, Partition, Sound, BlocksInArena, BlocksDisjoint,
         AllCovered, InArena, Disjoint, Covers, Stretch
<1>7. Chain'
  BY <1>1 DEF IInv, Chain, Sound
<1>8. SizeLists' /\ Reclaiming'
  BY <1>1, <1>2, <1>4 DEF SizeLists, Listed, Reclaiming
<1>9. QED  BY <1>5, <1>6, <1>7, <1>8 DEF IInv

\* Block c takes over the stretch of its neighbour g, on either side.
LEMMA MergePartition ==
  ASSUME IInv, Sound, NEW c \in live, NEW g \in live, c # g,
         live' = live \ {g}, lost' = lost, memory_start' = memory_start,
         size'[c] = size[c] + size[g],
         \/ ptr'[c] = ptr[c] /\ ptr[c] + size[c] = ptr[g]
         \/ ptr'[c] = ptr[g] /\ ptr[g] + size[g] = ptr[c],
         \A k \in live \ {c, g} : ptr'[k] = ptr[k] /\ size'[k] = size[k]
  PROVE  Partition'
<1>0. /\ ArenaFact /\ DisjointFact /\ (memory_start # NULL => CoverFact)
      /\ \A k \in live : ptr[k] \in Nat /\ size[k] \in Nat
      /\ \A s \in lost : s.ptr \in Int /\ s.size \in Int
  BY Parts DEF IInv, TypeOK
<1>1. ArenaFact'
  <2>1. ASSUME NEW k \in live'
        PROVE  ptr'[k] >= 1 /\ size'[k] >= 1 /\ ptr'[k] + size'[k] <= ArenaSize + 1
    BY <1>0, <2>1, ArenaAssumption DEF ArenaFact
  <2>2. QED  BY <1>0, <2>1 DEF ArenaFact
<1>2. DisjointFact'
  <2>1. ASSUME NEW k \in live', NEW m \in live', k # m
        PROVE  ptr'[k] + size'[k] <= ptr'[m] \/ ptr'[m] + size'[m] <= ptr'[k]
    <3>1. CASE k # c /\ m # c
      BY <1>0, <2>1, <3>1 DEF DisjointFact
    <3>2. CASE k = c
      BY <1>0, <2>1, <3>2 DEF DisjointFact, ArenaFact
    <3>3. CASE m = c
      BY <1>0, <2>1, <3>3 DEF DisjointFact, ArenaFact
    <3>4. QED  BY <3>1, <3>2, <3>3
  <2>2. ASSUME NEW k \in live', NEW s \in lost
        PROVE  ptr'[k] + size'[k] <= s.ptr \/ s.ptr + s.size <= ptr'[k]
    <3>1. CASE k # c
      BY <1>0, <3>1 DEF DisjointFact
    <3>2. CASE k = c
      <4>1. /\ ptr[c] + size[c] <= s.ptr \/ s.ptr + s.size <= ptr[c]
            /\ ptr[g] + size[g] <= s.ptr \/ s.ptr + s.size <= ptr[g]
            /\ s.size >= 1 /\ size[c] >= 1 /\ size[g] >= 1
        BY <1>0 DEF DisjointFact, ArenaFact
      <4>2. QED  BY <1>0, <3>2, <4>1
    <3>3. QED  BY <3>1, <3>2
  <2>3. QED  BY <1>0, <2>1, <2>2 DEF DisjointFact
<1>3. ASSUME memory_start # NULL, NEW a \in 1 .. ArenaSize
      PROVE  \/ \E k \in live' : ptr'[k] <= a /\ a < ptr'[k] + size'[k]
             \/ \E s \in lost' : s.ptr <= a /\ a < s.ptr + s.size
  <2>1. CASE \E s \in lost : s.ptr <= a /\ a < s.ptr + s.size
    BY <2>1
  <2>2. CASE \E k \in live : ptr[k] <= a /\ a < ptr[k] + size[k]
    <3>1. PICK k \in live : ptr[k] <= a /\ a < ptr[k] + size[k]
      BY <2>2
    <3>2. CASE k \notin {c, g}
      BY <3>1, <3>2
    <3>3. CASE k \in {c, g}
      <4>1. ptr'[c] <= a /\ a < ptr'[c] + size'[c]
        BY <1>0, <3>1, <3>3
      <4>2. QED  BY <4>1
    <3>4. QED  BY <3>2, <3>3
  <2>3. QED  BY <1>0, <1>3, <2>1, <2>2 DEF CoverFact
<1>4. memory_start' # NULL => CoverFact'
  BY <1>3 DEF CoverFact
<1>5. QED  BY <1>1, <1>2, <1>4, PlainPartitionPrime DEF Partition

\* A merge takes block g off its list and moves block c to that of its new size.
LEMMA MergeListed ==
  ASSUME IInv, Sound, NEW c \in FreeBlocks, NEW g \in FreeBlocks, c # g,
         NEW sz, sz[c] = size[c] + size[g],
         \A k \in FreeBlocks \ {c, g} : sz[k] = size[k]
  PROVE  Listed(Unlink(Push(Unlink(size_list, c, size[c]), c, size[c] + size[g]),
                       g, size[g]),
                FreeBlocks \ {g}, sz)
<1>1. /\ FreeBlocks \in SUBSET Items /\ c \in Items /\ g \in Items
      /\ size[c] \in Nat /\ size[g] \in Nat /\ size \in [Items -> Nat]
      /\ Listed(size_list, FreeBlocks, size)
  BY Parts
<1> DEFINE l1 == Unlink(size_list, c, size[c])
           l2 == Push(l1, c, size[c] + size[g])
           mid == [size EXCEPT ![c] = size[c] + size[g]]
<1>2. Listed(l1, FreeBlocks \ {c}, size)
  BY <1>1, UnlinkListed
<1>3. mid[c] = size[c] + size[g] /\ \A k \in FreeBlocks \ {c} : mid[k] = size[k]
  BY <1>1
<1>4. Listed(l2, (FreeBlocks \ {c}) \cup {c}, mid)
  <2>1. size[c] + size[g] \in Nat /\ c \in Items \ (FreeBlocks \ {c})
        /\ FreeBlocks \ {c} \in SUBSET Items
    BY <1>1
  <2> HIDE DEF mid, l1
  <2>2. QED  BY <1>2, <1>3, <2>1, PushListed
<1>5. (FreeBlocks \ {c}) \cup {c} = FreeBlocks
  OBVIOUS
<1>6. mid[g] = size[g] /\ \A k \in FreeBlocks \ {g} : sz[k] = mid[k]
  BY <1>3
<1> HIDE DEF mid, l2
<1>7. Listed(Unlink(l2, g, mid[g]), FreeBlocks \ {g}, sz)
  BY <1>1, <1>4, <1>5, <1>6, UnlinkListed
<1>8. QED  BY <1>6, <1>7 DEF l2

\* The blocks that a merge is about: free, live, and not the same one.
LEMMA MergeBlocks ==
  ASSUME IInv, Sound, NEW c \in live, NEW g \in live,
         lnext[c] = g \/ lnext[g] = c
  PROVE  /\ c # g
         /\ \A k \in live : /\ ptr[k] \in Nat /\ size[k] \in Nat /\ size[k] >= 1
                            /\ k \in Items /\ k # NULL
                            /\ Linked(k)
                            /\ lnext[k] # k
         /\ first_block \in live
<1>1. /\ ArenaFact /\ live \subseteq Items
      /\ ptr \in [Items -> Nat] /\ size \in [Items -> Nat]
  BY Parts
<1>2. first_block \in live /\ \A k \in live : Linked(k)
  BY PlainChain DEF IInv
<1>3. ASSUME NEW k \in live
      PROVE  /\ ptr[k] \in Nat /\ size[k] \in Nat /\ size[k] >= 1
             /\ k \in Items /\ k # NULL
  BY <1>1, ItemsAssumption DEF ArenaFact
<1>4. ASSUME NEW k \in live
      PROVE  lnext[k] # k
  BY <1>2, <1>3 DEF Linked
<1>5. QED  BY <1>2, <1>3, <1>4

\* The block before cur is absorbed: cur begins where it began.
LEMMA ReclaimPreviousStep ==
  ASSUME IInv, ReclaimPrevious
  PROVE  IInv'
<1>1. Sound /\ pc = "reclaim_prev" /\ pc' = pc
  BY DEF ReclaimPrevious, Sound
<1>2. PICK c \in live : c = cur /\ ~used[c]
  BY <1>1 DEF IInv, Reclaiming
<1>3. PICK g \in live : /\ g = lprevious[c] /\ ~used[g] /\ ptr[g] + size[g] = ptr[c]
                        /\ lnext[g] = c
  <2>1. Linked(c) /\ lprevious[c] # NULL /\ ~used[lprevious[c]]
        /\ ptr[lprevious[c]] + size[lprevious[c]] = ptr[c]
    BY <1>1, <1>2, PlainChain
    DEF IInv, ReclaimPrevious, MergesWithPrevious, Adjacent
  <2>2. QED  BY <2>1 DEF Linked
<1>4. /\ c # g /\ first_block \in live
      /\ \A k \in live : /\ ptr[k] \in Nat /\ size[k] \in Nat /\ size[k] >= 1
                         /\ k \in Items /\ k # NULL
                         /\ Linked(k)
                         /\ lnext[k] # k
  BY <1>1, <1>3, MergeBlocks
<1>5. PICK q : q = lprevious[g]
  OBVIOUS
<1>6. /\ live' = live \ {g}
      /\ size_list' = Unlink(Push(Unlink(size_list, c, size[c]), c,
                                  size[c] + size[g]), g, size[g])
      /\ size' = [size EXCEPT ![c] = size[c] + size[g], ![g] = 0]
      /\ ptr' = [ptr EXCEPT ![c] = ptr[g], ![g] = 0]
      /\ lprevious' = [lprevious EXCEPT ![c] = q, ![g] = NULL]
      /\ lnext' = [k \in Items |-> IF k = g THEN NULL
                                   ELSE IF k = q THEN c ELSE lnext[k]]
      /\ first_block' = IF q = NULL THEN c ELSE first_block
      /\ number_of_blocks' = number_of_blocks - 1
      /\ UNCHANGED <<used, mem_free, mem_used, number_of_blocks_used, memory_error,
                     memory_start, lost, target, reply, cur, pc>>
  BY <1>2, <1>3, <1>4, <1>5 DEF ReclaimPrevious, Absorb, IInv, TypeOK
<1>7. /\ ptr \in [Items -> Nat] /\ size \in [Items -> Nat] /\ live \subseteq Items
      /\ lprevious \in [Items -> Items \cup {NULL}]
      /\ lnext \in [Items -> Items \cup {NULL}]
  BY <1>1, Parts DEF IInv, TypeOK
<1>8. /\ ptr'[c] = ptr[g] /\ size'[c] = size[c] + size[g]
      /\ \A k \in live \ {c, g} : ptr'[k] = ptr[k] /\ size'[k] = size[k]
      /\ ptr' \in [Items -> Nat] /\ size' \in [Items -> Nat]
  BY <1>4, <1>6, <1>7
<1>9. /\ c \in FreeBlocks /\ g \in FreeBlocks /\ FreeBlocks' = FreeBlocks \ {g}
      /\ FreeBlocks \subseteq live
  BY <1>2, <1>3, <1>6 DEF FreeBlocks, UsedBlocks
<1>10. Listed(size_list', FreeBlocks', size')
  <2>1. \A k \in FreeBlocks \ {c, g} : size'[k] = size[k]
    BY <1>8, <1>9
  <2>2. QED  BY <1>1, <1>4, <1>6, <1>8, <1>9, <2>1, MergeListed
<1>11. TypeOK'
  <2>1. size_list' \in [0 .. Top -> Seq(Items)]
    BY <1>10 DEF Listed
  <2>2. ptr' \in [Items -> Int] /\ size' \in [Items -> Int] /\ live' \subseteq Items
    BY <1>6, <1>7, <1>8
  <2>3. q \in Items \cup {NULL}
    BY <1>4, <1>5, <1>7
  <2>4. /\ lprevious' \in [Items -> Items \cup {NULL}]
        /\ lnext' \in [Items -> Items \cup {NULL}]
        /\ first_block' \in Items \cup {NULL}
    BY <1>4, <1>6, <1>7, <2>3 DEF IInv, TypeOK
  <2>5. number_of_blocks' \in Int
    BY <1>6 DEF IInv, TypeOK
  <2>6. QED
    BY <1>6, <1>8, <2>1, <2>2, <2>4, <2>5 DEF IInv, TypeOK
<1>12. Closed'
  BY <1>1, <1>2, <1>6 DEF IInv, Closed, Sound
<1>13. Partition'
  BY <1>1, <1>3, <1>4, <1>6, <1>8, MergePartition
<1>14. Chain'
  <2>1. Linked(c) /\ Linked(g) /\ g \notin {c, q, lnext[c]} /\ c \notin {q, lnext[c]}
        /\ (q # NULL => q \in live /\ lnext[q] = g /\ ptr[q] + size[q] <= ptr[g])
    <3>1. Linked(c) /\ Linked(g) /\ c # NULL /\ g # NULL
      BY <1>4
    <3>2. q # NULL => q \in live /\ lnext[q] = g
      BY <1>5, <3>1 DEF Linked
    <3>3. q # NULL => ptr[q] + size[q] <= ptr[g] /\ q # g
      BY <1>4, <3>2 DEF Linked
    <3>4. lnext[c] # g /\ lnext[c] # c
      BY <1>3, <1>4, <3>1 DEF Linked
    <3>5. q # c
      BY <3>1, <3>2, <3>4
    <3>6. QED  BY <1>4, <3>1, <3>2, <3>3, <3>4, <3>5
  <2>2. /\ lprevious'[c] = q /\ lnext'[c] = lnext[c]
        /\ q # NULL => lnext'[q] = c
        /\ \A k \in live \ {g, c} : lprevious'[k] = lprevious[k]
        /\ \A k \in live \ {g, q} : lnext'[k] = lnext[k]
    BY <1>4, <1>6, <1>7, <2>1
  <2>3. Linked(c)'
    <3>1. q = NULL <=> c = first_block'
      <4>1. c # first_block
        BY <1>3, <1>4, <2>1 DEF Linked
      <4>2. QED  BY <1>6, <4>1
    <3>2. q # NULL => q \in live' /\ lnext'[q] = c
      BY <1>6, <2>1, <2>2
    <3>3. lnext[c] # NULL => /\ lnext[c] \in live' /\ lprevious'[lnext[c]] = c
                            /\ ptr'[c] + size'[c] <= ptr'[lnext[c]]
      <4>1. lnext[c] # NULL => /\ lnext[c] \in live \ {g, c}
                              /\ lprevious[lnext[c]] = c
                              /\ ptr[c] + size[c] <= ptr[lnext[c]]
        BY <2>1 DEF Linked
      <4>2. ptr'[c] + size'[c] = ptr[c] + size[c]
        BY <1>3, <1>4, <1>8
      <4>3. QED  BY <1>6, <1>8, <2>2, <4>1, <4>2
    <3>4. QED  BY <2>2, <3>1, <3>2, <3>3 DEF Linked
  <2>4. ASSUME NEW k \in live \ {c, g}
        PROVE  Linked(k)'
    <3>1. Linked(k) /\ k # NULL
      BY <1>4
    <3>2. lprevious'[k] = NULL <=> k = first_block'
      <4>1. CASE q = NULL
        <5>1. g = first_block
          BY <1>5, <2>1, <4>1 DEF Linked
        <5>2. QED  BY <1>6, <2>2, <3>1, <4>1, <5>1 DEF Linked
      <4>2. CASE q # NULL
        BY <1>6, <2>2, <3>1, <4>2 DEF Linked
      <4>3. QED  BY <4>1, <4>2
    <3>3. lprevious[k] # NULL => lprevious[k] \in live' /\ lnext'[lprevious[k]] = k
      <4>1. lprevious[k] # NULL =>
              lprevious[k] \in live \ {g, q} /\ lnext[lprevious[k]] = k
        BY <1>3, <1>5, <2>1, <3>1 DEF Linked
      <4>2. QED  BY <1>6, <2>2, <4>1
    <3>4. lnext'[k] # NULL => /\ lnext'[k] \in live' /\ lprevious'[lnext'[k]] = k
                             /\ ptr'[k] + size'[k] <= ptr'[lnext'[k]]
      <4>1. CASE k = q
        BY <1>4, <1>6, <1>8, <2>1, <2>2, <4>1
      <4>2. CASE k # q
        <5>1. lnext'[k] = lnext[k]
          BY <2>2, <4>2
        <5>2. lnext[k] # NULL => /\ lnext[k] \in live \ {g, c}
                                /\ lprevious[lnext[k]] = k
                                /\ ptr[k] + size[k] <= ptr[lnext[k]]
          BY <1>3, <1>5, <2>1, <3>1, <4>2 DEF Linked
        <5>3. lnext[k] # NULL => /\ lnext[k] \in live'
                                /\ lprevious'[lnext[k]] = k
                                /\ ptr'[lnext[k]] = ptr[lnext[k]]
          BY <1>6, <1>8, <2>2, <5>2
        <5>4. ptr'[k] = ptr[k] /\ size'[k] = size[k]
          BY <1>8
        <5>5. QED  BY <5>1, <5>2, <5>3, <5>4
      <4>3. QED  BY <4>1, <4>2
    <3>5. QED  BY <2>2, <3>2, <3>3, <3>4 DEF Linked
  <2>5. first_block' \in live'
    <3>1. q # NULL => first_block # g
      BY <1>4, <1>5, <2>1 DEF Linked
    <3>2. QED  BY <1>4, <1>6, <3>1
  <2>6. \A k \in live' : Linked(k)'
    BY <1>6, <2>3, <2>4
  <2>7. QED  BY <2>5, <2>6, PlainChainPrime
<1>15. SizeLists' /\ Reclaiming'
  <2>1. cur' \in live' /\ ~used'[cur']
    BY <1>2, <1>4, <1>6
  <2>2. QED  BY <1>1, <1>10, <2>1 DEF SizeLists, Listed, Reclaiming
<1>16. QED  BY <1>11, <1>12, <1>13, <1>14, <1>15 DEF IInv

\* The block after cur is absorbed, and the loop goes on after it.
LEMMA ReclaimNextStep ==
  ASSUME IInv, ReclaimNext
  PROVE  IInv'
<1>1. Sound /\ pc = "reclaim_next" /\ pc' = pc
  BY DEF ReclaimNext, Sound
<1>2. PICK c \in live : c = cur /\ ~used[c]
  BY <1>1 DEF IInv, Reclaiming, ReclaimNext, MergesWithNext
<1>3. PICK g \in live : /\ g = lnext[c] /\ ~used[g] /\ ptr[c] + size[c] = ptr[g]
                        /\ lprevious[g] = c
  <2>1. Linked(c) /\ lnext[c] # NULL /\ ~used[lnext[c]]
        /\ ptr[c] + size[c] = ptr[lnext[c]]
    BY <1>1, <1>2, PlainChain DEF IInv, ReclaimNext, MergesWithNext, Adjacent
  <2>2. QED  BY <2>1 DEF Linked
<1>4. /\ c # g /\ first_block \in live
      /\ \A k \in live : /\ ptr[k] \in Nat /\ size[k] \in Nat /\ size[k] >= 1
                         /\ k \in Items /\ k # NULL
                         /\ Linked(k)
                         /\ lnext[k] # k
  BY <1>1, <1>3, MergeBlocks
<1>5. PICK y : y = lnext[g]
  OBVIOUS
<1>6. /\ live' = live \ {g}
      /\ size_list' = Unlink(Push(Unlink(size_list, c, size[c]), c,
                                  size[c] + size[g]), g, size[g])
      /\ size' = [size EXCEPT ![c] = size[c] + size[g], ![g] = 0]
      /\ ptr' = [ptr EXCEPT ![g] = 0]
      /\ lnext' = [lnext EXCEPT ![c] = y, ![g] = NULL]
      /\ lprevious' = [k \in Items |-> IF k = g THEN NULL
                                       ELSE IF k = y THEN c ELSE lprevious[k]]
      /\ cur' = y
      /\ number_of_blocks' = number_of_blocks - 1
      /\ UNCHANGED <<used, mem_free, mem_used, number_of_blocks_used, memory_error,
                     memory_start, lost, target, reply, first_block, pc>>
  BY <1>2, <1>3, <1>4, <1>5 DEF ReclaimNext, Absorb, IInv, TypeOK
<1>7. /\ ptr \in [Items -> Nat] /\ size \in [Items -> Nat] /\ live \subseteq Items
      /\ lprevious \in [Items -> Items \cup {NULL}]
      /\ lnext \in [Items -> Items \cup {NULL}]
  BY <1>1, Parts DEF IInv, TypeOK
<1>8. /\ ptr'[c] = ptr[c] /\ size'[c] = size[c] + size[g]
      /\ \A k \in live \ {c, g} : ptr'[k] = ptr[k] /\ size'[k] = size[k]
      /\ ptr' \in [Items -> Nat] /\ size' \in [Items -> Nat]
  BY <1>4, <1>6, <1>7
<1>9. /\ c \in FreeBlocks /\ g \in FreeBlocks /\ FreeBlocks' = FreeBlocks \ {g}
      /\ FreeBlocks \subseteq live
  BY <1>2, <1>3, <1>6 DEF FreeBlocks, UsedBlocks
<1>10. Listed(size_list', FreeBlocks', size')
  <2>1. \A k \in FreeBlocks \ {c, g} : size'[k] = size[k]
    BY <1>8, <1>9
  <2>2. QED  BY <1>1, <1>4, <1>6, <1>8, <1>9, <2>1, MergeListed
<1>11. /\ y # NULL => y \in live \ {g, c} /\ lprevious[y] = g
                                        /\ ptr[g] + size[g] <= ptr[y]
  <2>1. Linked(g) /\ Linked(c)
    BY <1>4
  <2>2. y # NULL => y \in live /\ lprevious[y] = g /\ ptr[g] + size[g] <= ptr[y]
                    /\ y # g
    BY <1>4, <1>5, <2>1 DEF Linked
  <2>3. y # c
    <3>1. ptr[c] < ptr[g] /\ ptr[g] \in Nat /\ size[g] \in Nat /\ ptr[c] \in Nat
      BY <1>3, <1>4
    <3>2. c # NULL
      BY <1>4
    <3>3. QED  BY <2>2, <3>1, <3>2
  <2>4. QED  BY <2>2, <2>3
<1>12. TypeOK'
  <2>1. size_list' \in [0 .. Top -> Seq(Items)]
    BY <1>10 DEF Listed
  <2>2. ptr' \in [Items -> Int] /\ size' \in [Items -> Int] /\ live' \subseteq Items
    BY <1>6, <1>7, <1>8
  <2>3. y \in Items \cup {NULL}
    BY <1>4, <1>5, <1>7
  <2>4. /\ lprevious' \in [Items -> Items \cup {NULL}]
        /\ lnext' \in [Items -> Items \cup {NULL}]
        /\ cur' \in Items \cup {NULL}
    BY <1>4, <1>6, <1>7, <2>3
  <2>5. number_of_blocks' \in Int
    BY <1>6 DEF IInv, TypeOK
  <2>6. QED
    BY <1>6, <1>8, <2>1, <2>2, <2>4, <2>5 DEF IInv, TypeOK
<1>13. Closed'
  BY <1>1, <1>2, <1>6 DEF IInv, Closed, Sound
<1>14. Partition'
  BY <1>1, <1>3, <1>4, <1>6, <1>8, MergePartition
<1>15. Chain'
  <2>1. Linked(c) /\ Linked(g)
    BY <1>4
  <2>2. /\ lnext'[c] = y /\ lprevious'[c] = lprevious[c]
        /\ y # NULL => lprevious'[y] = c
        /\ \A k \in live \ {g, c} : lnext'[k] = lnext[k]
        /\ \A k \in live \ {g, y} : lprevious'[k] = lprevious[k]
    BY <1>4, <1>6, <1>7, <1>11
  <2>3. lprevious[c] # g
    BY <1>3, <1>4, <1>11, <1>5, <2>1 DEF Linked
  <2>4. Linked(c)'
    <3>1. lprevious[c] # NULL => lprevious[c] \in live' /\ lnext'[lprevious[c]] = c
      <4>1. lprevious[c] # NULL =>
              lprevious[c] \in live \ {g, c} /\ lnext[lprevious[c]] = c
        BY <1>4, <2>1, <2>3 DEF Linked
      <4>2. QED  BY <1>6, <2>2, <4>1
    <3>2. y # NULL => /\ y \in live' /\ ptr'[c] + size'[c] <= ptr'[y]
      BY <1>3, <1>4, <1>6, <1>8, <1>11
    <3>3. lprevious'[c] = NULL <=> c = first_block'
      BY <1>6, <2>1, <2>2 DEF Linked
    <3>4. QED  BY <2>2, <3>1, <3>2, <3>3 DEF Linked
  <2>5. ASSUME NEW k \in live \ {c, g}
        PROVE  Linked(k)'
    <3>1. Linked(k) /\ k # NULL
      BY <1>4
    <3>2. /\ lprevious'[k] = NULL <=> k = first_block'
          /\ lprevious'[k] # NULL => /\ lprevious'[k] \in live'
                                    /\ lnext'[lprevious'[k]] = k
      <4>1. CASE k = y
        <5>1. lprevious'[k] = c /\ c # NULL /\ c \in live' /\ lnext'[c] = k
          BY <1>4, <1>6, <2>2, <3>1, <4>1
        <5>2. k # first_block
          BY <1>4, <1>11, <3>1, <4>1 DEF Linked
        <5>3. QED  BY <1>6, <5>1, <5>2
      <4>2. CASE k # y
        <5>1. lprevious'[k] = lprevious[k]
          BY <2>2, <4>2
        <5>2. lprevious[k] # NULL =>
                lprevious[k] \in live \ {g, c} /\ lnext[lprevious[k]] = k
          BY <1>3, <1>5, <3>1, <4>2 DEF Linked
        <5>3. lprevious[k] # NULL =>
                lprevious[k] \in live' /\ lnext'[lprevious[k]] = k
          BY <1>6, <2>2, <5>2
        <5>4. (lprevious[k] = NULL <=> k = first_block) /\ first_block' = first_block
          BY <1>6, <3>1 DEF Linked
        <5>5. QED  BY <5>1, <5>3, <5>4
      <4>3. QED  BY <4>1, <4>2
    <3>3. lnext[k] # NULL => /\ lnext[k] \in live' /\ lprevious'[lnext[k]] = k
                            /\ ptr'[k] + size'[k] <= ptr'[lnext[k]]
      <4>1. lnext[k] # NULL => /\ lnext[k] \in live \ {g, y}
                              /\ lprevious[lnext[k]] = k
                              /\ ptr[k] + size[k] <= ptr[lnext[k]]
        BY <1>3, <1>11, <3>1 DEF Linked
      <4>2. ptr'[k] = ptr[k] /\ size'[k] = size[k]
        BY <1>8
      <4>3. lnext[k] # NULL => ptr'[lnext[k]] = ptr[lnext[k]]
        <5>1. CASE lnext[k] = c
          BY <1>8, <5>1
        <5>2. CASE lnext[k] # c
          BY <1>8, <4>1, <5>2
        <5>3. QED  BY <5>1, <5>2
      <4>4. QED  BY <1>6, <2>2, <4>1, <4>2, <4>3
    <3>4. lnext'[k] = lnext[k]
      BY <2>2
    <3>5. QED  BY <3>2, <3>3, <3>4 DEF Linked
  <2>6. first_block' \in live'
    <3>1. first_block # g
      BY <1>3, <1>4, <2>1 DEF Linked
    <3>2. QED  BY <1>4, <1>6, <3>1
  <2>7. \A k \in live' : Linked(k)'
    BY <1>6, <2>4, <2>5
  <2>8. QED  BY <2>6, <2>7, PlainChainPrime
<1>16. SizeLists' /\ Reclaiming'
  <2>1. cur' = NULL \/ cur' \in live'
    BY <1>6, <1>11
  <2>2. QED  BY <1>1, <1>10, <2>1 DEF SizeLists, Listed, Reclaiming
<1>17. QED  BY <1>12, <1>13, <1>14, <1>15, <1>16 DEF IInv

\* The steps that end a loop of ana_reclaim change no block.
LEMMA ReclaimDoneStep ==
  ASSUME IInv, ReclaimPreviousDone \/ ReclaimNextDone
  PROVE  IInv'
<1>1. /\ UNCHANGED <<live, fields, first_block, size_list, counters, memory_error,
                     memory_start, lost, target, reply>>
      /\ Sound /\ pc' \in {"reclaim_next", "idle"}
      /\ cur' \in {cur, NULL}
      /\ pc' = "reclaim_next" => cur \in live /\ cur' = cur
  BY DEF IInv, Reclaiming, ReclaimPreviousDone, ReclaimNextDone, Sound
<1> USE DEF fields, counters
<1>2. TypeOK'
  BY <1>1 DEF IInv, TypeOK, Sound
<1>3. Closed' /\ Partition'
  BY <1>1 DEF IInv, Closed, Partition, Sound, BlocksInArena, BlocksDisjoint,
         AllCovered, InArena, Disjoint, Covers, Stretch
<1>4. Chain' /\ SizeLists' /\ Reclaiming'
  BY <1>1 DEF IInv, Chain, SizeLists, Reclaiming, Sound, FreeBlocks, UsedBlocks
<1>5. QED  BY <1>2, <1>3, <1>4 DEF IInv

\* A closed arena has no blocks and empty lists.
LEMMA CloseStep ==
  ASSUME IInv, free_ana_memory
  PROVE  IInv'
<1>1. TypeOK'
  <2>1. <<>> \in Seq(Items)
    OBVIOUS
  <2>2. size_list' \in [0 .. Top -> Seq(Items)]
    BY <2>1 DEF free_ana_memory
  <2>3. /\ ptr' \in [Items -> Nat] /\ size' \in [Items -> Nat]
        /\ ptr' \in [Items -> Int] /\ size' \in [Items -> Int]
        /\ used' \in [Items -> BOOLEAN]
        /\ lprevious' \in [Items -> Items \cup {NULL}]
        /\ lnext' \in [Items -> Items \cup {NULL}]
        /\ first_block' \in Items \cup {NULL}
    BY DEF free_ana_memory
  <2>4. /\ reply' \in [asked : Requests \cup {0}, ptr : Int]
        /\ memory_start' \in {0, 1}
        /\ mem_free' \in Int /\ number_of_blocks' \in Int
        /\ number_of_blocks_used' \in Int
    BY DEF free_ana_memory, NoReply, NULL
  <2>5. live' = {} /\ lost' = {}
        /\ UNCHANGED <<mem_used, memory_error, pc, cur, target>>
    BY DEF free_ana_memory
  <2>6. QED  BY <2>2, <2>3, <2>4, <2>5 DEF IInv, TypeOK
<1>2. Closed' /\ Partition' /\ Chain' /\ Reclaiming'
  BY DEF free_ana_memory, Closed, Partition, Chain, Reclaiming
<1>3. SizeLists'
  <2>1. /\ size_list' = [a \in 0 .. Top |-> <<>>]
        /\ FreeBlocks' = {}
    BY DEF free_ana_memory, FreeBlocks, UsedBlocks
  <2>2. IsInjective(<<>>) /\ Range(<<>>) = {}
    BY DEF IsInjective, Range
  <2>3. QED  BY <2>1, <2>2 DEF SizeLists
<1>4. QED  BY <1>1, <1>2, <1>3 DEF IInv

\* Closing twice only sets memory_error; a stutter changes nothing.
LEMMA NothingStep ==
  ASSUME IInv, FreeAnaMemoryAgain \/ UNCHANGED vars
  PROVE  IInv'
<1>1. /\ UNCHANGED <<live, fields, first_block, size_list, counters,
                     memory_start, lost, pc, cur, target, reply>>
      /\ memory_error' \in BOOLEAN
  BY DEF FreeAnaMemoryAgain, vars, IInv, TypeOK
<1> USE DEF fields, counters
<1>2. TypeOK'
  BY <1>1 DEF IInv, TypeOK, Sound
<1>3. Closed' /\ Partition'
  BY <1>1 DEF IInv, Closed, Partition, Sound, BlocksInArena, BlocksDisjoint,
         AllCovered, InArena, Disjoint, Covers, Stretch
<1>4. Chain' /\ SizeLists' /\ Reclaiming'
  BY <1>1 DEF IInv, Chain, SizeLists, Reclaiming, Sound, FreeBlocks, UsedBlocks
<1>5. QED  BY <1>2, <1>3, <1>4 DEF IInv

-----------------------------------------------------------------------------
(***************************************************************************)
(* The theorems                                                            *)
(***************************************************************************)

\* init_ana_memory makes one free block of the whole arena.
LEMMA InitIInv == Init => IInv
<1> SUFFICES ASSUME Init PROVE IInv
  OBVIOUS
<1>0. Item0 \in Items /\ Item0 # NULL
  BY ItemsAssumption DEF Item0
<1>1. ArenaSize \in Nat \ {0} /\ Top \in Nat
  BY ArenaAssumption, HashAssumption DEF Top
<1>2. /\ live = {Item0} /\ ptr[Item0] = 1 /\ size[Item0] = ArenaSize
      /\ ptr \in [Items -> Nat] /\ size \in [Items -> Nat]
      /\ lprevious[Item0] = NULL /\ lnext[Item0] = NULL
      /\ first_block = Item0 /\ lost = {} /\ memory_start = 1
      /\ pc = "idle" /\ FreeBlocks = {Item0}
  BY <1>0, <1>1 DEF Init, FreeBlocks, UsedBlocks
<1>3. Listed(size_list, {Item0}, size)
  <2>1. Bucket(ArenaSize) = Top
    BY LargeArenaAssumption DEF Bucket
  <2>2. /\ <<>> \in Seq(Items) /\ IsInjective(<<>>) /\ Range(<<>>) = {}
        /\ <<Item0>> \in Seq(Items) /\ IsInjective(<<Item0>>)
        /\ Range(<<Item0>>) = {Item0}
    BY <1>0 DEF IsInjective, Range
  <2>3. /\ size_list \in [0 .. Top -> Seq(Items)]
        /\ \A a \in 0 .. Top : size_list[a] = IF a = Top THEN <<Item0>> ELSE <<>>
    BY <2>2 DEF Init
  <2>4. \A a \in 0 .. Top :
          {k \in {Item0} : Bucket(size[k]) = a} = IF a = Top THEN {Item0} ELSE {}
    BY <1>2, <2>1
  <2>5. QED  BY <2>2, <2>3, <2>4 DEF Listed
<1>4. TypeOK
  <2>1. size_list \in [0 .. Top -> Seq(Items)]
    BY <1>3 DEF Listed
  <2>2. /\ used \in [Items -> BOOLEAN]
        /\ lprevious \in [Items -> Items \cup {NULL}]
        /\ lnext \in [Items -> Items \cup {NULL}]
    BY DEF Init
  <2>3. /\ mem_free \in Int /\ mem_used \in Int
        /\ number_of_blocks \in Int /\ number_of_blocks_used \in Int
        /\ target \in Int /\ cur \in Items \cup {NULL}
    BY <1>1 DEF Init, NULL
  <2>4. reply \in [asked : Requests \cup {0}, ptr : Int] /\ memory_error \in BOOLEAN
    <3>1. reply = [asked |-> 0, ptr |-> 0] /\ memory_error = FALSE
      BY DEF Init, NoReply, NULL
    <3>2. reply \in [asked : Requests \cup {0}, ptr : Int]
      BY <3>1
    <3>3. QED  BY <3>1, <3>2
  <2>5. QED  BY <1>0, <1>2, <2>1, <2>2, <2>3, <2>4 DEF TypeOK
<1>5. Closed /\ Reclaiming
  BY <1>2 DEF Closed, Reclaiming, NULL
<1>6. Partition
  <2>1. ArenaFact /\ DisjointFact /\ CoverFact
    BY <1>1, <1>2 DEF ArenaFact, DisjointFact, CoverFact
  <2>2. QED  BY <2>1, PlainPartition DEF Partition
<1>7. Chain
  BY <1>0, <1>2 DEF Chain
<1>8. SizeLists
  BY <1>2, <1>3 DEF SizeLists, Listed
<1>9. QED  BY <1>4, <1>5, <1>6, <1>7, <1>8 DEF IInv

\* Every operation keeps the inductive invariant.
LEMMA NextIInv == IInv /\ [Next]_vars => IInv'
<1> SUFFICES ASSUME IInv, [Next]_vars PROVE IInv'
  OBVIOUS
<1>0. target \in Int /\ reply \in [asked : Requests \cup {0}, ptr : Int]
      /\ (Sound => ptr \in [Items -> Nat]) /\ live \subseteq Items
  BY DEF IInv, TypeOK
<1>1. CASE ana_malloc
  <2>1. PICK n \in Requests : Malloc(n, NULL) /\ pc = "idle"
    BY <1>1 DEF ana_malloc
  <2>2. QED  BY <2>1, MallocStep DEF NULL
<1>2. CASE ana_realloc
  <2>1. PICK n \in Requests, p \in UsedPtrs : Malloc(n, p) /\ pc = "idle"
    BY <1>2 DEF ana_realloc
  <2>2. p \in Int
    BY <1>0, <2>1 DEF UsedPtrs, UsedBlocks, Sound
  <2>3. QED  BY <2>1, <2>2, MallocStep
<1>3. CASE ana_free
  <2>1. PICK p \in UsedPtrs : FreeBlock(p)
    BY <1>3 DEF ana_free
  <2>2. Sound /\ target' \in Int /\ reply' \in [asked : Requests \cup {0}, ptr : Int]
    BY <1>0, <1>3 DEF ana_free, NoReply, NULL, Sound
  <2>3. QED  BY <2>1, <2>2, FreeStep
<1>4. CASE FreeOld
  <2>1. FreeBlock(target) /\ Sound /\ target' \in Int
        /\ reply' \in [asked : Requests \cup {0}, ptr : Int]
    BY <1>0, <1>4 DEF FreeOld, NULL, Sound
  <2>2. QED  BY <2>1, FreeStep
<1>5. CASE ana_reclaim
  BY <1>5, ReclaimPreviousStep, ReclaimNextStep, ReclaimDoneStep DEF ana_reclaim
<1>6. CASE free_ana_memory
  BY <1>6, CloseStep
<1>7. CASE FreeAnaMemoryAgain \/ UNCHANGED vars
  BY <1>7, NothingStep
<1>8. QED
  BY <1>1, <1>2, <1>3, <1>4, <1>5, <1>6, <1>7 DEF Next

\* ana_memory.c keeps its inductive invariant.
THEOREM Invariant == Spec => []IInv
  BY InitIInv, NextIInv, PTL DEF Spec

\* Every variable keeps its type, whatever is allocated and freed.
THEOREM Types == Spec => []TypeOK
<1>1. IInv => TypeOK
  BY DEF IInv
<1>2. QED  BY <1>1, Invariant, PTL

\* ana_malloc, ana_realloc, ana_free and ana_reclaim keep the blocks a
\* partition of the arena: no address is handed to two callers, none leaks.
THEOREM ArenaIsPartitioned == Spec => []Partition
<1>1. IInv => Partition
  BY DEF IInv
<1>2. QED  BY <1>1, Invariant, PTL

\* The list of blocks is doubly linked in address order through every split
\* and merge.
THEOREM BlocksAreChained == Spec => []Chain
<1>1. IInv => Chain
  BY DEF IInv
<1>2. QED  BY <1>1, Invariant, PTL

\* The size lists hold the free blocks, each once and by its size.
THEOREM FreeBlocksAreListed == Spec => []SizeLists
<1>1. IInv => SizeLists
  BY DEF IInv
<1>2. QED  BY <1>1, Invariant, PTL
=============================================================================
