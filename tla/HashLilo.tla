------------------------------ MODULE HashLilo ------------------------------
(***************************************************************************)
(* The cache of the elements of a book: the hash_lilo of src/ana_utils.c   *)
(* (get_hash_lilo_obj) with the objects that create_sgml_obj makes.        *)
(*                                                                         *)
(* A cached object has a cell (struct hash_lilo_item_inf) that is on the   *)
(* chain of its number in htable and on a list in order of use (lilo).     *)
(* To make an object the code builds its path (make_element_path), and for *)
(* that fetches all its ancestors: get_hash_lilo_obj calls itself, and     *)
(* each level may put cells in front and wipe others out at the end while  *)
(* the levels above it wait.  frames is that stack of calls, the innermost *)
(* last.                                                                   *)
(*                                                                         *)
(* A step is a piece of code between two calls of get_hash_lilo_obj, or an *)
(* iteration of its wipe-out loop.  The hash chains are sequences; the     *)
(* links of lilo are as in the code.                                       *)
(***************************************************************************)
EXTENDS Integers, Sequences, FiniteSets, SequencesExt

CONSTANTS
  Elements,   \* the numbers of the elements of the book, 0 is the outermost
  ancestor,   \* the field ancestor of each, as the .ngv file has it
  Charge,     \* what create_sgml_obj says an element takes (allocated)
  Capacity,   \* capacity
  HtableSize, \* htable_size
  n_levels,   \* the length of these_levels
  Cells,      \* where ana_malloc can put a cell
  Junk        \* what an uninitialized int may be

ASSUME BookAssumption ==
  /\ Elements \subseteq Nat
  /\ 0 \in Elements
  /\ ancestor \in [Elements -> Elements]
  /\ ancestor[0] = 0
  /\ \A e \in Elements \ {0} : ancestor[e] < e
ASSUME SizesAssumption ==
  /\ Charge \in [Elements -> Nat \ {0}]
  /\ Capacity \in Nat \ {0}
  /\ HtableSize \in Nat \ {0}
  /\ n_levels \in Nat \ {0}
  /\ Junk \subseteq Int

VARIABLES
  cells,      \* the cells in use
  comp_int,   \* the number of the element of each cell
  path,       \* the path of its object: the elements whose names it joins
  htable,     \* for each index, the cells chained by next_hash
  lilo,       \* first_lilo, last_lilo and the links of the cells
  current, number,
  frames,     \* the calls of get_hash_lilo_obj that are making an object
  state,      \* of the book: open, closing, closed; overrun
  failed      \* a cell was refused (history: at most once, the bound)

vars == <<cells, comp_int, path, htable, lilo, current, number, frames,
          state, failed>>

NULL == "NULL"
ASSUME CellsAssumption == Cells # {} /\ NULL \notin Cells

Index(n) == n % HtableSize

\* The cell of element n, or NULL: the search of the chain.
\* Variant: the numbers are not compared.
LookupAny(n) ==
  IF htable[Index(n)] = <<>> THEN NULL ELSE Head(htable[Index(n)])
Lookup(n) ==
  LET chain == htable[Index(n)]
      k == SelectInSeq(chain, LAMBDA c : comp_int[c] = n)
  IN IF k = 0 THEN NULL ELSE chain[k]

(***************************************************************************)
(* The list in order of use                                                *)
(***************************************************************************)
\* Cell c taken out of the list.  Variant: last_lilo is not looked at.
UnlinkedButLast(l, c) ==
  [l EXCEPT
     !.next = [x \in Cells |-> IF x = l.prev[c] THEN l.next[c]
                               ELSE IF x = c THEN NULL ELSE l.next[x]],
     !.prev = [x \in Cells |-> IF x = l.next[c] THEN l.prev[c]
                               ELSE IF x = c THEN NULL ELSE l.prev[x]],
     !.first = IF c = @ THEN l.next[c] ELSE @]
Unlinked(l, c) ==
  [UnlinkedButLast(l, c) EXCEPT !.last = IF c = @ THEN l.prev[c] ELSE @]

\* Cell c, on no list, put at the end.  Variant of AtFront.
AtEnd(l, c) ==
  IF l.last = NULL
  THEN [l EXCEPT !.first = c, !.last = c]
  ELSE [l EXCEPT !.next[l.last] = c, !.prev[c] = l.last, !.last = c]
\* Cell c, on no list, put in front.
AtFront(l, c) ==
  IF l.first = NULL
  THEN [l EXCEPT !.first = c, !.last = c]
  ELSE [l EXCEPT !.next[c] = l.first, !.prev[l.first] = c, !.first = c]

\* The list without its last cell.
WithoutLast(l) ==
  LET p == l.prev[l.last] IN
  [l EXCEPT !.last = p,
            !.first = IF p = NULL THEN NULL ELSE @,
            !.next = IF p = NULL THEN @ ELSE [@ EXCEPT ![p] = NULL],
            !.prev[l.last] = NULL]

\* Cell c and its object are given back: what they held is not read any more.
Freed(c) ==
  /\ cells' = cells \ {c}
  /\ comp_int' = [comp_int EXCEPT ![c] = 0]
  /\ path' = [path EXCEPT ![c] = <<>>]

Unchained(table, c) == [table EXCEPT ![Index(comp_int[c])] = RemoveFirst(@, c)]

(***************************************************************************)
(* init_hash_lilo                                                          *)
(***************************************************************************)
Init ==
  /\ cells = {}
  /\ comp_int = [c \in Cells |-> 0]
  /\ path = [c \in Cells |-> <<>>]
  /\ htable = [a \in 0 .. HtableSize - 1 |-> <<>>]
  /\ lilo = [first |-> NULL, last |-> NULL,
             next |-> [c \in Cells |-> NULL], prev |-> [c \in Cells |-> NULL]]
  /\ current = 0
  /\ number = 0
  /\ frames = <<>>
  /\ state = "open"
  /\ failed = FALSE

(***************************************************************************)
(* get_hash_lilo_obj                                                       *)
(***************************************************************************)
Calls(fs) == fs # <<>>
Top == frames[Len(frames)]
WithTop(f) == [frames EXCEPT ![Len(frames)] = f]

\* A call that begins to make element n (create_sgml_obj, read_this_el).
NewFrame(n) ==
  [el |-> n, num |-> n, check |-> NULL, levels |-> <<>>, path |-> <<>>,
   phase |-> "up"]

\* The caller gets cell c: check_el of make_element_path, if that called.
Return(fs, c) == IF fs = <<>> THEN fs ELSE [fs EXCEPT ![Len(fs)].check = c]

\* The calls fs ask for element n.  An object that is there moves to the front.
Get(n, fs) ==
  LET c == Lookup(n) IN
  /\ IF c # NULL
     THEN /\ lilo' = IF c = lilo.first THEN lilo ELSE AtFront(Unlinked(lilo, c), c)
          /\ frames' = Return(fs, c)
     ELSE /\ frames' = Append(fs, NewFrame(n))
          /\ UNCHANGED lilo
  /\ UNCHANGED <<cells, comp_int, path, htable, current, number, state, failed>>

\* A caller outside the cache fetches an element: get_next_sgml_obj.
get_next_sgml_obj ==
  /\ state = "open"
  /\ frames = <<>>
  /\ \E n \in Elements : Get(n, <<>>)

\* make_element_path goes up: the number of check_el is noted, and the
\* element it says is its ancestor is fetched.
Up ==
  /\ state = "open" /\ Calls(frames)
  /\ Top.phase = "up"
  /\ Top.num # 0
  /\ Len(Top.levels) < n_levels
  /\ LET check_el == IF Top.check = NULL THEN Top.el ELSE comp_int[Top.check]
         up == ancestor[check_el]
     IN Get(up, WithTop([Top EXCEPT !.levels = Append(@, Top.num), !.num = up]))

\* At the top: one more entry of these_levels is written, there or not.
UpDone ==
  /\ state = "open" /\ Calls(frames)
  /\ Top.phase = "up"
  /\ Top.num = 0 \/ Len(Top.levels) = n_levels
  /\ frames' = WithTop([Top EXCEPT !.levels = Append(@, 0), !.phase = "down"])
  /\ state' = IF Len(Top.levels) = n_levels THEN "overrun" ELSE state
  /\ UNCHANGED <<cells, comp_int, path, htable, lilo, current, number, failed>>

\* The way down: the levels that were noted are fetched again, outermost first.
Down ==
  /\ state = "open" /\ Calls(frames)
  /\ Top.phase = "down"
  /\ Len(Top.levels) > 1
  /\ Get(Last(Top.levels), WithTop([Top EXCEPT !.phase = "gi"]))

\* The name of the element that was fetched joins the path.
\* Variant: the name of the element whose path it is.
NamedForItself(f) == Append(f.path, f.el)
Named(f) == Append(f.path, comp_int[f.check])

AddGi ==
  /\ state = "open" /\ Calls(frames)
  /\ Top.phase = "gi"
  /\ frames' = WithTop([Top EXCEPT !.path = Named(Top),
                                   !.levels = Front(@),
                                   !.phase = "down"])
  /\ UNCHANGED <<cells, comp_int, path, htable, lilo, current, number, state,
                 failed>>

\* The object is made: new_hash_lilo_item gives it a cell, which goes on its
\* chain before room is made for it.
NewCell ==
  /\ state = "open" /\ Calls(frames)
  /\ Top.phase = "down"
  /\ Len(Top.levels) = 1
  /\ \E c \in Cells \ cells :
       /\ cells' = cells \cup {c}
       /\ comp_int' = [comp_int EXCEPT ![c] = Top.el]
       /\ path' = [path EXCEPT ![c] = Append(Top.path, Top.el)]
       /\ htable' = [htable EXCEPT ![Index(Top.el)] = Append(@, c)]
       /\ frames' = WithTop([Top EXCEPT !.check = c, !.phase = "room"])
  /\ UNCHANGED <<lilo, current, number, state, failed>>

\* new_hash_lilo_item has no memory: the object is deleted, and what it took,
\* which was never added, is subtracted from current together with whatever
\* reclaimed held before.
CellRefused ==
  /\ state = "open" /\ Calls(frames)
  /\ Top.phase = "down"
  /\ Len(Top.levels) = 1
  /\ ~failed
  /\ failed' = TRUE
  /\ \E junk \in Junk : current' = current - (junk + Charge[Top.el])
  /\ frames' = <<>>
  /\ UNCHANGED <<cells, comp_int, path, htable, lilo, number, state>>

\* A read of the book's files or an ana_malloc fails: every call gives up.
ReadFails ==
  /\ state = "open" /\ Calls(frames)
  /\ Top.phase # "room"
  /\ frames' = <<>>
  /\ UNCHANGED <<cells, comp_int, path, htable, lilo, current, number, state,
                 failed>>

\* The test of the wipe-out loop.  Variant: current is taken before the object.
NoRoomBefore(f) == current > Capacity /\ lilo.last # NULL
NoRoom(f) == current + Charge[f.el] > Capacity /\ lilo.last # NULL

\* Variant: the loop goes on until the object fits.
HasRoomOnlyIfItFits(f) == current + Charge[f.el] <= Capacity
HasRoom(f) == ~NoRoom(f)

\* Variant: the number of objects is not kept.
CountInBytesOnly(c) ==
  /\ current' = current + Charge[comp_int[c]]
  /\ UNCHANGED number
CountIn(c) ==
  /\ current' = current + Charge[comp_int[c]]
  /\ number' = number + 1

\* Variant: what the object took is not given back.
CountOutNumberOnly(c) ==
  /\ number' = number - 1
  /\ UNCHANGED current
CountOut(c) ==
  /\ current' = current - Charge[comp_int[c]]
  /\ number' = number - 1

\* The cell used longest ago is wiped out.
Evict ==
  /\ state = "open" /\ Calls(frames)
  /\ Top.phase = "room"
  /\ NoRoom(Top)
  /\ LET c == lilo.last IN
       /\ htable' = Unchained(htable, c)
       /\ lilo' = WithoutLast(lilo)
       /\ CountOut(c)
       /\ Freed(c)
  /\ UNCHANGED <<frames, state, failed>>

\* There is room: the cell goes in front and the call returns its object.
Insert ==
  /\ state = "open" /\ Calls(frames)
  /\ Top.phase = "room"
  /\ HasRoom(Top)
  /\ lilo' = AtFront(lilo, Top.check)
  /\ CountIn(Top.check)
  /\ frames' = Return(Front(frames), Top.check)
  /\ UNCHANGED <<cells, comp_int, path, htable, state, failed>>

(***************************************************************************)
(* clear_sgml_items, when the book is closed.  number is left as it was.   *)
(***************************************************************************)
clear_hash_lilo ==
  /\ state = "open"
  /\ frames = <<>>
  /\ state' = "closing"
  /\ UNCHANGED <<cells, comp_int, path, htable, lilo, current, number, frames,
                 failed>>

NonEmpty == {a \in 0 .. HtableSize - 1 : htable[a] # <<>>}

\* The next cell of the chains, in the order of the table.
ClearItem ==
  /\ state = "closing"
  /\ NonEmpty # {}
  /\ LET c == Head(htable[Min(NonEmpty)]) IN
       /\ htable' = [htable EXCEPT ![Min(NonEmpty)] = Tail(@)]
       /\ lilo' = Unlinked(lilo, c)
       /\ current' = current - Charge[comp_int[c]]
       /\ Freed(c)
  /\ UNCHANGED <<number, frames, state, failed>>

ClearDone ==
  /\ state = "closing"
  /\ NonEmpty = {}
  /\ state' = "closed"
  /\ UNCHANGED <<cells, comp_int, path, htable, lilo, current, number, frames,
                 failed>>

get_hash_lilo_obj == Up \/ UpDone \/ Down \/ AddGi \/ NewCell \/ Evict \/ Insert

Next ==
  \/ get_next_sgml_obj
  \/ get_hash_lilo_obj
  \/ CellRefused
  \/ ReadFails
  \/ clear_hash_lilo
  \/ ClearItem
  \/ ClearDone

\* A call that has begun is carried on; nothing says that it ever fails.
Fairness == WF_vars(get_hash_lilo_obj) /\ WF_vars(ClearItem) /\ WF_vars(ClearDone)

Spec == Init /\ [][Next]_vars /\ Fairness

-----------------------------------------------------------------------------
(***************************************************************************)
(* Properties                                                              *)
(***************************************************************************)
Levels == Elements \cup {0}
Frame == [el : Elements, num : Elements, check : Cells \cup {NULL},
          levels : Seq(Levels), path : Seq(Elements),
          phase : {"up", "down", "gi", "room"}]

\* Every variable has the values its C type and its use give it.
TypeOK ==
  /\ cells \subseteq Cells
  /\ comp_int \in [Cells -> Elements]
  /\ path \in [Cells -> Seq(Elements)]
  /\ htable \in [0 .. HtableSize - 1 -> Seq(Cells)]
  /\ lilo \in [first : Cells \cup {NULL}, last : Cells \cup {NULL},
               next : [Cells -> Cells \cup {NULL}],
               prev : [Cells -> Cells \cup {NULL}]]
  /\ current \in Int
  /\ number \in Nat
  /\ frames \in Seq(Frame)
  /\ state \in {"open", "closing", "closed", "overrun"}
  /\ failed \in BOOLEAN

\* The cell that is on its chain but not yet on the list.
Incoming ==
  IF Calls(frames) /\ Top.phase = "room" THEN {Top.check} ELSE {}
Listed == cells \ Incoming

\* Table and list agree: every cell in use is on the chain of its number, once,
\* no number has two, and the list links all of them but an incoming one.
Consistent ==
  /\ \A a \in 0 .. HtableSize - 1 :
       /\ IsInjective(htable[a])
       /\ Range(htable[a]) = {c \in cells : Index(comp_int[c]) = a}
  /\ \A c, d \in cells : comp_int[c] = comp_int[d] => c = d
  /\ lilo.first = NULL <=> Listed = {}
  /\ lilo.last = NULL <=> Listed = {}
  /\ \A c \in Listed :
       /\ lilo.prev[c] = NULL <=> c = lilo.first
       /\ lilo.next[c] = NULL <=> c = lilo.last
       /\ lilo.next[c] # NULL => lilo.next[c] \in Listed /\ lilo.prev[lilo.next[c]] = c
       /\ lilo.prev[c] # NULL => lilo.prev[c] \in Listed /\ lilo.next[lilo.prev[c]] = c

\* The bytes of the cells of S.
Takes == [c \in Cells |-> Charge[comp_int[c]]]
Bytes(S) == SumFunctionOnSet(Takes, S)

\* current and number are what the list holds (number until the book closes).
Counted ==
  /\ ~failed => current = Bytes(Listed)
  /\ state = "open" => number = Cardinality(Listed)

\* What the wipe-out loop is for: the cache takes no more than its capacity,
\* but for an element too large for it on its own.
WithinCapacity == Bytes(Listed) <= Capacity \/ Cardinality(Listed) <= 1

\* The same as long as no cell has been refused.
Bounded == ~failed => WithinCapacity

\* The elements from the outermost to n.
PathTo == [n \in Elements |->
  LET to[k \in Elements] == IF k = 0 THEN <<0>> ELSE Append(to[ancestor[k]], k)
  IN to[n]]

\* However often its ancestors are wiped out and made again, and other paths
\* are built, while it is made: a cached object has its own path.
PathsRight == \A c \in cells : path[c] = PathTo[comp_int[c]]

\* What make_element_path reads of check_el, its ancestor and its name, it reads
\* of an object that is there ("guarantees that ancestor elements stay in scope").
InScope ==
  Calls(frames) /\ Top.check # NULL /\ Top.phase \in {"up", "gi"} =>
    /\ Top.check \in Listed
    /\ Top.phase = "up" => comp_int[Top.check] = Top.num

\* No path is longer than the array for its levels: "has to be made to work in
\* ALL circumstances".  It is not for elements n_levels deep.
PathsFit == state # "overrun"

\* A fetch ends although each element made fetches all its ancestors, which the
\* cache may have wiped out again; so does the clearing.
FetchReturns ==
  /\ Calls(frames) ~> ~Calls(frames) \/ state = "overrun"
  /\ state = "closing" ~> state = "closed"

\* The list as a sequence, from first_lilo along the links.
Order ==
  LET at[k \in 1 .. Cardinality(Listed)] ==
        IF k = 1 THEN lilo.first ELSE lilo.next[at[k - 1]]
  IN at
InOrder == [k \in DOMAIN Order |-> comp_int[Order[k]]]

Promise == INSTANCE LruCache WITH
  cache <- InOrder,
  wanted <- IF Incoming = {} THEN -1 ELSE Top.el,
  exact <- ~failed,
  open <- state \in {"open", "overrun"}

\* The cache keeps the elements used last, and wipes out no more than it must.
KeepsPromise == Promise!Spec
=============================================================================
