---------------------------- MODULE SearchEngine ----------------------------
(***************************************************************************)
(* A search: the tree of the query is evaluated from its leaves to its     *)
(* root, node by node, and a page of the regions that are left becomes     *)
(* the answer to findSGElement or findSGText (sgrep/eval.c, main.c and     *)
(* ana_commands.c).  The tree is given as its nodes in the order in which  *)
(* they are evaluated; a node takes its operands from the stack.           *)
(***************************************************************************)
EXTENDS Postings

CONSTANTS
  Sessions,       \* sequences of queries to a book, one after the other
  Lists,          \* the lists that a leaf of a query may have, by its name
  Numbers,        \* the numbers that operators are given
  Starts, Nums,   \* the first result that is asked for, and how many
  Indexes, Faults,  \* lists of postings, and faults, of a lookup
  Writable          \* the regions of a term, and the length of the term

VARIABLES
  session,    \* the queries to come, the first of them under way
  stack,      \* the region lists of nodes whose parent is not evaluated
  status,     \* "running", or how the evaluation came to an end
  applied,    \* the last operator with its operands and its result
  found_els,  \* search_els_found: what earlier searches left there
  reply       \* what the last call returned

vars == <<session, stack, status, applied, found_els, reply>>

NoList == List(<<>>, FALSE)
None == [op |-> "none", l |-> NoList, r |-> NoList, n |-> 0, res |-> NoList]
NoReply == [op |-> "none"]
Node == session[1].nodes[1]

Unary == {"outer", "inner", "concat", "join", "first", "last",
          "first_bytes", "last_bytes"}
Near_ == {"near", "near_before"}
Ordered == {"ordered", "Lordered", "Rordered", "LRordered"}
Quoted == {"quote", "Lquote", "Rquote", "LRquote"}
Binary == {"or", "in", "not in", "containing", "not containing", "equal",
           "not equal", "parenting", "childrening", "extracting"}
            \cup Ordered \cup Quoted \cup Near_
NumbersOf(op) == IF op \in {"join", "first", "last", "first_bytes", "last_bytes"}
                             \cup Near_ THEN Numbers ELSE {0}
Type(op) == IF op \in {"Lordered", "Lquote"} THEN "L"
            ELSE IF op \in {"Rordered", "Rquote"} THEN "R"
            ELSE IF op \in {"LRordered", "LRquote"} THEN "LR" ELSE ""

eval_unary(op, l, n) ==
  CASE op = "outer" -> outer(l)   [] op = "inner" -> inner(l)
    [] op = "concat" -> concat(l) [] op = "join" -> join(l, n)
    [] op = "first" -> first(l, n) [] op = "last" -> last(l, n)
    [] op = "first_bytes" -> first_bytes(l, n)
    [] op = "last_bytes" -> last_bytes(l, n)

eval_binary(op, l, r, n) ==
  CASE op = "or" -> or(l, r)
    [] op \in Ordered -> nest_order(l, r, Type(op))
    [] op \in Quoted -> quote(l, r, Type(op))
    [] op = "in" -> in(l, r, FALSE) [] op = "not in" -> in(l, r, TRUE)
    [] op = "containing" -> containing(l, r, FALSE)
    [] op = "not containing" -> containing(l, r, TRUE)
    [] op = "equal" -> equal(l, r, FALSE) [] op = "not equal" -> equal(l, r, TRUE)
    [] op = "parenting" -> parenting(l, r)
    [] op = "childrening" -> childrening(l, r)
    [] op = "extracting" -> extracting(l, r)
    [] op = "near" -> eval_near(l, r, n)
    [] op = "near_before" -> near_before(l, r, n)

\* The assertion that follows each evaluation: a list that is not marked as
\* nested has ends that ascend.
Ascending(regs) == \A i \in 1 .. Len(regs) - 1 : regs[i].end < regs[i + 1].end
StatusOf(list) ==
  IF list.fate = "done" /\ ~list.nested /\ ~Ascending(list.regs)
    THEN "aborts"
  ELSE IF list.fate = "done" THEN "running" ELSE list.fate

Init ==
  /\ session \in Sessions
  /\ stack = <<>> /\ status = "running" /\ applied = None
  /\ found_els = <<>> /\ reply = NoReply

\* The node is evaluated: its list takes the place of its operands.
Evaluated(rest, list) ==
  /\ session' = [session EXCEPT ![1].nodes = Tail(@)]
  /\ stack' = IF StatusOf(list) = "running" THEN Append(rest, list) ELSE <<>>
  /\ status' = StatusOf(list)
  /\ reply' = NoReply /\ UNCHANGED found_els

CanEvaluate(node) ==
  status = "running" /\ session # <<>> /\ session[1].nodes # <<>> /\ Node = node

Leaf ==
  /\ \E name \in DOMAIN Lists :
       CanEvaluate(name) /\ \E list \in Lists[name] : Evaluated(stack, list)
  /\ applied' = None

\* Lists out of order, which some operators give for nested lists, are not
\* followed any further.
Function ==
  /\ CanEvaluate("unary")
  /\ LET l == Last(stack) IN
     /\ InOrder(l.regs)
     /\ \E op \in Unary : \E n \in NumbersOf(op) :
          LET res == eval_unary(op, l, n) IN
          /\ Evaluated(Front(stack), res)
          /\ applied' = [op |-> op, l |-> l, r |-> NoList, n |-> n, res |-> res]

Operator ==
  /\ CanEvaluate("binary")
  /\ LET r == Last(stack)
         l == Last(Front(stack)) IN
     /\ InOrder(l.regs) /\ InOrder(r.regs)
     /\ \E op \in Binary : \E n \in NumbersOf(op) :
          LET res == eval_binary(op, l, r, n) IN
          /\ Evaluated(Front(Front(stack)), res)
          /\ applied' = [op |-> op, l |-> l, r |-> r, n |-> n, res |-> res]

\* A list cannot be allocated: the search returns that nothing was found.
NoMemory ==
  /\ status = "running" /\ session # <<>> /\ session[1].nodes # <<>>
  /\ session[1].find
  /\ session' = Tail(session) /\ stack' = <<>>
  /\ applied' = None /\ UNCHANGED <<status, found_els>>
  /\ reply' = [op |-> "find", found |-> 0, returned |-> 0, els |-> <<>>, start |-> 0]

(***************************************************************************)
(* pr_display_gc_list: the regions from start on go into a new array; one  *)
(* without a width ends it, and then none counts.  An array without any    *)
(* does not take the place of that of an earlier search.                   *)
(***************************************************************************)
Empty(reg, is_el) == IF is_el THEN reg.start >= reg.end ELSE reg.start > reg.end

\* Variant: pages are numbered from 0.
PageFromZero(regs, start, num) == SubSeq(regs, start + 1, Min({start + num, Len(regs)}))

Page(regs, start, num) == SubSeq(regs, Max({start, 1}), Min({start + num - 1, Len(regs)}))

pr_display_gc_list(regs, num, start, is_el, old) ==
  LET page == Page(regs, start, num)
      bad == {i \in 1 .. Len(page) : Empty(page[i], is_el)}
      kept == IF bad = {} THEN page ELSE SubSeq(page, 1, Min(bad) - 1)
  IN [count |-> IF bad = {} THEN Len(page) ELSE 0,
      array |-> IF kept = <<>> THEN old ELSE kept]

\* A page that starts after the last result leaves num as it was.
run_stream(regs, start, num, is_el, old) ==
  LET n == Len(regs)
      asked == IF n - start < num THEN n - start + 1 ELSE num
      shown == pr_display_gc_list(regs, asked, start, is_el, old)
  IN IF start <= n THEN [found |-> n, num |-> shown.count, array |-> shown.array]
     ELSE [found |-> n, num |-> num, array |-> old]

Finished == status = "running" /\ session # <<>> /\ session[1].nodes = <<>>

Junk == Region(-1, -1)

\* The answer to a search: num results are taken from the array, and what
\* they lead to, the search cursor, is in the module OutputEngine.
Answer(is_el) ==
  /\ Finished /\ session[1].find
  /\ \E start \in Starts, num \in Nums :
       LET regs == stack[1].regs
           out == run_stream(regs, start, num, is_el, found_els)
           returned == IF out.found = 0 THEN 0 ELSE out.num
       IN /\ found_els' = out.array
          /\ reply' = [op |-> "find", regs |-> regs, start |-> start, num |-> num,
                       is_el |-> is_el, found |-> out.found, returned |-> returned,
                       els |-> [i \in 1 .. returned |->
                                  IF i <= Len(out.array) THEN out.array[i] ELSE Junk]]
  /\ session' = Tail(session) /\ stack' = <<>> /\ applied' = None
  /\ UNCHANGED status

FindSGElement == Answer(TRUE)
FindSGText == Answer(FALSE)

\* countSG: only the number.
Count ==
  /\ Finished /\ ~session[1].find
  /\ reply' = [op |-> "count", regs |-> stack[1].regs, found |-> LIST_SIZE(stack[1])]
  /\ session' = Tail(session) /\ stack' = <<>> /\ applied' = None
  /\ UNCHANGED <<status, found_els>>

\* The lookup of a leaf in the index: one term, or all that begin alike.
Lookup ==
  /\ session = <<>> /\ reply = NoReply
  /\ \E index \in Indexes, faults \in Faults, prefix, elements \in BOOLEAN :
       \E begin \in 0 .. Len(index) - 1 :
         \E end \in (IF prefix THEN begin - 1 .. Len(index) - 1 ELSE begin - 1 .. begin) :
           reply' = [op |-> "lookup", index |-> index, begin |-> begin, end |-> end,
                     prefix |-> prefix, faults |-> faults,
                     list |-> index_lookup(index, begin, end, prefix, elements, faults)]
  /\ UNCHANGED <<session, stack, status, applied, found_els>>

\* The postings of a term as they are written into the index and read.
WriteTerm ==
  /\ session = <<>> /\ reply = NoReply
  /\ \E term \in Writable :
       LET bytes == Written(term.regs, term.len) IN
       reply' = [op |-> "postings", regs |-> term.regs,
                 read |-> ReadPostings(bytes, term.len),
                 unread |-> Len(bytes) - PostingsLength(bytes)]
  /\ UNCHANGED <<session, stack, status, applied, found_els>>

Next == Leaf \/ Function \/ Operator \/ NoMemory \/ FindSGElement \/ FindSGText \/ Count
          \/ Lookup \/ WriteTerm

Spec == Init /\ [][Next]_vars

(***************************************************************************)
(* What evaluations, lookups and answers promise.  A list is truthful when *)
(* it is in order, without a region twice, and marked as nested where some *)
(* of its regions lie in one another.                                      *)
(***************************************************************************)
Set(list) == ToSet(list.regs)
Nested(set) == \E a, b \in set : contains(a, b)
Disjoint(set) == \A a, b \in set : a = b \/ ~overlaps(a, b)
DistinctStarts(set) == \A a, b \in set : a = b \/ a.start # b.start
Span(reg) == reg.start .. reg.end

\* As the elements of a text are: each in, around or beside another, and no
\* two from one start.
Elements(set) ==
  /\ DistinctStarts(set)
  /\ \A a, b \in set : overlaps(a, b) => a = b \/ contains(a, b) \/ contains(b, a)

\* No more than two regions from one start, but where the first region is.
FewFromOne(set) ==
  \A a, b, c \in set : a.start = b.start /\ b.start = c.start =>
    Cardinality({a, b, c}) < 3 \/ \A d \in set : a.start <= d.start

Truthful(list) ==
  /\ \A i \in 1 .. Len(list.regs) - 1 : StartsFirst(list.regs[i], list.regs[i + 1])
  /\ list.nested \/ ~Nested(Set(list))

\* The regions of a set that start next after a, and the outermost ones.
NextAfter(a, set) ==
  {b \in set : b.start > a.end /\ \A c \in set : c.start > a.end => b.start <= c.start}
OuterSet(list) == ToSet(Outer(list))

\* An operation of truthful lists, and what it is of as sets.
Given == applied.op = "none" \/ (Truthful(applied.l) /\ Truthful(applied.r))
Of(P(_, _, _, _)) ==
  Given => P(applied.op, Set(applied.l), Set(applied.r), Set(applied.res))

(***************************************************************************)
(* The operators after which a list may be out of order or its mark wrong, *)
(* or which may not end, and for which operands they do not: the mark of   *)
(* or is never set, first and last take it away, inner and first_bytes     *)
(* want one region from a start, extracting cuts overlapping regions to    *)
(* one start, near_before may use a region of r for several of l, ordered  *)
(* gives the pairs of nested regions by their ends, and parenting wants    *)
(* elements and stays where it is when a parent ends where a child starts. *)
(***************************************************************************)
Fits(op, l, r) ==
  CASE op \in {"first", "last"} -> ~applied.l.nested
    [] op \in {"inner", "first_bytes"} -> DistinctStarts(l)
    [] op = "or" -> ~Nested(l \cup r)
    [] op \in Ordered -> ~applied.l.nested
    [] op = "extracting" -> applied.l.nested \/ Disjoint(l)
    [] op = "near" -> \A a \in l, b \in r : a.start # b.start
    [] op = "near_before" ->
         LET qs == OuterSet(applied.r) IN
         \A a, b \in OuterSet(applied.l) : a = b \/ NextAfter(a, qs) \cap NextAfter(b, qs) = {}
    [] op = "parenting" -> /\ Elements(l) /\ l \cap r = {}
                           /\ \A a \in l, b \in r : a.end # b.start
    [] OTHER -> TRUE

\* An operation on truthful lists ends, with a truthful list, but for the
\* operands that Fits leaves out: no operator spoils the order and the mark
\* that all others (recursive_eval, eval_operator) rely on.
Marked ==
  LET IsMarked(op, l, r, res) ==
        op = "none" \/ ~Fits(op, l, r)
          \/ (applied.res.fate = "done" /\ Truthful(applied.res))
  IN Of(IsMarked)

\* in, containing, equal, their negations, outer and inner select exactly
\* the regions that the words say, although each passes once through both
\* lists and looks at the outermost or the innermost regions only (eval.c in,
\* containing, equal, outer, inner).  inner wants one region from a start,
\* outer no more than two, and so does in of its right side.
Selects ==
  LET Selected(op, l, r, res) ==
        LET are(Chosen(_)) == applied.res.regs = SelectSeq(applied.l.regs, Chosen) IN
        CASE op = "in" -> FewFromOne(r) => are(LAMBDA a : \E b \in r : contains(b, a))
          [] op = "not in" -> FewFromOne(r) => are(LAMBDA a : ~\E b \in r : contains(b, a))
          [] op = "containing" -> are(LAMBDA a : \E b \in r : contains(a, b))
          [] op = "not containing" -> are(LAMBDA a : ~\E b \in r : contains(a, b))
          [] op = "equal" -> are(LAMBDA a : a \in r)
          [] op = "not equal" -> are(LAMBDA a : a \notin r)
          [] op = "outer" -> FewFromOne(l) => are(LAMBDA a : ~\E b \in l : contains(b, a))
          [] op = "inner" -> DistinctStarts(l) => are(LAMBDA a : ~\E b \in l : contains(a, b))
          [] OTHER -> TRUE
  IN Of(Selected)

\* The region around c that lies in all others around it, and a region
\* with no other of the set between it and the region around it.
InnermostAround(c, set) ==
  {p \in set : contains(p, c) /\ \A q \in set : contains(q, c) => q = p \/ contains(q, p)}
Child(c, p, set) == contains(p, c) /\ ~\E q \in set : contains(p, q) /\ contains(q, c)

\* Of elements, parenting gives the parent of each region and childrening
\* only children, and all of them when the parents are not nested (eval.c
\* parenting, childrening).
Kin ==
  LET Parent(op, l, r, res) ==
        op = "parenting" /\ Fits(op, l, r) => res = UNION {InnermostAround(c, l) : c \in r}
      Children(op, l, r, res) ==
        op = "childrening" /\ Elements(l \cup r) =>
          LET children == {c \in l : \E p \in r : Child(c, p, l)}
          IN res \subseteq children /\ (applied.r.nested \/ res = children)
  IN Of(Parent) /\ Of(Children)

\* or gives the regions of both lists; concat covers what was covered with
\* regions apart, and joins no two that only touch.
Unites(op, l, r, res) ==
  /\ op = "or" => res = l \cup r
  /\ op = "concat" =>
       /\ UNION {Span(a) : a \in res} = UNION {Span(a) : a \in l}
       /\ Disjoint(res)
       /\ \A a \in res : \A k \in a.start .. a.end - 1 :
            \E b \in l : b.start <= k /\ k < b.end

\* extracting leaves the longest pieces of the regions of l that r does not
\* touch; but not when one before a region of r lies in one that is cut.
Cuts(op, l, r, res) ==
  LET Free(c) == \A b \in r : ~overlaps(b, c)
      Taken(k) == \E b \in r : k \in Span(b)
      Pieces(a) == {c \in {Region(s, e) : s, e \in Span(a)} :
                     /\ c.start <= c.end /\ Free(c)
                     /\ c.start = a.start \/ Taken(c.start - 1)
                     /\ c.end = a.end \/ Taken(c.end + 1)}
  IN /\ op = "extracting"
     /\ \A a, b \in l, c \in r : contains(b, a) /\ overlaps(b, c) => a.end >= c.start
     => res = UNION {Pieces(a) : a \in l}

\* The ordered operators pair the regions of both lists as brackets: b with
\* the last a before it such that all b between have their a between.
PairsUp(op, l, r, res) ==
  LET Before(a, b) == a.end < b.start
      Opened(a, b) == Cardinality({c \in l : EndsFirst(a, c) /\ Before(c, b)})
      Between(a, b) == {c \in r : Before(a, c) /\ StartsFirst(c, b)}
      Pair(a, b) == /\ Before(a, b) /\ Opened(a, b) = Cardinality(Between(a, b))
                    /\ \A c \in Between(a, b) : Opened(a, c) > Cardinality(Between(a, c))
      t == Type(op)
  IN op \in Ordered =>
       res = {Region(From(p[1], t), To(p[2], t)) :
                p \in {p \in l \X r : Pair(p[1], p[2]) /\ From(p[1], t) <= To(p[2], t)}}

\* quote takes a region of l to the next of r, and leaves none of l out but
\* those in a region that it gave.
Chains(op, l, r, res) ==
  op = "quote" /\ ~applied.l.nested =>
    /\ Disjoint(res)
    /\ \A c \in res : \E a \in l : \E b \in NextAfter(a, r) : c = Region(a.start, b.end)
    /\ \A a \in l : NextAfter(a, r) # {} => \E c \in res : a.start \in Span(c)

\* near and near_before give a region from each that has one of the other
\* list within n, and only such (near: the outermost, and after position 0).
Nears(op, l, r, res) ==
  LET os == OuterSet(applied.l)
      qs == OuterSet(applied.r)
      Close(a, b) == b.start - 1 - a.end <= applied.n
      Near2(a, b) == Close(a, b) /\ Close(b, a)
  IN /\ op = "near_before" =>
          {c.start : c \in res} =
            {a.start : a \in {a \in os : \E b \in qs : a.end < b.start /\ Close(a, b)}}
     /\ op = "near" =>
          /\ \A c \in res : \E a \in l, b \in r :
               {a.start, b.start} \subseteq Span(c) /\ Near2(a, b)
          /\ (\A a \in l \cup r : a.start > 0) =>
               \A a \in os, b \in qs : Near2(a, b) =>
                 \E c \in res : Min({a.start, b.start}) \in Span(c)

\* Each operator that makes new regions makes those that its definition in
\* sets gives, whatever the order in which it passes through the lists
\* (eval.c or, concat, extracting, nest_order, quote, near_before, eval_near).
Combines == Of(Unites) /\ Of(Cuts) /\ Of(PairsUp) /\ Of(Chains) /\ Of(Nears)

\* A lookup finds the postings of all terms that begin alike, each once and
\* in order, however their lists went through the slots; what a fault takes
\* away is missing and nothing else comes in its place (index.c do_recursive_lookup,
\* read_and_sort_postings, index_lookup_sorting).
LookupWhole ==
  reply.op = "lookup" =>
    LET Terms == reply.begin .. reply.end
        PostingsOf(m) == ToSet(reply.index[m + 1])
        found == Set(reply.list)
        faults == reply.faults
    IN /\ found \subseteq UNION {PostingsOf(m) : m \in Terms}
       /\ faults.refused \cup faults.unread \cup faults.nomemory = {} =>
            found = UNION {PostingsOf(m) : m \in Terms}
       /\ reply.prefix => Truthful(reply.list)

\* What is written for a term is read back, to the end and no further
\* (index.c add_region_to_index, get_region_index, read_all_postings); but
\* when a region starts where one of another length starts or ends, which
\* can look like the tag for a new length.
PostingsRead ==
  reply.op = "postings" =>
    /\ reply.unread = 0
    /\ (\A a, b \in ToSet(reply.regs) :
          a.start \in {b.start, b.end} => a.end - a.start = b.end - b.start) =>
         reply.read = reply.regs

\* A page holds the results from the first that was asked for, in their
\* order and as many as there are (main.c run_stream, pr_display_gc_list,
\* ana_commands.c get_find_sg_element); but when a region in it is empty or
\* the first asked for is after the last.
Pages ==
  (reply.op = "find" /\ reply.start \in 1 .. reply.found) =>
    LET asked == (reply.start .. reply.start + reply.num - 1) \cap 1 .. reply.found IN
    (\A i \in asked : ~Empty(reply.regs[i], reply.is_el)) =>
      /\ reply.returned = Cardinality(asked)
      /\ \A i \in 1 .. reply.returned : reply.els[i] = reply.regs[reply.start + i - 1]
=============================================================================
