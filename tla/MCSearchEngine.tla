--------------------------- MODULE MCSearchEngine ---------------------------
(***************************************************************************)
(* Instances of SearchEngine: all lists of a few regions over a few        *)
(* positions, marked as nested where they are, and queries of them.        *)
(***************************************************************************)
EXTENDS SearchEngine

Proper(positions) ==
  {r \in {Region(s, e) : s, e \in positions} : r.start <= r.end}
InListOrder(set) == StartSorted(SetToSeq(set))
ListsOf(positions, sizes) ==
  {List(InListOrder(set), Nested(set)) :
     set \in UNION {kSubset(k, Proper(positions)) : k \in sizes}}

Pairs_ == ListsOf(0 .. 3, 0 .. 2)
Upto3 == ListsOf(0 .. 3, 0 .. 3)
Triples == ListsOf(0 .. 2, 0 .. 3)
Upto5 == ListsOf(0 .. 3, 0 .. 5)
Short == ListsOf(0 .. 2, 0 .. 2)
Few == ListsOf(0 .. 1, 0 .. 2)
MCLists == [pairs |-> Pairs_, lists |-> Upto3, triples |-> Triples, longer |-> Upto5,
            short |-> Short, few |-> Few]

Query(nodes, find) == [nodes |-> nodes, find |-> find]

\* One operator of long lists, two or three of short ones, and two searches
\* one after the other.
MCSessions == {
  <<Query(<<"longer", "unary">>, FALSE)>>,
  <<Query(<<"lists", "pairs", "binary">>, FALSE)>>,
  <<Query(<<"pairs", "lists", "binary">>, FALSE)>>,
  <<Query(<<"triples", "triples", "binary">>, FALSE)>>,
  <<Query(<<"short", "unary", "few", "binary">>, FALSE)>>,
  <<Query(<<"few", "short", "binary", "unary">>, FALSE)>>,
  <<Query(<<"few", "few", "binary", "few", "binary">>, FALSE)>>,
  <<Query(<<"few", "few", "few", "binary", "binary">>, FALSE)>>,
  <<Query(<<"pairs">>, TRUE), Query(<<"short">>, TRUE)>>,
  <<>>}

\* Four terms with one to four postings, and faults at one or two of them.
Postings1 == {<<Region(0, 1)>>, <<Region(2, 2), Region(3, 5)>>,
              <<Region(0, 1), Region(1, 1), Region(4, 4)>>,
              <<Region(1, 1), Region(2, 2), Region(3, 3), Region(6, 9)>>}
MCIndexes == UNION {[1 .. k -> Postings1] : k \in 1 .. 4}
MCFaults ==
  {[refused |-> a, unread |-> b, nomemory |-> c] :
     <<a, b, c>> \in {<<a, b, c>> \in {{}, {1}, {2}} \X {{}, {0}, {2}} \X {{}, {1}, {3}} :
                        Cardinality(a \cup b \cup c) <= 1}}

Bytes2 == {0, 1, 126, 127, 16384, 2097152}
MCWritable ==
  {[regs |-> InListOrder(set), len |-> len] :
     set \in UNION {kSubset(k, Proper(0 .. 4)) : k \in 1 .. 3}
               \cup UNION {kSubset(k, Proper(Bytes2)) : k \in 1 .. 2},
     len \in 1 .. 4}
=============================================================================
