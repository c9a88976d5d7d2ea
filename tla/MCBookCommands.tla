--------------------------- MODULE MCBookCommands ---------------------------
(***************************************************************************)
(* Books for BookCommands.  A book is given by the parents and the names   *)
(* of its elements and by the texts; the rest is what the index files      *)
(* would hold.  In the tagged text a tag is one byte.                      *)
(***************************************************************************)
EXTENDS BookCommands

ParentLink(parent, e) == IF e = 0 THEN 0 ELSE parent[e]
Family(parent, e) == {f \in DOMAIN parent : parent[f] = e}

OrNone(S, pick(_)) == IF S = {} THEN None ELSE pick(S)

RECURSIVE Within(_, _)
Within(parent, e) == {e} \cup UNION {Within(parent, f) : f \in Family(parent, e)}

RECURSIVE LenSum(_, _)
LenSum(texts, S) == IF S = {} THEN 0
                    ELSE LET e == CHOOSE e \in S : TRUE
                         IN Len(texts[e]) + LenSum(texts, S \ {e})

\* Opened and closed before the start of e: tags that are before it.
Tags(parent, texts, e) ==
  LET els == {0} \cup DOMAIN parent
      tagged == {f \in els : Len(texts[f]) = 0}
  IN Cardinality({f \in tagged : f < e})
     + Cardinality({f \in tagged : f < e /\ e \notin Within(parent, f)})

RECURSIVE Joined(_, _)
Joined(texts, n) == IF n = 0 THEN texts[0] ELSE Joined(texts, n - 1) \o texts[n]

MakeBook(parent, gi, texts, witlist, apps) ==
  LET els == {0} \cup DOMAIN parent
      data(e) == LenSum(texts, {f \in els : f < e})
      len(e) == LenSum(texts, Within(parent, e))
      tags(e) == Cardinality({f \in Within(parent, e) : Len(texts[f]) = 0})
  IN [gi |-> gi, text |-> Joined(texts, Cardinality(els) - 1),
      ancestor |-> [e \in els |-> ParentLink(parent, e)],
      child |-> [e \in els |-> OrNone(Family(parent, e), Min)],
      lsib |-> [e \in els |-> IF e = 0 THEN None ELSE
                  OrNone({f \in Family(parent, parent[e]) : f < e}, Max)],
      rsib |-> [e \in els |-> IF e = 0 THEN None ELSE
                  OrNone({f \in Family(parent, parent[e]) : f > e}, Min)],
      start_data |-> [e \in els |-> data(e)],
      end_data |-> [e \in els |-> data(e) + len(e)],
      sgrep_start |-> [e \in els |-> data(e) + Tags(parent, texts, e)],
      sgrep_end |-> [e \in els |-> data(e) + Tags(parent, texts, e)
                                   + len(e) + 2 * tags(e)],
      cont_type |-> [e \in els |-> IF Family(parent, e) # {} THEN 4
                       ELSE IF gi[e] = "SDATA" THEN 5
                       ELSE IF gi[e] = "PCDATA" THEN 6 ELSE 0],
      witlist |-> witlist, apps |-> apps]

\* 0 doc (1 p (2 text, 3 hi (4 text), 5 text), 6 p (7 text))
Par == [e \in 1 .. 7 |-> <<0, 1, 1, 3, 1, 0, 6>>[e]]
Gis == [e \in 0 .. 7 |->
         <<"doc", "p", "PCDATA", "hi", "PCDATA", "PCDATA", "p", "PCDATA">>[e + 1]]
Texts(t2, t4, t5, t7) ==
  [e \in 0 .. 7 |-> <<<<>>, <<>>, t2, <<>>, t4, t5, <<>>, t7>>[e + 1]]
Texts1 == Texts(<<"a", " ", "a", "a">>, <<"a", "a", " ">>, <<"a", " ", "a">>,
                <<"a", "a", " ", "a", " ">>)
Texts2 == Texts(<<"a", "l", "c", "a">>, <<"l", "c", "c">>, <<" ", "l", "c">>,
                <<"l", "c", "a", "l", "c", "a">>)
Words == MakeBook(Par, Gis, Texts1, <<>>, <<>>)
Utf8 == MakeBook(Par, Gis, Texts2, <<>>, <<>>)
Cut == MakeBook(Par, Gis, Texts(<<"a">>, <<"l", "c">>, <<" ">>, <<"a", "l", "c", "c">>),
                <<>>, <<>>)
Entity == MakeBook(Par, [Gis EXCEPT ![4] = "SDATA"], Texts2, <<>>, <<>>)

\* Every tree of five elements with the names "a" and "b", the first
\* of them "a", and no text.
RECURSIVE Line(_, _)
Line(parent, e) == {e} \cup IF e = 0 THEN {} ELSE Line(parent, parent[e])
Trees == {p \in [1 .. 4 -> 0 .. 3] : \A e \in 1 .. 4 : p[e] \in Line(p, e - 1)}
Bare == {MakeBook(p, [e \in 0 .. 4 |-> IF e = 0 THEN "doc" ELSE g[e]],
                  [e \in 0 .. 4 |-> <<>>], <<>>, <<>>) :
           p \in Trees, g \in {h \in [1 .. 4 -> {"a", "b"}] : h[1] = "a"}}

\* Three witnesses; readings of one and of two apps.
Rdg(el, refs) == [el |-> el, refs |-> refs]
App(type, rdgs) == [type |-> type, rdgs |-> rdgs]
Collated == {MakeBook([e \in 1 .. 1 |-> 0], [e \in 0 .. 1 |-> "app"],
                      [e \in 0 .. 1 |-> <<>>], <<"A", "B", "C">>,
                      <<App("om", <<Rdg(1, r1), Rdg(2, {"A", "B", "C"} \ r1)>>),
                        App("", <<Rdg(4, r2)>>)>>) :
               r1 \in {{"A"}, {"A", "B"}, {"A", "C", "X"}},
               r2 \in SUBSET {"A", "B", "C"}}

AllBooks == Bare \cup {Words, Utf8, Cut, Entity} \cup Collated

Num(n) == [is_num |-> TRUE, num |-> n, path |-> <<>>]
Str(p) == [is_num |-> FALSE, num |-> 0, path |-> p]
SomeArgs ==
  {<<>>} \cup {<<Num(n)>> : n \in 0 .. 3} \cup {<<Str(<<g>>)>> : g \in {"a", "b"}}
    \cup {<<Str(<<g>>), Num(2)>> : g \in {"a", "b"}}
    \cup {<<Num(1), Num(1)>>, <<Num(1), Str(<<"a", "b">>)>>, <<Str(<<"b", "a">>)>>,
          <<Str(<<"a", "a">>)>>, <<Str(<<"a", "b", "a">>)>>}

Cond(neg, op, n, sigils, type, bang) ==
  [neg |-> neg, op |-> op, n |-> n, sigils |-> sigils, type |-> type, bang |-> bang]
SomeConds ==
  {Cond(neg, op, n, s, "", FALSE) :
     neg \in BOOLEAN, op \in Ops, n \in 0 .. 2, s \in {<<"A", "B">>, <<"all">>}}
    \cup {Cond(FALSE, "", 0, s, "", FALSE) : s \in {<<"C">>, <<"X">>}}
    \cup {Cond(FALSE, "", 0, <<"A">>, type, g) : type \in {"om", "o"}, g \in BOOLEAN}
SomeLists ==
  {<<c>> : c \in SomeConds}
    \cup {<<Cond(FALSE, "", 0, <<"A">>, "", FALSE), Cond(neg, "", 0, <<"B">>, "", FALSE)>> :
            neg \in BOOLEAN}
SomeTypeParts == {<<"om", "om">>, <<"om", "o">>}

\* Machines of either byte order, and the little-endian ones with long longs.
Build(big, long, behind) == [big_endian |-> big, long_bytes |-> long, behind |-> behind]
SomeBuilds == {Build(TRUE, 4, 0), Build(FALSE, 4, 0)}
                \cup {Build(FALSE, 8, behind) : behind \in {0, 1, RecordSize}}
UsualBuilds == {Build(FALSE, 8, 0), Build(FALSE, 8, 1)}
SomePages == {[start |-> 0, end |-> 9, first |-> 1, num |-> 2],
              [start |-> 2, end |-> 4, first |-> 2, num |-> 1]}
SomeExclusions == {{}, {"B"}}
SomeOffs == -1 .. 3
SomeCounts == {1, 2, 5}
=============================================================================
