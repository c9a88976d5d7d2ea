-------------------------------- MODULE Grove --------------------------------
(***************************************************************************)
(* Finding elements in a book: the find_ functions of ana_browsegrove.c    *)
(* and what ana_commands.c makes of them for a style procedure.            *)
(*                                                                         *)
(* A book is what its index files hold of each element: its name gi, its   *)
(* four links, where its data starts and ends in the text (start_data,     *)
(* end_data) and in the tagged text (sgrep_start, sgrep_end), and the      *)
(* bytes of the text.  Elements are numbered from 0 in document order; as  *)
(* a link 0 means that there is none.                                      *)
(***************************************************************************)
EXTENDS Integers, Sequences, FiniteSets, FiniteSetsExt

Fail == -1            \* false in the code; for Tcl, a result that is empty
None == 0             \* not found, without an error
NoName == "*"         \* gi is NULL: any name will do

Elements(b) == DOMAIN b.gi
Size(b, el) == b.end_data[el] - b.start_data[el]
IsText(b, el) == b.gi[el] \in {"PCDATA", "SDATA"}

\* The number that read_num looks for after the last of the file is refused.
no_elements(b) == Cardinality(Elements(b))
get_next_sgml_obj(b, el) == el \in Elements(b)

(***************************************************************************)
(* The links of a book: the element above, the first one below, and the    *)
(* nearest before and after among those below the same element.            *)
(***************************************************************************)
Below(b, el) == {e \in Elements(b) \ {0} : b.ancestor[e] = el}
Beside(b, el) == IF el = 0 THEN {} ELSE Below(b, b.ancestor[el])

FirstOf(S) == IF S = {} THEN None ELSE Min(S)
LastOf(S) == IF S = {} THEN None ELSE Max(S)

IsTree(b) ==
  LET els == Elements(b) IN
  /\ IsFiniteSet(els) /\ els # {} /\ els = 0 .. no_elements(b) - 1
  /\ b.ancestor \in [els -> els] /\ b.ancestor[0] = None
  /\ \A e \in els \ {0} : b.ancestor[e] < e
  /\ b.child = [e \in els |-> FirstOf(Below(b, e))]
  /\ b.lsib = [e \in els |-> LastOf({f \in Beside(b, e) : f < e})]
  /\ b.rsib = [e \in els |-> FirstOf({f \in Beside(b, e) : f > e})]

Matches(b, el, gi) == gi = NoName \/ gi = b.gi[el]

(***************************************************************************)
(* The nth element of that name on a chain of links that begins with el:   *)
(* from each element of the chain on, for each number that is left.        *)
(***************************************************************************)
\* Variant: n counts the elements of any name.
NthOfAny(b, link, el, n, gi) ==
  LET nth[e \in Int] ==
        [k \in Int |->
           IF e = None THEN None
           ELSE IF ~get_next_sgml_obj(b, e) THEN Fail
           ELSE IF k <= 1 /\ Matches(b, e, gi) THEN e
           ELSE nth[link[e]][k - 1]]
  IN nth[el][n]

NthAlong(b, link, el, n, gi) ==
  LET nth[e \in Int] ==
        [k \in Int |->
           IF e = None THEN None
           ELSE IF ~get_next_sgml_obj(b, e) THEN Fail
           ELSE IF ~Matches(b, e, gi) THEN nth[link[e]][k]
           ELSE IF k = 1 THEN e
           ELSE nth[link[e]][k - 1]]
  IN nth[el][n]

find_ancestor(b, el, n, gi) == NthAlong(b, b.ancestor, b.ancestor[el], n, gi)
find_lsibling(b, el, n, gi) == NthAlong(b, b.lsib, b.lsib[el], n, gi)
find_rsibling(b, el, n, gi) == NthAlong(b, b.rsib, b.rsib[el], n, gi)
find_child(b, el, n, gi) == NthAlong(b, b.rsib, b.child[el], n, gi)
find_descendant(b, el, n, gi) == NthAlong(b, b.rsib, b.child[el], n, gi)

Before(b) == [e \in Elements(b) |-> IF e = 0 THEN None ELSE e - 1]
After(b) == [e \in Elements(b) |-> e + 1]
find_prev_el(b, el, n, gi) == NthAlong(b, Before(b), Before(b)[el], n, gi)
find_next_el(b, el, n, gi) == NthAlong(b, After(b), After(b)[el], n, gi)

\* Only the immediate parent.
find_parent(b, el, n, gi) ==
  LET up == b.ancestor[el]
  IN IF up # None /\ gi = b.gi[up] THEN up ELSE None

(***************************************************************************)
(* The arguments after the element: a number, a name or both.  A name may  *)
(* be a path, here the sequence of its names.                              *)
(***************************************************************************)
Arguments(args) ==
  LET nums == {i \in 1 .. Len(args) : args[i].is_num}
      strs == 1 .. Len(args) \ nums
  IN [ok |-> Cardinality(nums) <= 1 /\ Cardinality(strs) <= 1,
      num |-> IF nums = {} THEN 1 ELSE args[Max(nums)].num,
      path |-> IF strs = {} THEN <<>> ELSE args[Max(strs)].path]

\* As a name a path is its text with the commas, which is no element's.
Name(path) == IF path = <<>> THEN NoName
              ELSE IF Len(path) = 1 THEN path[1] ELSE "a,b"

\* The names before the last comma are sought one after the other: one that
\* is not found leaves the element as it is, and nothing will be found.
Qualify(b, find(_, _, _, _), el, path) ==
  LET walk[i \in Nat] ==
        IF i = 0 THEN [el |-> el, missed |-> FALSE]
        ELSE LET q == walk[i - 1]
                 r == find(b, q.el, 1, path[i])
             IN [el |-> IF r = None THEN q.el ELSE r, missed |-> q.missed \/ r = None]
  IN walk[IF path = <<>> THEN 0 ELSE Len(path) - 1]

\* Variant: the name that is left is the first.
FirstName(path) == IF path = <<>> THEN NoName ELSE path[1]
LastName(path) == IF path = <<>> THEN NoName ELSE path[Len(path)]

is_valid_el(b, el) == el >= 0 /\ get_next_sgml_obj(b, el)

\* The commands that look for path with step and then for its last name.
Qualified(b, el, args, step(_, _, _, _), find(_, _, _, _)) ==
  LET spec == Arguments(args) IN
  IF ~spec.ok \/ ~is_valid_el(b, el) THEN Fail
  ELSE LET q == Qualify(b, step, el, spec.path)
       IN IF q.missed THEN None ELSE find(b, q.el, spec.num, LastName(spec.path))

\* The commands for which the argument is one name.
Plain(b, el, args, find(_, _, _, _)) ==
  LET spec == Arguments(args) IN
  IF ~spec.ok \/ ~is_valid_el(b, el) THEN Fail
  ELSE find(b, el, spec.num, Name(spec.path))

get_ana_ancestor(b, el, args) == Qualified(b, el, args, find_parent, find_ancestor)
get_ana_child(b, el, args) == Qualified(b, el, args, find_child, find_child)
get_ana_descendant(b, el, args) == Qualified(b, el, args, find_child, find_descendant)
get_ana_lsibling(b, el, args) == Plain(b, el, args, find_lsibling)
get_ana_rsibling(b, el, args) == Plain(b, el, args, find_rsibling)
get_ana_previous_el(b, el, args) == Plain(b, el, args, find_prev_el)

\* Reading past the last element is a failure of find_next_el and not of
\* the command.
get_ana_next_el(b, el, args) ==
  LET spec == Arguments(args) IN
  IF ~spec.ok \/ ~is_valid_el(b, el) THEN Fail
  ELSE Max({None, find_next_el(b, el, spec.num, Name(spec.path))})
=============================================================================
