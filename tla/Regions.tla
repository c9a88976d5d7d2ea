------------------------------- MODULE Regions -------------------------------
(***************************************************************************)
(* Region lists and the operators of the search engine (sgrep/eval.c and   *)
(* common.c).  A region is from start to end, both included.  A list is    *)
(* its regions in the order a search through it meets them, and nested:    *)
(* the mark that regions may lie in one another.  A list that is marked as *)
(* not sorted is sorted here at once and in the code when it is searched.  *)
(*                                                                         *)
(* An operator that does not return has another fate: "aborts" where an    *)
(* assertion fails and "endless" where its loop changes nothing any more.  *)
(***************************************************************************)
EXTENDS Integers, Sequences, FiniteSets, SequencesExt

Region(s, e) == [start |-> s, end |-> e]
List(regs, nested) == [regs |-> regs, nested |-> nested, fate |-> "done"]
Fate(fate) == [regs |-> <<>>, nested |-> FALSE, fate |-> fate]
LIST_SIZE(l) == Len(l.regs)

StartsFirst(a, b) == a.start < b.start \/ (a.start = b.start /\ a.end < b.end)
EndsFirst(a, b) == a.end < b.end \/ (a.end = b.end /\ a.start < b.start)

\* gc_qsort orders by start and end, so that equal regions are neighbours.
StartSorted(regs) == SortSeq(regs, StartsFirst)
remove_duplicates(regs) ==
  LET s == StartSorted(regs)
  IN FoldLeft(LAMBDA out, r : IF out # <<>> /\ Last(out) = r THEN out
                              ELSE Append(out, r), <<>>, s)

EndSorted(l) == IF l.nested THEN SortSeq(l.regs, EndsFirst) ELSE l.regs

InOrder(regs) == \A i \in 1 .. Len(regs) - 1 : ~StartsFirst(regs[i + 1], regs[i])

contains(a, b) == a # b /\ a.start <= b.start /\ b.end <= a.end
overlaps(a, b) == a.start <= b.end /\ b.start <= a.end

DropWhile(s, drop(_)) ==
  LET stay == {i \in 1 .. Len(s) : ~drop(s[i])}
  IN IF stay = {} THEN <<>> ELSE SubSeq(s, Min(stay), Len(s))

\* list_find_first_start, on what is left of a list.
FirstStart(regs, index) == DropWhile(regs, LAMBDA r : r.start < index)

(***************************************************************************)
(* or, and first_of: of two lists the regions of both, equal ones once.    *)
(* prev is never set in or: its result is not marked as nested.            *)
(***************************************************************************)
RECURSIVE FirstOf(_, _)
FirstOf(l, r) ==
  IF l = <<>> THEN r ELSE IF r = <<>> THEN l
  ELSE IF StartsFirst(l[1], r[1]) THEN <<l[1]>> \o FirstOf(Tail(l), r)
  ELSE <<r[1]>> \o FirstOf(IF l[1] = r[1] THEN Tail(l) ELSE l, Tail(r))

or(l, r) == List(FirstOf(l.regs, r.regs), FALSE)

(***************************************************************************)
(* outer and inner                                                         *)
(***************************************************************************)
\* Of the first regions with one start the longest, and after them the
\* second, is kept of those with the same start.
RECURSIVE Outermost(_, _)
Outermost(reg, rest) ==
  IF rest = <<>> THEN <<reg>>
  ELSE LET apart == rest[1].end > reg.end /\ rest[1].start # reg.start
           next == IF apart THEN rest[1] ELSE reg
           more == Tail(rest)
           same == more # <<>> /\ more[1].start = next.start
       IN (IF apart THEN <<reg>> ELSE <<>>)
            \o Outermost(IF same THEN more[1] ELSE next,
                         IF same THEN Tail(more) ELSE more)

outer(l) ==
  IF l.regs = <<>> THEN List(<<>>, FALSE)
  ELSE LET Grows(i) == i = 1 \/ (l.regs[i].start = l.regs[1].start
                                 /\ l.regs[i].end > l.regs[i - 1].end)
           k == Max({i \in 1 .. LIST_SIZE(l) : \A j \in 1 .. i : Grows(j)})
       IN List(Outermost(l.regs[k], SubSeq(l.regs, k + 1, LIST_SIZE(l))), FALSE)

\* stack: regions that overlap the next and may yet turn out to contain one.
RECURSIVE Innermost(_, _, _)
Innermost(reg, rest, stack) ==
  IF rest = <<>> \/ rest[1].start > reg.end
    THEN SelectSeq(stack, LAMBDA r : r.end < reg.end) \o <<reg>>
           \o IF rest = <<>> THEN <<>> ELSE Innermost(rest[1], Tail(rest), <<>>)
  ELSE LET next == rest[1]
           Around(r) == r.start <= next.start /\ next.end <= r.end
           kept == Reverse(DropWhile(Reverse(stack), Around))
       IN Innermost(next, Tail(rest),
                    IF next.end > reg.end THEN Append(stack, reg) ELSE kept)

inner(l) ==
  List(IF l.regs = <<>> THEN <<>> ELSE Innermost(l.regs[1], Tail(l.regs), <<>>), FALSE)

(***************************************************************************)
(* in, containing and equal, and with neg their negations: the regions of  *)
(* l for which there is one of r.  skip: the next of r is looked at.       *)
(***************************************************************************)
RECURSIVE In(_, _, _)
In(l, r, neg) ==
  IF l = <<>> THEN <<>>
  ELSE IF r = <<>> THEN IF neg THEN l ELSE <<>>
  ELSE LET skip == /\ l[1].start > r[1].start /\ l[1].end > r[1].end
                   /\ IF Len(r) = 1 THEN l[1].start > r[1].end
                      ELSE l[1].start >= r[2].start
       IN IF skip THEN In(l, Tail(r), neg)
          ELSE (IF contains(r[1], l[1]) # neg THEN <<l[1]>> ELSE <<>>)
                 \o In(Tail(l), r, neg)

in(l, r, neg) == List(In(l.regs, (IF r.nested THEN outer(r) ELSE r).regs, neg), l.nested)

RECURSIVE Containing(_, _, _)
Containing(l, r, neg) ==
  IF l = <<>> THEN <<>>
  ELSE IF r = <<>> THEN IF neg THEN l ELSE <<>>
  ELSE IF l[1].start > r[1].start THEN Containing(l, Tail(r), neg)
  ELSE (IF contains(l[1], r[1]) # neg THEN <<l[1]>> ELSE <<>>)
         \o Containing(Tail(l), r, neg)

\* Variant: nested regions on the right are not reduced to the innermost.
containing_all(l, r, neg) == List(Containing(l.regs, r.regs, neg), l.nested)
containing(l, r, neg) ==
  List(Containing(l.regs, (IF r.nested THEN inner(r) ELSE r).regs, neg), l.nested)

RECURSIVE Equal(_, _, _)
Equal(l, r, neg) ==
  IF l = <<>> THEN <<>>
  ELSE IF r = <<>> THEN IF neg THEN l ELSE <<>>
  ELSE IF StartsFirst(r[1], l[1]) THEN Equal(l, Tail(r), neg)
  ELSE (IF (l[1] = r[1]) # neg THEN <<l[1]>> ELSE <<>>)
         \o Equal(Tail(l), IF l[1] = r[1] THEN Tail(r) ELSE r, neg)

equal(l, r, neg) == List(Equal(l.regs, r.regs, neg), l.nested)

(***************************************************************************)
(* l .. r and its kin: each of r is paired with the last of l before it    *)
(* that has no pair yet.  Two pairs in a row are taken for a nesting.      *)
(***************************************************************************)
From(a, type) == IF type \in {"L", "LR"} THEN a.end + 1 ELSE a.start
To(b, type) == IF type \in {"R", "LR"} THEN b.start - 1 ELSE b.end

RECURSIVE Pairs(_, _, _, _, _)
Pairs(ls, rs, type, stack, res) ==
  IF rs = <<>> THEN res
  ELSE IF ls # <<>> /\ ls[1].end < rs[1].start
    THEN Pairs(Tail(ls), rs, type, Append(stack, ls[1]), [res EXCEPT !.nestings = 0])
  ELSE IF stack = <<>> THEN Pairs(ls, Tail(rs), type, stack, res)
  ELSE LET s == From(Last(stack), type)
           e == To(rs[1], type)
           n == res.nestings + 1
       IN Pairs(ls, Tail(rs), type, Front(stack),
                IF e < s THEN res
                ELSE [nestings |-> n, twice |-> res.twice \/ n = 2,
                      regs |-> Append(res.regs, Region(s, e))])

\* Variant: two pairs in a row are not taken for a nesting.
nest_order_unmarked(l, r, type) ==
  List(Pairs(EndSorted(l), r.regs, type, <<>>,
             [regs |-> <<>>, nestings |-> 0, twice |-> FALSE]).regs,
       l.nested \/ r.nested)

nest_order(l, r, type) ==
  LET res == Pairs(EndSorted(l), r.regs, type, <<>>,
                   [regs |-> <<>>, nestings |-> 0, twice |-> FALSE])
  IN IF l.regs = <<>> THEN List(<<>>, l.nested \/ r.nested)
     ELSE List(IF res.twice THEN StartSorted(res.regs) ELSE res.regs,
               l.nested \/ r.nested \/ res.twice)

\* l quote r: from each of l after the last to the next of r.
RECURSIVE Quote(_, _, _)
Quote(ls, rs, type) ==
  IF ls = <<>> THEN <<>>
  ELSE LET rest == DropWhile(rs, LAMBDA b : b.start <= ls[1].end) IN
       IF rest = <<>> THEN <<>>
       ELSE LET reg == Region(From(ls[1], type), To(rest[1], type))
                more == DropWhile(ls, LAMBDA a : a.start <= rest[1].end)
            IN (IF type = "LR" /\ reg.end < reg.start THEN <<>> ELSE <<reg>>)
                 \o Quote(more, rest, type)

quote(l, r, type) == List(Quote(l.regs, r.regs, type), FALSE)

(***************************************************************************)
(* parenting: the innermost of l around each of r.  ps and cs are the      *)
(* parents and the children that are left, stack the parents around the    *)
(* child.                                                                  *)
(***************************************************************************)
\* A parent that ended before the child is skipped with all that start
\* in it.
RECURSIVE SkipEnded(_, _)
SkipEnded(ps, child) ==
  IF ps = <<>> \/ ps[1].end >= child.start THEN ps
  ELSE SkipEnded(FirstStart(ps, ps[1].end + 1), child)

\* Variant: the parents that ended before the child are kept.
StillAroundAll(stack, child) == stack
StillAround(stack, child) ==
  Reverse(DropWhile(Reverse(stack), LAMBDA p : p.end < child.end))

RECURSIVE Parents(_, _, _, _)
Parents(ps, cs, stack, out) ==
  IF cs = <<>> \/ (ps = <<>> /\ stack = <<>>) THEN List(out, TRUE)
  ELSE
  LET qs == SkipEnded(ps, cs[1])
      ds == IF stack # <<>> \/ qs = <<>> THEN cs
            ELSE DropWhile(cs, LAMBDA c : ~contains(qs[1], c) /\ qs[1].end > c.start)
      child == ds[1]
      more == Tail(ds)
  IN IF ds = <<>> THEN List(out, TRUE)
     ELSE IF qs # <<>> /\ contains(qs[1], child)
       THEN Parents(Tail(qs), ds, Append(stack, qs[1]), out)
     ELSE IF stack # <<>> THEN
       IF ~contains(Last(stack), child) THEN Fate("aborts")
       ELSE Parents(qs, more,
                    IF more = <<>> THEN stack ELSE StillAround(stack, more[1]),
                    Append(out, Last(stack)))
     ELSE IF qs # <<>> /\ qs[1].end = child.start THEN Fate("endless")
     ELSE Parents(qs, ds, stack, out)

parenting(l, r) ==
  IF l.regs = <<>> THEN List(<<>>, LIST_SIZE(r) > 1)
  ELSE LET res == Parents(l.regs, r.regs, <<>>, <<>>)
       IN IF res.fate # "done" THEN res
          ELSE List(remove_duplicates(res.regs), LIST_SIZE(r) > 1)

(***************************************************************************)
(* childrening: the regions of l in one of r with none between.  p is the  *)
(* parent and ps those after it, cs the candidates that are left, of which *)
(* those from a position on count.  The parents that start in p are saved   *)
(* for another pass.  A pass ends when there are no candidates left: the   *)
(* parents that were not looked at before are then dropped.                *)
(***************************************************************************)
\* Of the candidates with the same start the longest that is in p.
RECURSIVE Longest(_, _)
Longest(p, cs) ==
  IF /\ Len(cs) > 1 /\ contains(p, cs[1])
     /\ cs[2].start = cs[1].start /\ contains(p, cs[2])
    THEN Longest(p, Tail(cs)) ELSE cs

\* An assertion excludes a candidate that is there twice.
Twice(p, cs) == \E i \in 1 .. Len(cs) - 1 :
                  /\ cs[i] = cs[i + 1] /\ cs[i].start = cs[1].start
                  /\ contains(p, cs[i])

childrening(l, r) ==
  LET RECURSIVE Pass(_, _, _, _, _, _, _)
      Again(saved, out, again) ==
        IF saved # <<>>
          THEN Pass(saved[1], Tail(saved), l.regs, saved[1].start, <<>>, out, TRUE)
        ELSE IF again THEN List(remove_duplicates(out), TRUE) ELSE List(out, FALSE)
      Pass(p, ps, cs, from, saved, out, again) ==
        LET left == FirstStart(cs, from)
            found == Longest(p, left)
            rest == FirstStart(ps, p.end + 1)
            inside == SubSeq(ps, 1, Len(ps) - Len(rest))
        IN IF left = <<>> THEN Again(saved, out, again)
           ELSE IF left[1] = p THEN Pass(p, ps, left, from + 1, saved, out, again)
           ELSE IF Twice(p, left) THEN Fate("aborts")
           ELSE IF contains(p, found[1])
             THEN Pass(p, ps, found, found[1].end + 1, saved, Append(out, found[1]), again)
           ELSE IF rest = <<>> THEN Again(saved \o inside, out, again)
           ELSE Pass(rest[1], Tail(rest), found, rest[1].start, saved \o inside, out, again)
  IN IF r.regs = <<>> THEN List(<<>>, FALSE)
     ELSE Pass(r.regs[1], Tail(r.regs), l.regs, r.regs[1].start, <<>>, <<>>, FALSE)

(***************************************************************************)
(* concat: regions that overlap become one; extracting: what is left of    *)
(* the regions of l without those of r.                                    *)
(***************************************************************************)
Joined(a, b) == Region(a.start, Max({a.end, b.end}))

\* Variant: regions that only touch become one, too.
ConcatTouching(regs) ==
  FoldLeft(LAMBDA out, reg :
             IF out = <<>> \/ reg.start > Last(out).end + 1 THEN Append(out, reg)
             ELSE Append(Front(out), Joined(Last(out), reg)),
           <<>>, regs)
Concat(regs) ==
  FoldLeft(LAMBDA out, reg :
             IF out = <<>> \/ reg.start > Last(out).end THEN Append(out, reg)
             ELSE Append(Front(out), Joined(Last(out), reg)),
           <<>>, regs)
concat(l) == List(Concat(l.regs), FALSE)

\* Regions are taken up to one that is equal to the last.
Fresh(regs, prev) ==
  FoldLeft(LAMBDA acc, reg : IF reg = acc.prev THEN acc
                             ELSE [prev |-> reg, out |-> Append(acc.out, reg)],
           [prev |-> prev, out |-> <<>>], regs)

\* All of l that start before the end of r[1] are cut to before its start,
\* and what is left of them after its end goes back into l.
RECURSIVE Extract(_, _, _)
Extract(l, r, prev) ==
  IF l = <<>> THEN <<>>
  ELSE IF r = <<>> \/ l[1].end < r[1].start
    THEN LET f == Fresh(<<l[1]>>, prev) IN f.out \o Extract(Tail(l), r, f.prev)
  ELSE IF r[1].end < l[1].start THEN Extract(l, Tail(r), prev)
  ELSE LET rest == FirstStart(l, r[1].end + 1)
           cut == SubSeq(l, 1, Len(l) - Len(rest))
           before == SelectSeq(cut, LAMBDA a : a.start < r[1].start)
           after == SelectSeq(cut, LAMBDA a : a.end > r[1].end)
           f == Fresh([i \in 1 .. Len(before) |->
                        Region(before[i].start, r[1].start - 1)], prev)
           tmp == [i \in 1 .. Len(after) |-> Region(r[1].end + 1, after[i].end)]
       IN f.out \o Extract(FirstOf(rest, StartSorted(tmp)), r, f.prev)

extracting(l, r) == List(Extract(l.regs, Concat(r.regs), Region(-1, -1)), l.nested)

(***************************************************************************)
(* join, first, last, first_bytes and last_bytes                           *)
(***************************************************************************)
join(l, n) ==
  LET k == LIST_SIZE(l) - n + 1
      regs == [i \in 1 .. k |-> Region(l.regs[i].start, l.regs[i + n - 1].end)]
      back == \E i \in 2 .. k : /\ l.regs[i].start = l.regs[i - 1].start
                                /\ l.regs[i + n - 1].end <= l.regs[i + n - 2].end
  IN IF k < 1 THEN List(<<>>, l.nested)
     ELSE List(IF back THEN remove_duplicates(regs) ELSE regs, l.nested)

first(l, n) == List(SubSeq(l.regs, 1, Min({n, LIST_SIZE(l)})), FALSE)
last(l, n) == List(SubSeq(l.regs, Max({LIST_SIZE(l) - n, 0}) + 1, LIST_SIZE(l)), FALSE)

\* A region that is too short is left out, and one that gives the same
\* region as the one before; which is compared as it is when it gave none.
Bytes(regs, n, part(_)) ==
  FoldLeft(LAMBDA acc, reg :
             IF reg.end - reg.start + 1 >= n /\ part(reg) # acc.prev
               THEN [prev |-> part(reg), out |-> Append(acc.out, part(reg))]
             ELSE [acc EXCEPT !.prev = reg],
           [prev |-> Region(-1, -1), out |-> <<>>], regs).out

first_bytes(l, n) ==
  IF n = 0 THEN List(<<>>, FALSE)
  ELSE List(Bytes(l.regs, n, LAMBDA reg : Region(reg.start, reg.start + n - 1)), l.nested)

last_bytes(l, n) ==
  LET regs == Bytes(l.regs, n, LAMBDA reg : Region(reg.end + 1 - n, reg.end))
  IN IF n = 0 THEN List(<<>>, FALSE)
     ELSE List(IF l.nested THEN remove_duplicates(regs) ELSE regs, l.nested)

(***************************************************************************)
(* near and near_before: of the outermost regions, those with at most n    *)
(* bytes between them.                                                     *)
(***************************************************************************)
Outer(l) == (IF l.nested THEN outer(l) ELSE l).regs

\* The match that was found last is added when one is found that is not in
\* it; at the end it is left out when it starts at 0, and so it is when a
\* match of the first branch follows.
RECURSIVE Near(_, _, _, _)
Near(f, s, n, match) ==
  IF f = <<>> \/ s = <<>> THEN IF match.start > 0 THEN <<match>> ELSE <<>>
  ELSE LET firstFirst == StartsFirst(f[1], s[1])
           a == IF firstFirst THEN f[1] ELSE s[1]
           b == IF firstFirst THEN s[1] ELSE f[1]
           hit == b.start - 1 - a.end <= n /\ b.end > match.end
           add == hit /\ match.start >= (IF firstFirst THEN 1 ELSE 0)
       IN (IF add THEN <<match>> ELSE <<>>)
            \o Near(IF firstFirst THEN Tail(f) ELSE f,
                    IF firstFirst THEN s ELSE Tail(s), n,
                    IF hit THEN Region(a.start, b.end) ELSE match)

eval_near(l, r, n) == List(Near(Outer(l), Outer(r), n, Region(-1, -1)), FALSE)

RECURSIVE NearBefore(_, _, _)
NearBefore(f, s, n) ==
  IF f = <<>> THEN <<>>
  ELSE LET left == FirstStart(s, f[1].end + 1) IN
       IF left = <<>> THEN <<>>
       ELSE (IF left[1].start - 1 - f[1].end <= n
               THEN <<Region(f[1].start, left[1].end)>> ELSE <<>>)
              \o NearBefore(Tail(f), left, n)

near_before(l, r, n) == List(NearBefore(Outer(l), Outer(r), n), FALSE)
=============================================================================
