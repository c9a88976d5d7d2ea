------------------------------- MODULE SpanPos -------------------------------
(***************************************************************************)
(* Positions and spans: from an element and an offset to the element that  *)
(* holds the text there, and from these to the bounds of what nextChars,   *)
(* theseChars, prevChars and makeKWIC output (ana_browsegrove.c and        *)
(* ana_commands.c).  A byte of the text is "a", a character of its own,    *)
(* " ", white space, "l", the first byte of a longer character, or "c",    *)
(* another byte of it.                                                     *)
(***************************************************************************)
EXTENDS Grove

UMax == 65536         \* 2^w: an int that is read as unsigned
Unsigned(x) == IF x < 0 THEN x + UMax ELSE x

(***************************************************************************)
(* Where the texts are in the file: one after the other, in the order of   *)
(* the elements, an element with others below it from the first of its     *)
(* texts.  The file is shorter than the greatest unsigned number, and what *)
(* it holds is text: a byte "c" goes on a character, at most the third     *)
(* byte after its first.                                                   *)
(***************************************************************************)
Single(byte) == byte \in {"a", " "}
Begins(byte) == byte # "c"

IsUtf8(text) ==
  /\ text \in Seq({"a", " ", "l", "c"})
  /\ \A i \in 1 .. Len(text) : ~Begins(text[i]) => i > 1 /\ ~Single(text[i - 1])
  /\ \A i \in 1 .. Len(text) - 3 : \E j \in i .. i + 3 : Begins(text[j])

IsLaidOut(b) ==
  LET els == Elements(b) IN
  /\ IsUtf8(b.text) /\ Len(b.text) < UMax - 1
  /\ b.start_data \in [els -> Nat] /\ b.end_data \in [els -> Nat]
  /\ \A e \in els :
       /\ b.start_data[e] <= b.end_data[e] /\ b.end_data[e] <= Len(b.text)
       /\ e + 1 \in els =>
            b.start_data[e + 1] = IF IsText(b, e) THEN b.end_data[e] ELSE b.start_data[e]

At(el, off) == [ok |-> TRUE, el |-> el, off |-> off]
Nowhere == [ok |-> FALSE, el |-> 0, off |-> 0]

(***************************************************************************)
(* get_real_rel_pos: forward over the texts until the offset is in one.    *)
(***************************************************************************)
get_real_rel_pos(b, el, off) ==
  LET real[e \in Int] ==
        [o \in Nat |->
           IF ~get_next_sgml_obj(b, e) THEN Nowhere
           ELSE IF ~IsText(b, e) THEN real[e + 1][o]
           ELSE IF o <= Size(b, e) THEN At(e, o)
           ELSE real[e + 1][o - Size(b, e)]]
  IN real[el][Unsigned(off)]

(***************************************************************************)
(* get_rel_pos: down from the root.  An element with children is the       *)
(* answer only where it starts or ends.  Endless: the loop would begin     *)
(* again at the root.                                                      *)
(***************************************************************************)
Endless == Fail

Edge(b, pos, el) == pos \in {b.start_data[el], b.end_data[el]}
Inside(b, pos, el) == b.start_data[el] < pos /\ pos < b.end_data[el]

Descend(b, pos) ==
  LET down[e \in Elements(b)] ==
        IF Inside(b, pos, e) /\ b.child[e] # None THEN down[b.child[e]]
        ELSE IF Inside(b, pos, e) \/ Edge(b, pos, e) THEN e
        ELSE IF b.rsib[e] # None THEN down[b.rsib[e]]
        ELSE Endless
  IN down[0]

get_rel_pos(b, el, off, nchars) ==
  LET pos == Max({0, b.start_data[el] + off + nchars})
      found == Descend(b, pos)
  IN IF found = Endless THEN Nowhere ELSE At(found, pos - b.start_data[found])

(***************************************************************************)
(* get_sgp_rel_pos: from a position in the tagged text.  right_sib_el is   *)
(* used where it was not set: then it is what the stack held, here right,  *)
(* any element.                                                            *)
(***************************************************************************)
Bisect(b, pos, junk) ==
  LET Stage(cur, left, right, rsib) ==
        [cur |-> cur, left |-> left, right |-> right, rsib |-> rsib]
      find[s \in [cur : Nat, left : Nat, right : Nat, rsib : Nat]] ==
        LET cur == s.cur
            lend == IF b.lsib[cur] = None THEN 0 ELSE b.sgrep_end[cur - 1]
            rstart == IF b.rsib[cur] = None THEN 0 ELSE b.sgrep_start[cur + 1]
            next == IF b.rsib[cur] = None THEN s.rsib ELSE cur + 1
            Narrow(l, r) == LET mid == (r - l) \div 2 + l
                            IN IF mid = cur THEN cur ELSE find[Stage(mid, l, r, next)]
            start == b.sgrep_start[cur]
            end == b.sgrep_end[cur]
        IN IF pos < start /\ (pos <= lend \/ lend = 0) THEN Narrow(s.left, cur)
           ELSE IF pos > end /\ (pos >= rstart \/ rstart = 0) THEN Narrow(cur, s.right)
           ELSE IF start < pos /\ pos < end THEN Narrow(cur, s.right)
           ELSE IF pos = end \/ (pos > end /\ (start = end \/ b.cont_type[cur] = 0))
             THEN next
           ELSE cur
  IN find[Stage(no_elements(b) \div 2, 0, no_elements(b), junk)]

get_el_sgp_rel_pos(b, pos, junk) ==
  LET el == Bisect(b, pos, junk)
  IN IF pos = b.sgrep_start[el] /\ b.child[el] # None THEN b.child[el] ELSE el

\* Variant: the offset is that in the element above.
SgpRelPosAbove(b, pos, junk) ==
  LET el == get_el_sgp_rel_pos(b, pos, junk)
  IN [el |-> el, off |-> pos - b.sgrep_start[b.ancestor[el]]]
get_sgp_rel_pos(b, pos, junk) ==
  LET el == get_el_sgp_rel_pos(b, pos, junk)
  IN [el |-> el, off |-> pos - b.sgrep_start[el]]

(***************************************************************************)
(* The ten bytes read around a bound, to see whether it is in a character. *)
(***************************************************************************)
\* A seek to before the file fails and leaves the file where it was.
Window(b, pos, count, where) ==
  LET from == IF pos < 0 THEN where ELSE pos
  IN SubSeq(b.text, from + 1, Min({from + count, Len(b.text)}))

\* The index, from 0, of the first byte after that of index 0, or of the
\* last byte, that begins a character.
NextBegin(w) == LET s == {i \in 1 .. Len(w) - 1 : Begins(w[i + 1])}
                IN IF s = {} THEN Len(w) ELSE Min(s)
LastBegin(w) == LET s == {i \in 0 .. Len(w) - 1 : Begins(w[i + 1])}
                IN IF s = {} THEN Fail ELSE Max(s)

Bounds(s, e) == [ok |-> s.ok /\ e.ok, start_el |-> s.el, start_off |-> s.off,
                 end_el |-> e.el, end_off |-> e.off]
NoBounds == Bounds(Nowhere, Nowhere)

EndOr(b, el, off) == IF off = -1 THEN Size(b, el) ELSE off
AfterSdata(b, p, off) == p.ok /\ b.gi[p.el] = "SDATA" /\ off = Size(b, p.el)

\* Variant: no look at what the bytes are.
EndAnywhere(b, e, where) == e

\* Where the character ends in which the bound is.
EndOfCharacter(b, e, where) ==
  LET w == Window(b, b.start_data[e.el] + e.off - 1, 10, where)
  IN IF ~e.ok \/ w = <<>> \/ Single(w[1]) \/ NextBegin(w) = Len(w) THEN e
     ELSE get_rel_pos(b, e.el, 0, e.off + NextBegin(w) - 1)

(***************************************************************************)
(* calc_next_chars: nchars on from the offset.                             *)
(***************************************************************************)
calc_next_chars(b, el, off, nchars, where) ==
  LET p == get_real_rel_pos(b, el, EndOr(b, el, off))
      s == IF AfterSdata(b, p, EndOr(b, el, off))
           THEN get_real_rel_pos(b, p.el + 1, 0) ELSE p
      e == IF s.ok THEN get_rel_pos(b, p.el, s.off, nchars) ELSE Nowhere
      r == IF e.ok THEN get_real_rel_pos(b, e.el, e.off) ELSE Nowhere
  IN IF r.ok THEN Bounds(s, EndOfCharacter(b, r, where)) ELSE NoBounds

(***************************************************************************)
(* calc_prev_chars: nchars back from the offset.  -1 is not replaced by    *)
(* the end of the element: orig_offset was copied before.                  *)
(***************************************************************************)
\* Variant: no look at what the bytes are.
StartAnywhere(b, s) == s
StartOfCharacter(b, s) ==
  LET pos == b.start_data[s.el] + s.off - 9
      w == Window(b, Max({pos, 0}), IF pos < 0 THEN -pos ELSE 10, 0)
      i == LastBegin(w)
  IN IF ~s.ok \/ w = <<>> \/ Single(w[Len(w)]) \/ i = Len(w) - 1 THEN s
     ELSE get_rel_pos(b, s.el, 0,
            s.off + (IF i = Fail THEN -1 ELSE i + 1) - Len(w))

calc_prev_chars(b, el, off, nchars) ==
  LET e == get_real_rel_pos(b, el, off)
      p == IF e.ok THEN get_rel_pos(b, e.el, e.off, -nchars) ELSE Nowhere
      q == IF p.ok THEN get_real_rel_pos(b, p.el, p.off) ELSE Nowhere
      s == IF AfterSdata(b, q, q.off) THEN get_real_rel_pos(b, q.el + 1, 1) ELSE q
  IN IF s.ok THEN Bounds(StartOfCharacter(b, s), e) ELSE NoBounds

(***************************************************************************)
(* calc_these_chars: from the first offset to the second.  For an offset   *)
(* of 0 in the last element the code goes on with an element that could    *)
(* not be read, and ends there: no bounds.                                 *)
(***************************************************************************)
\* A bound is moved when the byte before it is not a character of its own.
StartOfThese(b, s, where) ==
  LET w == Window(b, b.start_data[s.el] + s.off - 1, 10, where)
      i == LastBegin(w)
      pos == IF i = Fail THEN -1 ELSE i + 1
  IN IF w = <<>> \/ Single(w[1]) \/ pos = Len(w) THEN s
     ELSE get_rel_pos(b, s.el, 0, s.off + pos - 1)

calc_these_chars(b, el1, off1, el2, off2, where) ==
  LET p == IF off1 = 0
             THEN IF get_next_sgml_obj(b, el1 + 1) THEN At(el1, 0) ELSE Nowhere
           ELSE get_real_rel_pos(b, el1, EndOr(b, el1, off1))
      s == IF AfterSdata(b, p, p.off) THEN get_real_rel_pos(b, p.el + 1, 0) ELSE p
      q == get_real_rel_pos(b, el2, EndOr(b, el2, off2))
      e == IF AfterSdata(b, q, q.off) THEN get_real_rel_pos(b, q.el - 1, 0) ELSE q
  IN IF ~s.ok \/ ~e.ok THEN NoBounds
     ELSE LET t == StartOfThese(b, s, where)
          IN IF t.ok THEN Bounds(t, EndOfCharacter(b, e, where)) ELSE NoBounds

(***************************************************************************)
(* The commands without a style: characters straight from the file, cut at *)
(* white space.  What is returned is from.to, or nothing.                  *)
(***************************************************************************)
Slice(from, to) == [ok |-> TRUE, from |-> from, to |-> to]
NoSlice == [ok |-> FALSE, from |-> 0, to |-> 0]

Spaces(b, from, to) == {i \in from .. to - 1 : b.text[i + 1] = " "}

get_next_chars_raw(b, el, off, nchars) ==
  LET from == IF off = -1 THEN b.end_data[el] ELSE b.start_data[el] + off
      to == Min({from + nchars, Len(b.text)})
      cuts == Spaces(b, from + 1, to)
  IN IF from > to \/ cuts = {} THEN NoSlice ELSE Slice(from, Max(cuts))

\* Variant: the white space that is looked for is the last, not the first.
PrevCharsLastWord(b, el, off, nchars) ==
  LET to == IF off = -1 THEN b.end_data[el] ELSE b.start_data[el] + off
      from == Max({to - nchars, 0})
      cuts == Spaces(b, from, to)
  IN IF cuts # {} THEN Slice(Max(cuts), to) ELSE Slice(from, to)

\* Before the start of the file it is the offset that is read up to, not the
\* position; with an offset of -1 that is a length of -1, which is left out.
get_prev_chars_raw(b, el, off, nchars) ==
  LET start == IF off = -1 THEN b.end_data[el] - nchars
               ELSE b.start_data[el] + off - nchars
      from == Max({start, 0})
      to == IF start < 0 THEN off ELSE start + nchars
      cuts == Spaces(b, from, to)
  IN IF to < 0 \/ to > Len(b.text) THEN NoSlice
     ELSE IF cuts # {} /\ Min(cuts) - from < to - from - 2
       THEN Slice(Min(cuts) + 1, to) ELSE Slice(from, to)

get_these_chars_raw(b, el1, off1, el2, off2) ==
  LET from == IF off1 = -1 THEN b.end_data[el1] ELSE b.start_data[el1] + off1
      to == IF off2 = -1 THEN b.end_data[el2] ELSE b.start_data[el2] + off2
  IN IF to < from \/ to > Len(b.text) THEN NoSlice ELSE Slice(from, to)

\* content without a style: at most 1024 characters of the element.
get_ana_content_raw(b, el, max) ==
  IF b.cont_type[el] = 0 THEN NoSlice
  ELSE Slice(b.start_data[el],
             b.start_data[el] + Min({Size(b, el), 1024, Unsigned(max)}))

(***************************************************************************)
(* makeKWIC: the characters before a hit, the hit, and those after it.     *)
(***************************************************************************)
make_kwic(b, hit, before, after, where) ==
  LET pre == calc_prev_chars(b, hit.start_el, hit.start_off, before)
      mid == calc_these_chars(b, hit.start_el, hit.start_off,
                              hit.end_el, hit.end_off, where)
      post == calc_next_chars(b, hit.end_el, hit.end_off, after, where)
  IN IF ~pre.ok THEN <<>> ELSE IF ~mid.ok THEN <<pre>>
     ELSE IF ~post.ok THEN <<pre, mid>> ELSE <<pre, mid, post>>
=============================================================================
