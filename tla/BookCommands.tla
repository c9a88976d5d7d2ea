---------------------------- MODULE BookCommands ----------------------------
(***************************************************************************)
(* What a style procedure asks of a book: the commands that find elements, *)
(* those that return or format characters around a place, and the making   *)
(* and the search of the variant database.  A command is one step: it      *)
(* reads the book and leaves its answer for the procedure.  A request      *)
(* opens the book anew and finds the files as they are.                    *)
(***************************************************************************)
EXTENDS SpanPos, VBase

CONSTANTS
  Books,            \* the books, each with its witness list and apparatus
  Args,             \* the arguments for elements that procedures give
  Offs, Counts,     \* offsets and numbers of characters
  Exclusions,       \* the witnesses that makeVBase leaves out
  Builds,           \* the machines: their byte order, their longs, their stack
  Conds, Pages      \* lists of conditions, and pages, of a search

\* What the index files of a book hold, and what is asked of it: no text that a
\* procedure gives for a name is NULL, offsets are not negative but for -1,
\* which stands for the end, and at least one character is asked for.
ASSUME BooksAssumption == \A b \in Books : IsTree(b) /\ IsLaidOut(b) /\ IsApparatus(b)
ASSUME ArgsAssumption ==
  /\ Args \subseteq Seq([is_num : BOOLEAN, num : Int, path : Seq(STRING \ {NoName})])
  /\ Offs \subseteq Nat \cup {-1} /\ Counts \subseteq Nat \ {0}
  /\ Conds \subseteq Seq([neg : BOOLEAN, op : Ops, n : Nat, sigils : Seq(STRING),
                         type : STRING, bang : BOOLEAN])
  /\ Pages \subseteq [start : Int, end : Int, first : Int, num : Int]

\* On a big-endian machine with longs of 8 bytes write_num would write zeros.
ASSUME BuildsAssumption ==
  /\ Builds \subseteq [big_endian : BOOLEAN, long_bytes : {4, 8}, behind : Int]
  /\ \A m \in Builds : m.big_endian => m.long_bytes = 4

VARIABLES
  book,      \* the book that is asked
  vbs,       \* its .vbs file
  vbase,     \* what the process book has read of it
  reply      \* the last command with its arguments and its answer

vars == <<book, vbs, vbase, reply>>

NoReply == [cmd |-> "none"]

Init == /\ book \in Books
        /\ vbs \in (IF book.apps = <<>> THEN {NoFile} ELSE {NoFile, EmptyFile})
        /\ vbase = NoBase
        /\ reply = NoReply

Els == Elements(book)

Commands ==
  {"ancestor", "leftSibling", "rightSibling", "child", "descendant",
   "previous", "next"}

Answer(cmd, el, args) ==
  CASE cmd = "ancestor" -> get_ana_ancestor(book, el, args)
    [] cmd = "leftSibling" -> get_ana_lsibling(book, el, args)
    [] cmd = "rightSibling" -> get_ana_rsibling(book, el, args)
    [] cmd = "child" -> get_ana_child(book, el, args)
    [] cmd = "descendant" -> get_ana_descendant(book, el, args)
    [] cmd = "previous" -> get_ana_previous_el(book, el, args)
    [] cmd = "next" -> get_ana_next_el(book, el, args)

Find ==
  \E cmd \in Commands, el \in Els \cup {-1, no_elements(book)}, args \in Args :
    reply' = [cmd |-> cmd, el |-> el, args |-> args,
              found |-> Answer(cmd, el, args)]

Offsets(el) == {o \in Offs : o <= Size(book, el)}

\* nextChars and prevChars, with a style and without.
NextChars ==
  \E el \in Els, n \in Counts : \E off \in Offsets(el) :
    reply' = [cmd |-> "nextChars", el |-> el, off |-> off, n |-> n,
              bounds |-> calc_next_chars(book, el, off, n, 0),
              text |-> get_next_chars_raw(book, el, off, n)]

PrevChars ==
  \E el \in Els, n \in Counts : \E off \in Offsets(el) :
    reply' = [cmd |-> "prevChars", el |-> el, off |-> off, n |-> n,
              bounds |-> calc_prev_chars(book, el, off, n),
              text |-> get_prev_chars_raw(book, el, off, n)]

TheseChars ==
  \E el1, el2 \in Els, where \in {0, Len(book.text)} :
    \E off1 \in Offsets(el1), off2 \in Offsets(el2) :
      /\ get_these_chars_raw(book, el1, off1, el2, off2).ok
      /\ reply' = [cmd |-> "theseChars", el |-> el1, off |-> off1,
                   bounds |-> calc_these_chars(book, el1, off1, el2, off2, where),
                   text |-> get_these_chars_raw(book, el1, off1, el2, off2)]

Content ==
  \E el \in Els, max \in Counts \cup {-1} :
    reply' = [cmd |-> "content", el |-> el, max |-> max,
              text |-> get_ana_content_raw(book, el, max)]

\* A hit that a search found, in the texts where the tagged text has it.
TextAt(p) == \E t \in Els : /\ IsText(book, t)
                            /\ book.sgrep_start[t] <= p /\ p < book.sgrep_end[t]
SgpPositions == {p \in book.sgrep_start[0] .. book.sgrep_end[0] : TextAt(p)}

Hit(from, to, junk) ==
  LET s == get_sgp_rel_pos(book, from, junk)
      e == get_sgp_rel_pos(book, to, junk)
  IN [start_el |-> s.el, start_off |-> s.off, end_el |-> e.el, end_off |-> e.off + 1]

\* makeKWIC for a hit from.to of the tagged text.
MakeKwic ==
  \E from, to \in SgpPositions, before, after \in Counts, junk \in Els :
    /\ from <= to
    /\ reply' = [cmd |-> "makeKWIC", from |-> from, to |-> to,
                 hit |-> Hit(from, to, junk), before |-> before, after |-> after,
                 spans |-> make_kwic(book, Hit(from, to, junk), before, after, 0)]

MakeVBase ==
  \E exclude \in Exclusions, build \in Builds :
    /\ book.apps # <<>>
    /\ vbs' \in make_ana_vbase(book, exclude, vbs, build)
    /\ reply' = [cmd |-> "makeVBase", exclude |-> exclude]

SearchVBase ==
  \E conds \in Conds, p \in Pages :
    LET base == IF vbase = NoBase THEN read_vbase(vbs) ELSE vbase
    IN /\ book.apps # <<>>
       /\ \E result \in search_ana_vbase(base, p.start, p.end, p.first, p.num, conds) :
            /\ reply' = [cmd |-> "searchVBase", opened |-> vbase = NoBase, base |-> base,
                         conds |-> conds, page |-> p, result |-> result]
            /\ vbase' = BaseAfter(vbase, base, result)

AsksTheBook == Find \/ NextChars \/ PrevChars \/ TheseChars \/ Content \/ MakeKwic

\* The procedure goes on with the answer, or another request comes.
GoOn == reply' = NoReply /\ vbase' \in {vbase, NoBase}

Next ==
  \/ reply = NoReply /\ AsksTheBook /\ UNCHANGED <<book, vbs, vbase>>
  \/ reply = NoReply /\ MakeVBase /\ UNCHANGED <<book, vbase>>
  \/ reply = NoReply /\ SearchVBase /\ UNCHANGED <<book, vbs>>
  \/ reply # NoReply /\ GoOn /\ UNCHANGED <<book, vbs>>

Spec == Init /\ [][Next]_vars

(***************************************************************************)
(* Properties                                                              *)
(***************************************************************************)
Asked(cmds) == reply.cmd \in cmds

\* What a command looks through, the nearest first.
Above(el) ==
  LET above[e \in Els] ==
        IF e = 0 THEN {} ELSE {book.ancestor[e]} \cup above[book.ancestor[e]]
  IN above[el]
Sought(cmd, el) ==
  CASE cmd = "ancestor" -> Above(el) \ {0}
    [] cmd = "leftSibling" -> {e \in Beside(book, el) : e < el}
    [] cmd = "rightSibling" -> {e \in Beside(book, el) : e > el}
    [] cmd = "child" -> Below(book, el)
    [] cmd = "previous" -> 1 .. el - 1
    [] cmd = "next" -> {e \in Els : e > el}
Way(cmd) == IF cmd \in {"ancestor", "leftSibling", "previous"} THEN "back" ELSE "on"

Nth(S, n, way) ==
  {e \in S : n = Cardinality({f \in S : IF way = "back" THEN f >= e ELSE f <= e})}

\* A command for an element of the book, a number and at most one name
\* returns the element that is the number-th of that name in its direction,
\* and 0 where there is none or where the number is not positive.  The root
\* is not found.  This says nothing of descendant: find_descendant looks among
\* the children only, its comment says that it looks level by level below them.
Agreed == Commands \ {"descendant"}
FindsNth ==
  Asked(Agreed) =>
    LET a == Arguments(reply.args)
        S == {e \in Sought(reply.cmd, reply.el) : Matches(book, e, Name(a.path))}
        nth == Nth(S, a.num, Way(reply.cmd))
    IN a.ok /\ reply.el \in Els /\ Len(a.path) <= 1 =>
         reply.found = IF nth = {} THEN 0 ELSE Max(nth)

\* child with a path finds an element that is as deep below as the path is
\* long and has its names on the way up, and ancestor with the names of the way
\* up finds the way back: what is found with one command is left with the other.
Up(el, k) ==
  LET up[i \in Nat] == IF i = 0 THEN el ELSE book.ancestor[up[i - 1]]
  IN up[k]
PathsInvert ==
  Asked({"child"}) =>
    LET path == Arguments(reply.args).path
        k == Len(path)
    IN reply.found > 0 /\ k > 0 =>
         /\ Up(reply.found, k) = reply.el
         /\ \A i \in 1 .. k : book.gi[Up(reply.found, k - i)] = path[i]
         /\ reply.el # 0 =>
              LET back == [i \in 1 .. k |-> IF i = k THEN book.gi[reply.el]
                                            ELSE path[k - i]]
              IN get_ana_ancestor(book, reply.found,
                   <<[is_num |-> FALSE, num |-> 0, path |-> back]>>) = reply.el

\* The byte of the text that a bound is before.
Place(el, off) == book.start_data[el] + off
StartPlace(bd) == Place(bd.start_el, bd.start_off)
EndPlace(bd) == Place(bd.end_el, bd.end_off)
Boundary(p) == p >= Len(book.text) \/ Begins(book.text[p + 1])
AskedPlace == Place(reply.el, EndOr(book, reply.el, reply.off))

HasSdata == \E e \in Els : book.gi[e] = "SDATA"

\* nextChars with a style outputs from where it was asked to, and to the end
\* of the character in which the last byte that was asked for is: to the first
\* place from there on where a character begins.  The last character of the
\* text, which no other begins after, is cut.
NextSpan ==
  Asked({"nextChars"}) /\ reply.bounds.ok /\ ~HasSdata =>
    LET asked == AskedPlace + reply.n
        begins == {p \in asked .. Len(book.text) - 1 : Begins(book.text[p + 1])}
    IN /\ StartPlace(reply.bounds) = AskedPlace
       /\ EndPlace(reply.bounds) = IF begins = {} THEN asked ELSE Min(begins)

\* prevChars with a style outputs up to where it was asked to, and, but for
\* the first bytes of the text, from the start of the character in which the
\* first byte that was asked for is.
PrevSpan ==
  Asked({"prevChars"}) /\ reply.bounds.ok /\ ~HasSdata =>
    /\ EndPlace(reply.bounds) = AskedPlace
    /\ AskedPlace - reply.n >= 9 =>
         StartPlace(reply.bounds) =
           Max({p \in 0 .. AskedPlace - reply.n : Boundary(p)})

\* Without a style nextChars returns what is before a white space, and
\* prevChars what is after one or all that was asked for; but not for the
\* first bytes of the text, where prevChars goes wrong.
WholeWords ==
  /\ Asked({"nextChars"}) /\ reply.text.ok =>
       /\ reply.text.from = AskedPlace
       /\ book.text[reply.text.to + 1] = " "
       /\ reply.text.to - reply.text.from < reply.n
  /\ Asked({"prevChars"}) /\ reply.text.ok /\ AskedPlace >= reply.n =>
       /\ reply.text.to = AskedPlace
       /\ \/ reply.text.from = AskedPlace - reply.n
          \/ book.text[reply.text.from] = " "

Ascii == \A i \in 1 .. Len(book.text) : Single(book.text[i])

\* The byte of the text at a position of the tagged text.
TextPlace(p) ==
  LET t == CHOOSE t \in Els : /\ IsText(book, t)
                              /\ book.sgrep_start[t] <= p
                              /\ p < book.sgrep_end[t]
  IN Place(t, p - book.sgrep_start[t])

\* The three spans of makeKWIC have the hit in the middle and nothing twice
\* and nothing left out between them.
KwicContiguous ==
  Asked({"makeKWIC"}) /\ Ascii /\ ~HasSdata =>
    LET s == reply.spans IN
    /\ Len(s) >= 2 =>
         /\ EndPlace(s[1]) = StartPlace(s[2])
         /\ StartPlace(s[2]) = TextPlace(reply.from)
         /\ EndPlace(s[2]) = TextPlace(reply.to) + 1
    /\ Len(s) = 3 => EndPlace(s[2]) = StartPlace(s[3])

(***************************************************************************)
(* The variant database                                                    *)
(***************************************************************************)
Readings == FlattenSeq([i \in 1 .. Len(book.apps) |->
              [j \in 1 .. Len(book.apps[i].rdgs) |->
                 [el |-> book.apps[i].rdgs[j].el, type |-> book.apps[i].type,
                  refs |-> book.apps[i].rdgs[j].refs]]])

\* The witnesses of the base that was searched.
Listed == {book.witlist[i] : i \in 1 .. Len(book.witlist)} \ reply.base[1].exclude

\* What a condition without a type says of the witnesses of a reading.
Meant(c, refs) ==
  LET named == IF "all" \in Range(c.sigils) THEN Listed
               ELSE Range(c.sigils) \cap Listed
      k == Cardinality(named \cap refs)
      only == (refs \cap Listed) \subseteq named
      num == CASE c.op = "" -> IF c.neg THEN k = 0 ELSE named \subseteq refs
               [] c.op \in {"2", "=", "=="} -> (k = c.n) <=> ~c.neg
               [] c.op \in {"<", "<<"} -> (k < c.n) <=> ~c.neg
               [] c.op \in {">", ">>"} -> (k > c.n) <=> ~c.neg
  IN num /\ (c.op \in {"==", "<<", ">>"} => only)

Simple(c) == /\ c.type = NoType
             /\ IsInjective(c.sigils) /\ ~(c.op = "2" /\ c.n = 0)

\* The file that makeVBase has finished is read by the search that opens it:
\* makeVBase is "to make a vbase, .vbse, file to be read and used by vbase
\* routines in anv files".  It is on a big-endian machine; on a little-endian
\* one the count of the readings is read from the wrong end.
MadeIsRead ==
  Asked({"searchVBase"}) /\ reply.opened /\ vbs # NoFile =>
    (vbs[1].state = "made" => AsMade(reply.base))

\* Of a base that was read as it was made and is still there, whichever file
\* is there by now, searchVBase finds, in the order of the book, the readings
\* of the elements asked for whose witnesses are as the conditions say, counts
\* all of them and returns those of the page.
FindsReadings ==
  Asked({"searchVBase"}) /\ AsMade(reply.base) /\ reply.result.ok
    /\ (\A i \in 1 .. Len(reply.conds) : Simple(reply.conds[i])) =>
    LET p == reply.page
        ids == reply.result.ids
        hits == {k \in 1 .. Len(Readings) :
                   /\ Readings[k].el \in p.start .. p.end
                   /\ \A i \in 1 .. Len(reply.conds) :
                        Meant(reply.conds[i], Readings[k].refs)}
        page == {n \in 1 .. Cardinality(hits) : n >= p.first}
    IN /\ reply.result.found = Cardinality(hits)
       /\ Len(ids) = IF Cardinality(page) < p.num THEN Cardinality(page) ELSE Max({p.num, 0})
       /\ \A i \in 1 .. Len(ids) :
            \E k \in Nth(hits, Max({p.first, 1}) + i - 1, "on") : ids[i] = Readings[k].el
=============================================================================
