---------------------------- MODULE OutputEngine ----------------------------
(***************************************************************************)
(* How a page, or a span of a page, is output: make_reader_file,           *)
(* format_kwic_span, output_element and output_content of                  *)
(* src/ana_browsegrove.c, with the search cursor that they advance.        *)
(*                                                                         *)
(* output_element and output_content call each other; stack has a frame    *)
(* for each call, ret the value that the call which ended last returned.   *)
(* A step is the code from one call of a style procedure to the next.  A   *)
(* style procedure is a Tcl program of the book: what it can do to the     *)
(* output is its Replies.                                                  *)
(*                                                                         *)
(* What is written is abstracted to its length, capped above outputMax,    *)
(* and, for the text of one element, to how far it has been written.       *)
(***************************************************************************)
EXTENDS Integers, Sequences, FiniteSets, SequencesExt

CONSTANTS
  Els,             \* the elements of the book: 0, the root, and up
  Child, Rsib, Ancestor,   \* an element for each; 0 where there is none
  Kind,            \* "element", "empty", "PCDATA" or "SDATA"
  TextLen,         \* the length of the text of an element
  Styled,          \* the elements for which find_tcl_cmd finds a procedure
  Hides,           \* the values of hide that procedures set
  Searches,        \* what a search in the begin procedure can find
  Spans,           \* the bounds of the spans that are formatted
  Starts,          \* the elements that pages begin with
  StartEls,        \* what procedures can put in startEl
  MaxStartEls,     \* bound: how often one page uses startEl
  MaxFaults,       \* bound: how many reads or allocations of a page fail
  MaxSpans,        \* bound: how many spans a page formats
  outputSiblings, outputRight, outputMax

\* Elements are numbered in the order in which they begin (find_next_el of
\* ana_browsegrove.c takes the next number for the next element): those below e
\* go from e to last[e], and its next sibling comes after them. The root, 0, is
\* an element.
Numbered(last) ==
  \A e \in Els :
    /\ e <= last[e]
    /\ e # 0 => Ancestor[e] < e /\ last[e] <= last[Ancestor[e]]
    /\ Child[e] # 0 => e < Child[e] /\ Ancestor[Child[e]] = e
    /\ Rsib[e] # 0 => last[e] < Rsib[e] /\ Ancestor[Rsib[e]] = Ancestor[e]

ASSUME BookAssumption ==
  /\ Els \subseteq Nat /\ 0 \in Els
  /\ Child \in [Els -> Els] /\ Rsib \in [Els -> Els] /\ Ancestor \in [Els -> Els]
  /\ Rsib[0] = 0 /\ Kind[0] = "element"
  /\ \E last \in [Els -> Els] : Numbered(last)
  /\ Starts \subseteq Els /\ \A b \in Spans : b.start_el \in Els

ASSUME SearchesAssumption ==
  Searches \subseteq Seq([start_el : Els, start_off : Nat,
                         end_el : Els, end_off : Nat])

\* Text has a length, and nothing below it.
ASSUME TextAssumption ==
  /\ TextLen \in [Els -> Nat]
  /\ \A e \in Els \ {0} : Kind[Ancestor[e]] # "PCDATA"

\* What process_style makes of the variable hide of a procedure.
ASSUME StyleAssumption == Hides \subseteq {0, 1, 2}

ASSUME BoundsAssumption == MaxSpans \in Nat

NoBounds == [start_el |-> -1, start_off |-> 0, end_el |-> -1, end_off |-> -1]
NotAnElement == -1

VARIABLES
  page,        \* what make_reader_file does now
  stack, ret,
  walk,        \* what walk_down_tree or walk_up_tree still has to do
  bounds,
  hide, last_el, len, memory_error,
  in_search, texts, done, hit,  \* search_texts_found, ntexts_done, current_search
  clones,      \* how many clones are in use
  startEls, faults,             \* what is left of these two bounds
  spans,       \* how many are left, and if one was formatted in found text
  open,        \* the elements begun and not ended (history)
  begun,       \* the element begun last (history)
  upto,        \* how far the text of the element is written (history)
  open_hits,   \* hits begun and not ended (history)
  leaked,      \* clones that nobody will dispose of (history)
  told_to_stop \* finish or an error, in the span output innermost (history)

cursor == <<in_search, texts, done, hit>>
budget == <<startEls, faults, spans>>
vars == <<page, stack, ret, walk, bounds, hide, last_el, len, memory_error,
          cursor, clones, budget, open, begun, upto, open_hits, leaked,
          told_to_stop>>

Running == -1         \* ret while a call is going on
Nothing == <<>>       \* what a frame other than of a span has saved
NoHit == [start_el |-> 0, start_off |-> 0, end_el |-> 0, end_off |-> 0]

(***************************************************************************)
(* The search cursor                                                       *)
(***************************************************************************)
\* update_curr_search: how many hits begin before the first element.
Skipped(el) ==
  LET later == {c \in done .. Len(texts) - 1 : texts[c + 1].start_el >= el}
  IN IF later = {} THEN Len(texts)
     ELSE CHOOSE c \in later : \A d \in later : c <= d

update_curr_search(el) ==
  /\ done' = Skipped(el)
  /\ in_search' = (Skipped(el) < Len(texts))
  /\ hit' = IF Skipped(el) < Len(texts) THEN texts[Skipped(el) + 1] ELSE hit
  /\ UNCHANGED texts

previous_search == IF done = 0 THEN NoHit ELSE texts[done]
next_search == IF done + 1 = Len(texts) THEN NoHit ELSE texts[done + 2]

\* Variant: the last hit is left one call too late.
IncrementStays ==
  /\ done' = done + 1
  /\ in_search' = (done < Len(texts))
  /\ hit' = IF done + 1 >= Len(texts) THEN [hit EXCEPT !.start_el = -1]
            ELSE texts[done + 2]
  /\ UNCHANGED texts
increment_curr_search ==
  /\ done' = done + 1
  /\ in_search' = (done + 1 < Len(texts))
  /\ hit' = IF done + 1 = Len(texts) THEN [hit EXCEPT !.start_el = -1]
            ELSE texts[done + 2]
  /\ UNCHANGED texts

(***************************************************************************)
(* process_style: the value it returns, hide, and the length of the output *)
(***************************************************************************)
Longer(l) == IF l > outputMax THEN l ELSE l + 1
Reply(r, h, l) == [r |-> r, hide |-> h, len |-> l]

HideCode(h) == CASE h = 0 -> 1 [] h = 1 -> 2 [] h = 2 -> 5

ProcedureReplies(h, l, may_finish) ==
  {Reply(HideCode(g), g, m) : g \in Hides, m \in {l, Longer(l)}}
    \cup {Reply(4, h, m) : m \in IF may_finish THEN {l, Longer(l)} ELSE {}}
    \cup {Reply(0, h, m) : m \in IF faults > 0 THEN {Longer(l)} ELSE {}}

\* Without a procedure for the element nothing happens, to hide neither.
process_style(el, param) ==
  IF el \in Styled
  THEN ProcedureReplies(hide, len, param = "after" \/ Kind[el] = "empty")
  ELSE {Reply(1, hide, len)}

\* A clone with ",found" on its path has the procedure for found text.
FoundReplies(h, l, param) == ProcedureReplies(h, l, param = "after")

Spend(r) == faults' = IF r = 0 THEN faults - 1 ELSE faults

(***************************************************************************)
(* The stack                                                               *)
(***************************************************************************)
Frame(fn, el, sibs, right) ==
  [fn |-> fn, el |-> el, sibs |-> sibs, right |-> right, next |-> 0,
   at |-> "top", hide |-> hide, holds |-> FALSE, saved |-> Nothing]

Top == Last(stack)
At(fn, at) == page = "output" /\ stack # <<>> /\ Top.fn = fn /\ Top.at = at
Go(at) == [stack EXCEPT ![Len(stack)].at = at]
Replace(f) == [stack EXCEPT ![Len(stack)] = f]
Call(f, g) == Append(Replace(f), g)
Return(r) == stack' = Front(stack) /\ ret' = r

TooLong(l) == l > outputMax
Held == IF Top.holds THEN 1 ELSE 0

\* A read or an allocation fails; an allocation says so in memory_error.
Fails ==
  /\ faults > 0
  /\ faults' = faults - 1
  /\ memory_error' \in {memory_error, TRUE}

(***************************************************************************)
(* output_element                                                          *)
(***************************************************************************)
Path(el) ==
  LET up[e \in Els] == IF e = 0 THEN <<0>> ELSE Append(up[Ancestor[e]], e)
  IN up[el]
Above(el) == IF el = 0 THEN <<>> ELSE Path(Ancestor[el])

ElementFails ==
  /\ At("element", "top")
  /\ Fails
  /\ last_el' = Top.el
  /\ Return(0)
  /\ told_to_stop' = TRUE
  /\ UNCHANGED <<page, walk, bounds, hide, len, cursor, clones, startEls, spans,
                 open, begun, upto, open_hits, leaked>>

\* The element is cloned and its before procedure is called.
StopsAfterStart(s) == s.r \in {0, 4} \/ TooLong(s.len) \/ memory_error

Begin ==
  /\ At("element", "top")
  /\ \E s \in process_style(Top.el, "before") :
       /\ hide' = s.hide
       /\ len' = s.len
       /\ Spend(s.r)
       /\ told_to_stop' = (told_to_stop \/ StopsAfterStart(s))
       /\ LET f == [Top EXCEPT !.next = Rsib[Top.el], !.hide = hide,
                               !.holds = TRUE]
          IN CASE StopsAfterStart(s) ->
                    /\ Return(IF s.r = 4 THEN 4 ELSE 0)
                    /\ UNCHANGED clones
               [] ~StopsAfterStart(s) /\ Kind[Top.el] = "empty" ->
                    /\ stack' = Replace([f EXCEPT !.at = "next"])
                    /\ clones' = clones + 1
                    /\ UNCHANGED ret
               [] OTHER ->
                    /\ stack' = Call([f EXCEPT !.at = "content"],
                                     Frame("content", Top.el, FALSE, FALSE))
                    /\ clones' = clones + 1
                    /\ ret' = Running
  /\ last_el' = Top.el
  /\ begun' = Top.el
  /\ open' = IF Kind[Top.el] = "empty" THEN open ELSE Append(open, Top.el)
  /\ upto' = 0
  /\ UNCHANGED <<page, walk, bounds, memory_error, cursor, startEls, spans, open_hits,
                 leaked>>

\* output_content has returned: the after procedure, unless it is all over.  A
\* span that the after procedure formats, and that runs out of memory, ends the
\* element here too: output_element asks for memory_error again behind it.
ContentStops == ret \in {0, 4} \/ TooLong(len) \/ memory_error

EndSkipped ==
  /\ At("element", "content")
  /\ ContentStops
  /\ Return(IF ret = 4 THEN 4 ELSE 0)
  /\ clones' = clones - Held
  /\ told_to_stop' = TRUE
  /\ UNCHANGED <<page, walk, bounds, hide, last_el, len, memory_error, cursor,
                 budget, open, begun, upto, open_hits, leaked>>

\* output_end fetches the element again.
EndFails ==
  /\ At("element", "content")
  /\ ~ContentStops
  /\ Fails
  /\ last_el' = Top.el
  /\ Return(0)
  /\ clones' = clones - Held
  /\ told_to_stop' = TRUE
  /\ UNCHANGED <<page, walk, bounds, hide, len, cursor, startEls, spans, open, begun,
                 upto, open_hits, leaked>>

End ==
  /\ At("element", "content")
  /\ ~ContentStops
  /\ \E s \in process_style(Top.el, "after") :
       /\ hide' = s.hide
       /\ len' = s.len
       /\ Spend(s.r)
       /\ told_to_stop' = (told_to_stop \/ s.r \in {0, 4} \/ TooLong(s.len))
       /\ IF s.r \in {0, 4} \/ TooLong(s.len)
          THEN /\ Return(IF s.r = 4 THEN 4 ELSE 0)
               /\ clones' = clones - Held
          ELSE /\ stack' = Go("next")
               /\ UNCHANGED <<ret, clones>>
  /\ last_el' = Top.el
  /\ open' = IF open # <<>> /\ Last(open) = Top.el THEN Front(open)
             ELSE <<NotAnElement>>
  /\ UNCHANGED <<page, walk, bounds, memory_error, cursor, startEls, spans, begun,
                 upto, open_hits, leaked>>

\* No sibling is left, the last element was not the root, and what is right
\* of the ancestors is wanted too.
\* Variant: also in the calls for the children.
ClimbsNested == Top.next = 0 /\ Top.el # 0 /\ Top.sibs
Climbs == Top.next = 0 /\ Top.el # 0 /\ Top.sibs /\ Top.right

NextElement ==
  /\ At("element", "next")
  /\ last_el' = Top.el
  /\ stack' = Go(IF Climbs THEN "climb" ELSE "jump")
  /\ UNCHANGED <<page, ret, walk, bounds, hide, len, memory_error, cursor,
                 clones, budget, open, begun, upto, open_hits, leaked, told_to_stop>>

ClimbFails ==
  /\ At("element", "climb")
  /\ Fails
  /\ Return(0)
  /\ clones' = clones - Held
  /\ told_to_stop' = TRUE
  /\ UNCHANGED <<page, walk, bounds, hide, last_el, len, cursor, startEls, spans,
                 open, begun, upto, open_hits, leaked>>

\* The end of the ancestor of the last element, and on to its next sibling.
\* Variant: it stops at the first ancestor.
ClimbsOnceOnly(up) == FALSE
\* Variant: the root is not the end of it.
ClimbsOnForever(up) == Rsib[up] = 0
ClimbsOn(up) == Rsib[up] = 0 /\ up # 0

Climb ==
  /\ At("element", "climb")
  /\ LET up == Ancestor[last_el] IN
       /\ \E s \in process_style(up, "after") :
            /\ hide' = s.hide
            /\ len' = s.len
            /\ Spend(s.r)
            /\ told_to_stop' = (told_to_stop \/ s.r \in {0, 4} \/ TooLong(s.len)
                               \/ memory_error)
            /\ IF s.r \in {0, 4} \/ TooLong(s.len) \/ memory_error
               THEN /\ Return(IF s.r = 4 THEN 4 ELSE 0)
                    /\ clones' = clones - Held
                    /\ UNCHANGED last_el
               ELSE /\ stack' = Replace([Top EXCEPT
                         !.next = Rsib[up],
                         !.at = IF ClimbsOn(up) THEN "climb" ELSE "jump"])
                    /\ last_el' = up
                    /\ UNCHANGED <<ret, clones>>
       /\ open' = IF open # <<>> /\ Last(open) = up THEN Front(open)
                  ELSE <<NotAnElement>>
  /\ UNCHANGED <<page, walk, bounds, memory_error, cursor, startEls, spans, begun,
                 upto, open_hits, leaked>>

\* No procedure has set startEl: on to the next sibling, if wanted.
GoOn ==
  /\ At("element", "jump")
  /\ hide' = Top.hide
  /\ clones' = clones - Held
  /\ IF Top.next # 0 /\ Top.sibs
     THEN /\ stack' = Replace([Top EXCEPT !.el = Top.next, !.at = "top",
                                          !.holds = FALSE])
          /\ UNCHANGED ret
     ELSE Return(1)
  /\ UNCHANGED <<page, walk, bounds, last_el, len, memory_error, cursor,
                 budget, open, begun, upto, open_hits, leaked, told_to_stop>>

\* startEl names an element: the output goes on there, even if siblings are
\* not wanted.  The clone of it, made here, is never disposed of.  If startEl
\* names none, the element number is read from the clone disposed of, whose
\* memory ana_free has set to 0.
JumpTarget(s) == IF s \in Els THEN s ELSE 0

Jump ==
  /\ At("element", "jump")
  /\ startEls > 0
  /\ startEls' = startEls - 1
  /\ \E s \in StartEls :
       /\ clones' = clones - Held + (IF s \in Els THEN 1 ELSE 0)
       /\ leaked' = leaked + (IF s \in Els THEN 1 ELSE 0)
       /\ stack' = Replace([Top EXCEPT !.el = JumpTarget(s), !.at = "top",
                                       !.holds = FALSE])
       /\ len' \in IF s \in Els THEN {len} ELSE {len, Longer(len)}
       /\ begun' = IF s \in Els THEN NotAnElement ELSE begun
       /\ open' = IF Top.right /\ s \in Els THEN Above(s) ELSE open
  /\ hide' = Top.hide
  /\ UNCHANGED <<page, ret, walk, bounds, last_el, memory_error, cursor,
                 faults, spans, upto, open_hits, told_to_stop>>

\* Climbing and jumping use a clone without asking whether it was made.
CloneRefused ==
  /\ At("element", "climb") \/ (At("element", "jump") /\ startEls > 0)
  /\ faults > 0
  /\ faults' = faults - 1
  /\ memory_error' = TRUE
  /\ page' = "undefined"
  /\ UNCHANGED <<stack, ret, walk, bounds, hide, last_el, len, cursor, clones,
                 startEls, spans, open, begun, upto, open_hits, leaked, told_to_stop>>

output_element ==
  \/ ElementFails \/ Begin \/ EndSkipped \/ EndFails \/ End \/ NextElement
  \/ ClimbFails \/ Climb \/ GoOn \/ Jump \/ CloneRefused

(***************************************************************************)
(* output_content                                                          *)
(***************************************************************************)
ContentFails ==
  /\ At("content", "top")
  /\ Fails
  /\ Return(0)
  /\ told_to_stop' = TRUE
  /\ UNCHANGED <<page, walk, bounds, hide, last_el, len, cursor, clones,
                 startEls, spans, open, begun, upto, open_hits, leaked>>

\* The content procedure: it can fail, hide the children, or neither.
Content ==
  /\ At("content", "top")
  /\ \E s \in process_style(Top.el, "content") :
       /\ hide' = s.hide
       /\ len' = s.len
       /\ Spend(s.r)
       /\ told_to_stop' = (told_to_stop \/ s.r = 0)
       /\ IF s.r = 0
          THEN Return(0) /\ UNCHANGED clones
          ELSE /\ stack' = Replace([Top EXCEPT
                             !.at = IF s.r = 2 THEN "hidden" ELSE "bounds",
                             !.holds = TRUE])
               /\ clones' = clones + 1
               /\ UNCHANGED ret
  /\ UNCHANGED <<page, walk, bounds, last_el, memory_error, cursor, startEls, spans,
                 open, begun, upto, open_hits, leaked>>

\* The children are hidden, and the clone is disposed of.  A hit that ends
\* at or before this element, the current or the previous one, is ended.
EndsCurrent == in_search /\ Top.el >= hit.end_el
EndsPrevious == previous_search.end_el # 0 /\ Top.el >= previous_search.end_el

\* Variant: the clone is not disposed of.
HiddenAwayKept(at) ==
  /\ stack' = Replace([Top EXCEPT !.at = at, !.holds = FALSE])
  /\ UNCHANGED clones
HiddenAway(at) ==
  /\ stack' = Replace([Top EXCEPT !.at = at, !.holds = FALSE])
  /\ clones' = clones - Held

Hidden ==
  /\ At("content", "hidden")
  /\ ~EndsCurrent /\ ~EndsPrevious
  /\ HiddenAway("bounds")
  /\ UNCHANGED <<page, ret, walk, bounds, hide, last_el, len, memory_error,
                 cursor, budget, open, begun, upto, open_hits, leaked, told_to_stop>>

\* The procedure for the end of a hit is called, once: for the current hit, or
\* else for the previous one.
HiddenHit ==
  /\ At("content", "hidden")
  /\ EndsCurrent \/ EndsPrevious
  /\ stack' = Go(IF EndsCurrent THEN "endsCurrent" ELSE "endsPrevious")
  /\ UNCHANGED <<page, ret, walk, bounds, hide, last_el, len, memory_error,
                 cursor, clones, budget, open, begun, upto, open_hits, leaked,
                 told_to_stop>>

\* Behind the last hit there is none to go on to.
HitsLeft == done < Len(texts)

\* If the procedure for found text shows the children after all, the element
\* disposed of is read.
HiddenHitEnded ==
  /\ At("content", "endsCurrent") \/ At("content", "endsPrevious")
  /\ \E s \in FoundReplies(hide, len, "after") :
       /\ hide' = s.hide
       /\ len' = s.len
       /\ Spend(s.r)
       /\ told_to_stop' = (told_to_stop \/ s.r = 0)
       /\ IF s.r = 0
          THEN Return(0) /\ clones' = clones - Held /\ UNCHANGED <<page, cursor>>
          ELSE /\ HiddenAway("bounds")
               /\ UNCHANGED ret
               /\ LET moves == Top.at = "endsCurrent" IN
                    /\ page' = IF s.hide = 1 /\ (moves => HitsLeft) THEN page
                               ELSE "undefined"
                    /\ IF moves /\ HitsLeft THEN increment_curr_search
                       ELSE UNCHANGED cursor
  /\ open_hits' = open_hits - 1
  /\ UNCHANGED <<walk, bounds, last_el, memory_error, startEls, spans, open, begun,
                 upto, leaked>>

PastEnd == \/ bounds.end_el < Top.el
           \/ bounds.end_el = Top.el /\ bounds.end_off = 0

Shows == hide # 2 /\ Kind[Top.el] = "PCDATA"
InHit == \/ in_search /\ hit.start_el = Top.el
         \/ previous_search.end_el = Top.el

InBounds(b) == b = NoBounds \/ ~PastEnd

\* The span has ended already.
StopAtBounds ==
  /\ At("content", "bounds")
  /\ ~InBounds(bounds)
  /\ Return(4)
  /\ clones' = clones - Held
  /\ told_to_stop' = TRUE
  /\ UNCHANGED <<page, walk, bounds, hide, last_el, len, memory_error, cursor,
                 budget, open, begun, upto, open_hits, leaked>>

\* A clone is left behind unless the content procedure itself hid.
ReturnHidden ==
  /\ At("content", "bounds")
  /\ InBounds(bounds)
  /\ hide = 1
  /\ Return(1)
  /\ leaked' = leaked + Held
  /\ UNCHANGED <<page, walk, bounds, hide, last_el, len, memory_error, cursor,
                 clones, budget, open, begun, upto, open_hits, told_to_stop>>

\* Text with no hit in it, whole or as much of it as the bounds want.
From == IF bounds.start_el = Top.el THEN bounds.start_off ELSE 0
To == IF bounds.end_el = Top.el THEN bounds.end_off ELSE TextLen[Top.el]

Wrote(n, from, to) == IF n = from /\ from <= to THEN to ELSE -1

PlainText ==
  /\ At("content", "bounds")
  /\ InBounds(bounds) /\ hide # 1 /\ Shows /\ ~InHit
  /\ len' = Longer(len)
  /\ upto' = Wrote(From, From, To)
  /\ clones' = clones - Held
  /\ LET ends == bounds.end_el = Top.el IN
       /\ Return(IF ends THEN 4 ELSE 1)
       /\ told_to_stop' = (told_to_stop \/ ends)
  /\ UNCHANGED <<page, walk, bounds, hide, last_el, memory_error, cursor,
                 budget, open, begun, open_hits, leaked>>

\* set_text_obj_size finds no memory (it does not say so), or the read fails.
PlainTextFails ==
  /\ At("content", "bounds")
  /\ InBounds(bounds) /\ hide # 1 /\ Shows /\ ~InHit
  /\ Fails
  /\ len' = Longer(len)
  /\ clones' = clones - Held
  /\ Return(0)
  /\ told_to_stop' = TRUE
  /\ UNCHANGED <<page, walk, bounds, hide, last_el, cursor, startEls, spans, open,
                 begun, upto, open_hits, leaked>>

\* Text with hits: first the end of a hit from an element before, with the
\* procedure for its end, then what comes before the next hit, in which the
\* cursor is read again.
EndsFromBefore == previous_search.end_el = Top.el
EndHere == IF EndsFromBefore THEN previous_search.end_off ELSE 0
HitBefore(u) == IF hit.start_off # 0 THEN Wrote(u, EndHere, hit.start_off) ELSE u
BeforeLen(l) == IF hit.start_off # 0 THEN Longer(l) ELSE l

InTextWithHits ==
  At("content", "bounds") /\ InBounds(bounds) /\ hide # 1 /\ Shows /\ InHit

HitFromBefore ==
  /\ InTextWithHits /\ EndsFromBefore
  /\ upto' = EndHere
  /\ len' = Longer(len)
  /\ stack' = Go("ended")
  /\ UNCHANGED <<page, ret, walk, bounds, hide, last_el, memory_error, cursor,
                 clones, budget, open, begun, open_hits, leaked, told_to_stop>>

\* What a procedure for found text does: it fails, and the element is left with
\* its clone, or else the output goes on.  The clone made for it is disposed of
\* on both ways, and not counted.
FoundFails(s) ==
  /\ Return(0)
  /\ len' = s.len
  /\ leaked' = leaked + Held
  /\ UNCHANGED <<page, cursor, upto, open_hits>>

FoundProcedure(param, GoesOn(_)) ==
  /\ \E s \in FoundReplies(hide, len, param) :
       /\ hide' = s.hide
       /\ Spend(s.r)
       /\ told_to_stop' = (told_to_stop \/ s.r = 0)
       /\ \/ s.r = 0 /\ FoundFails(s)
          \/ s.r # 0 /\ GoesOn(s.len) /\ UNCHANGED <<ret, leaked>>
  /\ UNCHANGED <<walk, bounds, last_el, memory_error, clones, startEls, spans,
                 open, begun>>

BeforeNextHit(l) ==
  /\ stack' = Go("hit")
  /\ upto' = HitBefore(upto)
  /\ len' = BeforeLen(l)
  /\ open_hits' = open_hits - 1
  /\ UNCHANGED <<page, cursor>>

HitEnded == At("content", "ended") /\ FoundProcedure("after", BeforeNextHit)

TextBeforeHit ==
  /\ InTextWithHits /\ ~EndsFromBefore
  /\ upto' = HitBefore(0)
  /\ len' = BeforeLen(len)
  /\ stack' = Go("hit")
  /\ UNCHANGED <<page, ret, walk, bounds, hide, last_el, memory_error, cursor,
                 clones, budget, open, begun, open_hits, leaked, told_to_stop>>

\* One hit that begins in this text: its procedure is called before it and,
\* if it also ends here, after it; then comes the text up to the next hit.
HitBegins ==
  /\ At("content", "hit")
  /\ hit.start_el = Top.el
  /\ stack' = Go("begins")
  /\ UNCHANGED <<page, ret, walk, bounds, hide, last_el, len, memory_error,
                 cursor, clones, budget, open, begun, upto, open_hits, leaked,
                 told_to_stop>>

Marked(l) ==
  /\ stack' = Go("found")
  /\ len' = l
  /\ open_hits' = open_hits + 1
  /\ UNCHANGED <<page, cursor, upto>>

HitBegun == At("content", "begins") /\ FoundProcedure("before", Marked)

\* Variant: the end is not marked.
EndsInTextNever == FALSE
EndsInText == hit.end_el = Top.el

HitText ==
  /\ At("content", "found")
  /\ EndsInText
  /\ upto' = Wrote(upto, hit.start_off, hit.end_off)
  /\ len' = Longer(len)
  /\ stack' = Go("ends")
  /\ UNCHANGED <<page, ret, walk, bounds, hide, last_el, memory_error, cursor,
                 clones, budget, open, begun, open_hits, leaked, told_to_stop>>

\* Variant: as if it were the last hit.
AfterHitToEnd ==
  Wrote(upto, IF hit.end_el = Top.el THEN hit.end_off ELSE hit.start_off,
        TextLen[Top.el])
AfterHit ==
  LET from == IF hit.end_el = Top.el THEN hit.end_off ELSE hit.start_off
      to == IF next_search.start_el = Top.el THEN next_search.start_off
            ELSE TextLen[Top.el]
  IN Wrote(upto, from, to)

\* If the cursor is behind the last hit, what is behind the hits in memory is
\* read.
PassHit(l) ==
  \/ /\ HitsLeft
     /\ increment_curr_search
     /\ upto' = AfterHit
     /\ len' = Longer(l)
     /\ stack' = Go("hit")
     /\ UNCHANGED page
  \/ /\ ~HitsLeft
     /\ page' = "undefined"
     /\ len' = l
     /\ UNCHANGED <<stack, cursor, upto>>

HitGoesOn ==
  /\ At("content", "found")
  /\ ~EndsInText
  /\ PassHit(len)
  /\ UNCHANGED <<ret, walk, bounds, hide, last_el, memory_error, clones, budget,
                 open, begun, open_hits, leaked, told_to_stop>>

Unmarked(l) == PassHit(l) /\ open_hits' = open_hits - 1

HitEnds == At("content", "ends") /\ FoundProcedure("after", Unmarked)

\* The clone for the procedure of found text is refused.
FoundCloneFails ==
  /\ \/ At("content", "hidden") /\ (EndsCurrent \/ EndsPrevious)
     \/ InTextWithHits /\ EndsFromBefore
     \/ At("content", "hit") /\ hit.start_el = Top.el
     \/ At("content", "found") /\ EndsInText
  /\ Fails
  /\ len' = IF Top.at \in {"bounds", "found"} THEN Longer(len) ELSE len
  /\ Return(0)
  /\ clones' = clones - Held
  /\ told_to_stop' = TRUE
  /\ UNCHANGED <<page, walk, bounds, hide, last_el, cursor, startEls, spans,
                 open, begun, upto, open_hits, leaked>>

HitsDone ==
  /\ At("content", "hit")
  /\ hit.start_el # Top.el
  /\ Return(1)
  /\ clones' = clones - Held
  /\ UNCHANGED <<page, walk, bounds, hide, last_el, len, memory_error, cursor,
                 budget, open, begun, upto, open_hits, leaked, told_to_stop>>

\* What is not text, or is not shown: on to the children, if there are any.
Children ==
  /\ At("content", "bounds")
  /\ InBounds(bounds) /\ hide # 1 /\ ~Shows
  /\ len' \in IF Kind[Top.el] = "SDATA" /\ hide # 2 THEN {Longer(len)} ELSE {len}
  /\ IF Child[Top.el] # 0
     THEN /\ stack' = Call([Top EXCEPT !.at = "children"],
                           Frame("element", Child[Top.el], TRUE, FALSE))
          /\ ret' = Running
          /\ UNCHANGED clones
     ELSE Return(1) /\ clones' = clones - Held
  /\ UNCHANGED <<page, walk, bounds, hide, last_el, memory_error, cursor,
                 budget, open, begun, upto, open_hits, leaked, told_to_stop>>

\* Variant: finish is not handed on.
ChildrenRetOnly(r) == IF r = 4 THEN 1 ELSE r
ChildrenRet(r) == r

ChildrenDone ==
  /\ At("content", "children")
  /\ Return(ChildrenRet(ret))
  /\ clones' = clones - Held
  /\ UNCHANGED <<page, walk, bounds, hide, last_el, len, memory_error, cursor,
                 budget, open, begun, upto, open_hits, leaked, told_to_stop>>

output_content ==
  \/ ContentFails \/ Content \/ Hidden \/ HiddenHit \/ HiddenHitEnded
  \/ StopAtBounds \/ ReturnHidden \/ PlainText \/ PlainTextFails
  \/ HitFromBefore \/ HitEnded \/ TextBeforeHit \/ HitBegins \/ HitBegun
  \/ HitText \/ HitGoesOn \/ HitEnds \/ FoundCloneFails \/ HitsDone
  \/ Children \/ ChildrenDone

(***************************************************************************)
(* A procedure formats a span: make_kwic and the three get_*_chars, with   *)
(* format_kwic_span or format_arbitrary_span.  The search is suspended     *)
(* meanwhile.  The output has a buffer of its own.                         *)
(***************************************************************************)
\* What a procedure can ask for: makeKWIC calls the before procedures of what
\* is above the span and the after procedures of what is above its end, the
\* others one of them or none; and they restore in_search after a failure.
Commands ==
  [makeKWIC  |-> [down |-> TRUE,  up |-> TRUE,  restores |-> TRUE],
   prevChars |-> [down |-> TRUE,  up |-> FALSE, restores |-> FALSE],
   theseChars |-> [down |-> FALSE, up |-> FALSE, restores |-> FALSE],
   nextChars |-> [down |-> FALSE, up |-> TRUE,  restores |-> FALSE]]

Suspended(f) == FALSE

\* A procedure of an element runs: of its own call, of an ancestor that is
\* climbed to, or of one that walk_down_tree or walk_up_tree has come to.
InElement ==
  \/ (At("element", "top") \/ At("content", "top")) /\ Top.el \in Styled
  \/ At("element", "content") /\ ~ContentStops /\ Top.el \in Styled
  \/ At("element", "climb") /\ Ancestor[last_el] \in Styled
  \/ (At("span", "down") \/ At("span", "up")) /\ walk # <<>> /\ Head(walk) \in Styled

\* A procedure for found text runs.
FoundPlaces == {"endsCurrent", "endsPrevious", "ended", "begins", "ends"}
InFound == \E p \in FoundPlaces : At("content", p)

FormatSpan ==
  /\ InElement \/ InFound
  /\ spans.left > 0
  /\ spans' = [left |-> spans.left - 1, found |-> spans.found \/ InFound]
  /\ \E b \in Spans, c \in DOMAIN Commands :
       LET f == [Frame("span", b.start_el, TRUE, TRUE) EXCEPT
                   !.at = IF Commands[c].down THEN "down" ELSE "output",
                   !.saved = [command |-> c, in_search |-> in_search,
                              walk |-> walk, bounds |-> bounds, last_el |-> last_el,
                              len |-> len, open |-> open, begun |-> begun,
                              upto |-> upto, told |-> told_to_stop, ret |-> ret]]
       IN /\ stack' = Append(stack, f)
          /\ walk' = IF Commands[c].down THEN Above(b.start_el) ELSE <<>>
          /\ open' = IF Commands[c].down THEN <<>> ELSE Above(b.start_el)
          /\ bounds' = b
          /\ in_search' = Suspended(f)
  /\ hide' = 0 /\ len' = 0 /\ begun' = -1 /\ told_to_stop' = FALSE
  /\ ret' = Running
  /\ UNCHANGED <<page, last_el, memory_error, texts, done, hit, clones,
                 startEls, faults, upto, open_hits, leaked>>

\* The span is formatted, or it is not: back to the procedure.
EndSpan(succeeded) ==
  LET v == Top.saved IN
  /\ stack' = Front(stack)
  /\ in_search' = IF succeeded \/ Commands[v.command].restores
                  THEN v.in_search ELSE FALSE
  /\ bounds' = v.bounds /\ last_el' = v.last_el /\ len' = v.len
  /\ open' = v.open /\ begun' = v.begun /\ upto' = v.upto
  /\ told_to_stop' = v.told /\ ret' = v.ret
  /\ hide' = Top.hide
  /\ walk' = v.walk
  /\ UNCHANGED <<page, memory_error, texts, done, hit, clones, startEls,
                 spans, open_hits, leaked>>

SpanFails ==
  /\ At("span", "down") \/ At("span", "up")
  /\ faults > 0
  /\ faults' = faults - 1
  /\ EndSpan(FALSE)

\* walk_down_tree: the elements above the first one, from the root.
WalkDown ==
  /\ At("span", "down")
  /\ walk # <<>>
  /\ \E s \in process_style(Head(walk), "before") :
       /\ s.r # 0
       /\ hide' = s.hide
       /\ len' = s.len
  /\ walk' = Tail(walk)
  /\ open' = Append(open, Head(walk))
  /\ UNCHANGED <<page, stack, ret, bounds, last_el, memory_error, cursor,
                 clones, budget, begun, upto, open_hits, leaked, told_to_stop>>

WalkDownDone ==
  /\ At("span", "down")
  /\ walk = <<>>
  /\ stack' = Go("output")
  /\ UNCHANGED <<page, ret, walk, bounds, hide, last_el, len, memory_error,
                 cursor, clones, budget, open, begun, upto, open_hits,
                 leaked, told_to_stop>>

OutputSpan ==
  /\ At("span", "output")
  /\ ret = Running
  /\ stack' = Append(stack, Frame("element", bounds.start_el, TRUE, TRUE))
  /\ UNCHANGED <<page, ret, walk, bounds, hide, last_el, len, memory_error,
                 cursor, clones, budget, open, begun, upto, open_hits,
                 leaked, told_to_stop>>

\* Told to stop or not, it goes on with what is above its end.
SpanOutput ==
  /\ At("span", "output")
  /\ ret # Running
  /\ IF ret = 0 \/ ~Commands[Top.saved.command].up
     THEN EndSpan(ret # 0) /\ UNCHANGED faults
     ELSE /\ stack' = Go("up")
          /\ walk' = Reverse(Above(bounds.end_el))
          /\ ret' = Running
          /\ told_to_stop' = FALSE
          /\ UNCHANGED <<page, bounds, hide, last_el, len, memory_error,
                         cursor, clones, budget, open, begun, upto, open_hits,
                         leaked>>

\* walk_up_tree: the elements above the last one, up to the root.
UpTo(el) == IF Contains(open, el)
            THEN SubSeq(open, 1, (CHOOSE k \in DOMAIN open : open[k] = el) - 1)
            ELSE <<NotAnElement>>
WalkUp ==
  /\ At("span", "up")
  /\ walk # <<>>
  /\ \E s \in process_style(Head(walk), "after") :
       /\ s.r # 0
       /\ hide' = s.hide
       /\ len' = s.len
  /\ walk' = Tail(walk)
  /\ open' = UpTo(Head(walk))
  /\ UNCHANGED <<page, stack, ret, bounds, last_el, memory_error, cursor,
                 clones, budget, begun, upto, open_hits, leaked, told_to_stop>>

WalkUpDone ==
  /\ At("span", "up")
  /\ walk = <<>>
  /\ EndSpan(TRUE)
  /\ UNCHANGED faults

span == \/ FormatSpan \/ SpanFails \/ WalkDown \/ WalkDownDone \/ OutputSpan
        \/ SpanOutput \/ WalkUp \/ WalkUpDone

(***************************************************************************)
(* make_reader_file                                                        *)
(***************************************************************************)
Init ==
  /\ page = "begin"
  /\ stack = <<>> /\ ret = Running /\ walk = <<>>
  /\ bounds = NoBounds
  /\ hide = 0 /\ last_el = 0 /\ len = 0
  /\ memory_error = FALSE
  /\ in_search = FALSE /\ texts = <<>> /\ done = 0 /\ hit = NoHit
  /\ clones = 0
  /\ startEls = MaxStartEls /\ faults = MaxFaults
  /\ spans = [left |-> MaxSpans, found |-> FALSE]
  /\ open = <<>> /\ begun = -1 /\ upto = 0 /\ open_hits = 0
  /\ leaked = 0
  /\ told_to_stop = FALSE

\* The begin procedure of the style searches the text ...
get_find_sg_text ==
  /\ page = "begin"
  /\ texts = <<>>
  /\ texts' \in Searches
  /\ in_search' = TRUE
  /\ UNCHANGED <<page, stack, ret, walk, bounds, hide, last_el, len,
                 memory_error, done, hit, clones, budget, open, begun, upto,
                 open_hits, leaked, told_to_stop>>

\* ... and hides, if it likes, and chooses the first element.
StartPage ==
  /\ page = "begin"
  /\ hide' \in Hides
  /\ \E el \in Starts :
       /\ IF in_search THEN update_curr_search(el) ELSE UNCHANGED cursor
       /\ stack' = <<[Frame("element", el, outputSiblings, outputRight)
                        EXCEPT !.hide = hide']>>
       /\ open' = Above(el)
  /\ page' = "output"
  /\ clones' = 1
  /\ UNCHANGED <<ret, walk, bounds, last_el, len, memory_error, budget, begun,
                 upto, open_hits, leaked, told_to_stop>>

\* finish in the begin procedure, or a fault before the output.
NoPage ==
  /\ page = "begin"
  /\ page' = "closed"
  /\ UNCHANGED <<stack, ret, walk, bounds, hide, last_el, len, memory_error,
                 cursor, clones, budget, open, begun, upto, open_hits,
                 leaked, told_to_stop>>

\* The end procedure, unless output_element returned 0; the clone and the
\* book are disposed of.
EndPage ==
  /\ page = "output"
  /\ stack = <<>>
  /\ page' = "closed"
  /\ clones' = clones - 1
  /\ UNCHANGED <<stack, ret, walk, bounds, hide, last_el, len, memory_error,
                 cursor, budget, open, begun, upto, open_hits, leaked, told_to_stop>>

make_reader_file == get_find_sg_text \/ StartPage \/ NoPage \/ EndPage

Next == make_reader_file \/ output_element \/ output_content \/ span
Steps == output_element \/ output_content \/ span \/ EndPage
Spec == Init /\ [][Next]_vars /\ WF_vars(Steps)

(***************************************************************************)
(* Properties                                                              *)
(***************************************************************************)
\* Begin and end of elements nest: only the element begun last, of those not
\* ended, is ended; and a page that is output to the end of the book has
\* ended everything (output_end, also of the ancestors that are climbed to).
Nested ==
  /\ ~Contains(open, NotAnElement)
  /\ page = "closed" /\ ret = 1 /\ outputRight => open = <<>>

\* Elements are begun in the order of the book, each once, unless startEl has
\* named another one ("if not successful: there will be a warning and all
\* will go just as before").
DocumentOrder == At("element", "top") => Top.el > begun

\* After finish, an error, the end of a span or too much output, nothing more
\* is begun: every caller on the stack hands the 4 or the 0 on.
Depth == Cardinality({k \in DOMAIN stack : stack[k].fn = "span"})
StopsWhenTold ==
  [][told_to_stop /\ Depth' = Depth => begun' = begun]_vars

\* While hits are to come, current_search is the next of them, as long as no
\* span passes one (SpanPassesNoHit): it gives in_search back as it was.  A span
\* that a procedure for found text formats can be of the text that is being
\* output, and pass the hit that it is called for: before there is any.
CursorOnHit ==
  page = "output" /\ in_search /\ ~spans.found =>
    done < Len(texts) /\ hit = texts[done + 1]

\* Before any span was formatted: a hit that is begun is ended before the
\* output of its text element goes on.
NoSpanYet == spans.left = MaxSpans
HitsPaired ==
  NoSpanYet /\ page = "output" /\ ~told_to_stop =>
    open_hits = IF At("content", "found") \/ At("content", "ends") THEN 1 ELSE 0

\* The text of an element with hits is written once, from its first character
\* to its last, unless it is hidden.
TextComplete ==
  /\ At("element", "content") /\ Kind[Top.el] = "PCDATA"
  /\ ret = 1 /\ bounds = NoBounds /\ NoSpanYet
  => upto \in {0, TextLen[Top.el]}

\* Every clone is held by one call, or by make_reader_file, or is one of those
\* left behind by startEl or by hide: the other ways out dispose of theirs.
Holders == {k \in DOMAIN stack : stack[k].holds}
ClonesDisposed ==
  page = "output" => clones = 1 + Cardinality(Holders) + leaked

\* A span is quiet: no hit is begun or ended while it is formatted ("we
\* disable is_curr_search in this, to prevent side effects").
QuietSpan == [][Depth > 0 /\ Depth' > 0 => open_hits' = open_hits]_vars

\* Nor does it take the cursor past one: what CursorOnHit rests on.
SpanPassesNoHit ==
  [][Depth > 0 /\ Depth' > 0 /\ ~spans.found => done' = done]_vars

\* A page that is begun is output.
OutputEnds == page = "output" ~> page # "output"

=============================================================================
