--------------------------- MODULE MCOutputEngine ---------------------------
(***************************************************************************)
(* A book of six elements for OutputEngine:                                *)
(*                                                                         *)
(*   0 -- 1 -- 2 (text)                                                    *)
(*   |    +--- 3 -- 4 (text)                                               *)
(*   +--- 5 (empty)                                                        *)
(***************************************************************************)
EXTENDS OutputEngine

MCEls == 0 .. 5
MCChild == (0 :> 1) @@ (1 :> 2) @@ (3 :> 4) @@ [e \in MCEls |-> 0]
MCRsib == (1 :> 5) @@ (2 :> 3) @@ [e \in MCEls |-> 0]
MCAncestor == (2 :> 1) @@ (3 :> 1) @@ (4 :> 3) @@ [e \in MCEls |-> 0]
MCKind == (2 :> "PCDATA") @@ (4 :> "PCDATA") @@ (5 :> "empty")
            @@ [e \in MCEls |-> "element"]
MCTextLen == (2 :> 4) @@ (4 :> 3) @@ [e \in MCEls |-> 0]

MCStyled == {0, 1, 3, 5}

TextHit(e, from, to) ==
  [start_el |-> e, start_off |-> from, end_el |-> e, end_off |-> to]
\* Hits at the beginning, in the middle and at the end of a text, two in one.
MCSearches == {<<TextHit(2, 0, 1), TextHit(2, 2, 4)>>,
               <<TextHit(2, 1, 2), TextHit(4, 1, 3)>>}
\* A hit that begins in one text and ends in the next.
HitAcross == {<<[start_el |-> 2, start_off |-> 2, end_el |-> 4, end_off |-> 1]>>}
AnyHit == {<<TextHit(2, 1, 3)>>} \cup HitAcross

Span(e, from, f, to) ==
  [start_el |-> e, start_off |-> from, end_el |-> f, end_off |-> to]
MCSpans == {Span(2, 1, 4, 2), Span(2, 1, 2, 3)}
=============================================================================
