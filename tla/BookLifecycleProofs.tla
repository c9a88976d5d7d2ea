------------------------ MODULE BookLifecycleProofs ------------------------
(***************************************************************************)
(* Proofs about BookLifecycle: that what a request opens is given back,    *)
(* and that output reaches the buffer of the call that asked for it.       *)
(***************************************************************************)
EXTENDS BookLifecycle, CollectionLemmas

Style == [name : Names, interp : Nat, spec : Buffers, rec : BOOLEAN]
Call == [style : Names, buffer : Buffers]

(***************************************************************************)
(* The inductive invariant for Released                                    *)
(***************************************************************************)
Types ==
  /\ phase \in {"start", "opened", "begin", "output", "end", "closed",
                "no_index", "dead_buffer", "overrun", "no_buffer"}
  /\ styles \in Seq(Style)
  /\ stack \in Seq(Call)
  /\ text \in [Live -> SUBSET Nat]
  /\ made \in Nat
  /\ lost \subseteq 1 .. made
  /\ indexed \in BOOLEAN

\* Before the page there is the book's interpreter or nothing.
Fresh ==
  /\ phase = "start" => made = 0 /\ interps = {}
  /\ phase = "opened" => made = 1 /\ interps = {1}
  /\ phase \in {"start", "opened"} => styles = <<>> /\ lost = {} /\ text = <<>>

\* The styles of the array: each name once, each with an interpreter made for it
\* after the book's, and none of those is lost.
StylesHeld ==
  /\ \A j, k \in DOMAIN styles : styles[j].name = styles[k].name => j = k
  /\ StylesClosed \subseteq 2 .. made
  /\ StylesClosed \cap lost = {}
  /\ 1 \in 1 .. made /\ 1 \notin lost
  /\ interps = {1} \cup StylesClosed \cup lost

\* The buffers in use are those of the calls that have not returned, a different
\* one for each.
BuffersHeld ==
  /\ stack # <<>>
  /\ Live = {stack[k].buffer : k \in DOMAIN stack}
  /\ \A j, k \in DOMAIN stack : stack[j].buffer = stack[k].buffer => j = k

IInv ==
  /\ Types
  /\ Fresh
  /\ Running => StylesHeld /\ BuffersHeld
  /\ phase = "closed" => interps = lost

(***************************************************************************)
(* What OwnBuffer needs besides, for an order R of the styles.             *)
(***************************************************************************)
\* A procedure is at work for the page, and each command that has not returned
\* formats with a style further along than all that it was called from.
Nesting(R) ==
  /\ stack[1].style = Page
  /\ \A j, k \in DOMAIN stack :
       j < k => <<stack[j].style, stack[k].style>> \in R

\* The style of each call writes to that call's buffer.
AtHome(k) == \E i \in DOMAIN styles :
  styles[i].name = stack[k].style /\ styles[i].spec = stack[k].buffer

\* The page's style, and no other, is the first and has the request's rec.
PageFirst ==
  /\ styles # <<>> /\ styles[1].name = Page
  /\ \A i \in DOMAIN styles : styles[i].rec <=> styles[i].name = Page

OwnHeld(R) ==
  /\ Nesting(R)
  /\ PageFirst
  /\ \A k \in DOMAIN stack : AtHome(k)
  /\ \A k \in DOMAIN stack : text[stack[k].buffer] \subseteq {k}

OwnInv(R) ==
  /\ IInv
  /\ phase # "dead_buffer"
  /\ sent \subseteq {1}
  /\ Running => OwnHeld(R)

(***************************************************************************)
(* The array of styles                                                     *)
(***************************************************************************)
\* A style with a new interpreter joins the array.
LEMMA StyleRecorded ==
  ASSUME styles \in Seq(Style), made \in Nat, StylesHeld, lost' = lost,
         NEW s \in Style, s.interp = made + 1,
         \A k \in DOMAIN styles : styles[k].name # s.name,
         styles' = Append(styles, s), made' = made + 1,
         interps' = interps \cup {made + 1}, lost \subseteq 1 .. made
  PROVE  /\ StylesHeld' /\ styles' \in Seq(Style) /\ Len(styles') = Len(styles) + 1
         /\ \A k \in DOMAIN styles : styles'[k] = styles[k]
         /\ styles'[Len(styles) + 1] = s
<1>1. PICK n \in Nat : n = Len(styles) /\ DOMAIN styles = 1 .. n
  OBVIOUS
<1>2. /\ styles' \in Seq(Style) /\ Len(styles') = n + 1
      /\ \A k \in 1 .. n : styles'[k] = styles[k]
      /\ styles'[n + 1] = s
  BY <1>1, AppendProperties
<1>3. DOMAIN styles' = 1 .. n + 1
  BY <1>2
<1>4. StylesClosed' = StylesClosed \cup {made + 1}
  <2>1. ASSUME NEW i \in StylesClosed'
        PROVE  i \in StylesClosed \cup {made + 1}
    <3>1. PICK k \in 1 .. n + 1 : i = styles'[k].interp
      BY <1>3 DEF StylesClosed
    <3>2. CASE k = n + 1
      BY <1>2, <3>1, <3>2
    <3>3. CASE k # n + 1
      BY <1>1, <1>2, <3>1, <3>3 DEF StylesClosed
    <3>4. QED  BY <3>2, <3>3
  <2>2. ASSUME NEW i \in StylesClosed
        PROVE  i \in StylesClosed'
    <3>1. PICK k \in 1 .. n : i = styles[k].interp
      BY <1>1 DEF StylesClosed
    <3>2. k \in 1 .. n + 1 /\ i = styles'[k].interp
      BY <1>2, <3>1
    <3>3. QED  BY <1>3, <3>2 DEF StylesClosed
  <2>3. made + 1 \in StylesClosed'
    <3>1. n + 1 \in DOMAIN styles' /\ styles'[n + 1].interp = made + 1
      BY <1>2, <1>3
    <3>2. QED  BY <3>1 DEF StylesClosed
  <2>4. QED  BY <2>1, <2>2, <2>3
<1>5. ASSUME NEW j \in 1 .. n + 1, NEW k \in 1 .. n + 1,
             styles'[j].name = styles'[k].name
      PROVE  j = k
  <2>1. CASE j \in 1 .. n /\ k \in 1 .. n
    BY <1>1, <1>2, <1>5, <2>1 DEF StylesHeld
  <2>2. CASE j = n + 1 \/ k = n + 1
    BY <1>1, <1>2, <1>5, <2>2
  <2>3. QED  BY <2>1, <2>2
<1>6. /\ StylesClosed' \subseteq 2 .. made' /\ StylesClosed' \cap lost' = {}
      /\ 1 \in 1 .. made' /\ 1 \notin lost'
  <2>1. made >= 1 /\ StylesClosed \subseteq 2 .. made
    BY DEF StylesHeld
  <2>2. made + 1 \in 2 .. made + 1 /\ made + 1 \notin lost
    BY <2>1
  <2>3. \A i \in 2 .. made : i \in 2 .. made + 1
    OBVIOUS
  <2>4. QED  BY <1>4, <2>1, <2>2, <2>3 DEF StylesHeld
<1>7. interps' = {1} \cup StylesClosed' \cup lost'
  BY <1>4 DEF StylesHeld
<1>8. StylesHeld'
  BY <1>3, <1>5, <1>6, <1>7 DEF StylesHeld
<1>9. QED  BY <1>1, <1>2, <1>8

\* A style of the array is turned to another buffer.
LEMMA StyleTurned ==
  ASSUME styles \in Seq(Style), StylesHeld, NEW name, NEW b \in Buffers,
         styles' = FoundAgain(name, b), UNCHANGED <<interps, made, lost>>
  PROVE  /\ StylesHeld' /\ styles' \in Seq(Style) /\ Len(styles') = Len(styles)
         /\ DOMAIN styles' = DOMAIN styles
         /\ \A k \in DOMAIN styles :
              /\ styles'[k].name = styles[k].name
              /\ styles'[k].interp = styles[k].interp
              /\ styles'[k].rec = styles[k].rec
              /\ styles'[k].spec = IF styles[k].name = name THEN b ELSE styles[k].spec
<1>1. PICK n \in Nat : n = Len(styles) /\ DOMAIN styles = 1 .. n
  OBVIOUS
<1>2. styles' = [k \in 1 .. n |-> IF styles[k].name = name
                                  THEN [styles[k] EXCEPT !.spec = b] ELSE styles[k]]
  BY <1>1 DEF FoundAgain, Positions
<1>3. \A k \in 1 .. n :
        /\ styles'[k] \in Style
        /\ styles'[k].name = styles[k].name
        /\ styles'[k].interp = styles[k].interp
        /\ styles'[k].rec = styles[k].rec
        /\ styles'[k].spec = IF styles[k].name = name THEN b ELSE styles[k].spec
  <2>1. ASSUME NEW k \in 1 .. n
        PROVE  /\ styles'[k] \in Style
               /\ styles'[k].name = styles[k].name
               /\ styles'[k].interp = styles[k].interp
               /\ styles'[k].rec = styles[k].rec
               /\ styles'[k].spec = IF styles[k].name = name THEN b ELSE styles[k].spec
    <3>1. styles[k] \in Style
      BY <1>1
    <3>2. CASE styles[k].name = name
      <4>1. styles'[k] = [styles[k] EXCEPT !.spec = b]
        BY <1>2, <3>2
      <4>2. QED  BY <3>1, <3>2, <4>1 DEF Style
    <3>3. CASE styles[k].name # name
      <4>1. styles'[k] = styles[k]
        BY <1>2, <3>3
      <4>2. QED  BY <3>1, <3>3, <4>1
    <3>4. QED  BY <3>2, <3>3
  <2>2. QED  BY <2>1
<1>4. styles' \in Seq(Style) /\ Len(styles') = n /\ DOMAIN styles' = 1 .. n
  <2>1. styles' = [k \in 1 .. n |-> styles'[k]]
    BY <1>2
  <2>2. styles' \in [1 .. n -> Style]
    BY <1>3, <2>1
  <2>3. QED  BY <2>2
<1>5. StylesClosed' = StylesClosed
  BY <1>1, <1>3, <1>4 DEF StylesClosed
<1>6. StylesHeld'
  BY <1>1, <1>3, <1>4, <1>5 DEF StylesHeld
<1>7. QED  BY <1>1, <1>3, <1>4, <1>6

(***************************************************************************)
(* The invariant through each step                                         *)
(***************************************************************************)
\* Nothing that StylesHeld speaks of has changed.
LEMMA StylesSame ==
  ASSUME StylesHeld, UNCHANGED <<styles, interps, made, lost>>
  PROVE  StylesHeld'
BY DEF StylesHeld, StylesClosed

\* No buffer has come or gone.
LEMMA BuffersSame ==
  ASSUME BuffersHeld, UNCHANGED stack, DOMAIN text' = DOMAIN text
  PROVE  BuffersHeld'
BY DEF BuffersHeld, Live

\* There is nothing in an empty array of buffers.
LEMMA NoText == DOMAIN (<<>>) = {} /\ <<>> \in [DOMAIN (<<>>) -> SUBSET Nat]
OBVIOUS

\* Closing leaves the interpreters that are lost, of those that it finds.
LEMMA Closing ==
  ASSUME NEW all, Close(all), all = {1} \cup StylesClosed \cup lost',
         StylesClosed \cap lost' = {}, 1 \notin lost',
         made' \in Nat, lost' \subseteq 1 .. made', indexed \in BOOLEAN,
         indexed' = indexed
  PROVE  IInv' /\ phase' \in {"closed", "no_index"}
<1>1. phase' \in {"closed", "no_index"} /\ ~Running'
  BY DEF Close, Running
<1>2. Types'
  BY <1>1, NoText DEF Close, Types, Live
<1>3. phase' = "closed" => interps' = lost'
  BY DEF Close
<1>4. QED  BY <1>1, <1>2, <1>3 DEF IInv, Fresh

\* A step within the page that leaves the styles and the calls alone.
LEMMA PageStep ==
  ASSUME IInv, Running, UNCHANGED <<styles, interps, made, lost, stack, indexed>>,
         text' \in [Live -> SUBSET Nat],
         phase' \in {"begin", "output", "end", "dead_buffer", "overrun", "no_buffer"}
  PROVE  IInv'
<1>1. DOMAIN text' = Live
  OBVIOUS
<1>2. Types'
  BY <1>1 DEF IInv, Types, Live
<1>3. StylesHeld' /\ BuffersHeld'
  BY <1>1, StylesSame, BuffersSame DEF IInv, Live
<1>4. QED  BY <1>2, <1>3 DEF IInv, Fresh

\* An opened book: one interpreter, no style.
LEMMA OpenedIs ==
  ASSUME IInv, phase = "opened"
  PROVE  made = 1 /\ interps = {1} /\ styles = <<>> /\ lost = {} /\ StylesClosed = {}
BY NoText DEF IInv, Fresh, StylesClosed

\* The request's style has a name.
LEMMA PageName == Page \in Names /\ {f[2] : f \in Formats} \subseteq Names
BY DEF Names

\* The page's call and its style, as they are made.
LEMMA PageMade ==
  ASSUME NEW b \in Buffers, made \in Nat
  PROVE  /\ \E c \in Call : /\ c = [style |-> Page, buffer |-> b]
                            /\ c.style = Page /\ c.buffer = b
         /\ \E s \in Style : /\ s = [NewStyle(Page, b) EXCEPT !.rec = TRUE]
                             /\ s.name = Page /\ s.interp = made + 1
                             /\ s.spec = b /\ s.rec
<1>1. [style |-> Page, buffer |-> b] \in [style : Names, buffer : Buffers]
  BY PageName
<1>2. made + 1 \in Nat /\ FALSE \in BOOLEAN
  OBVIOUS
<1>3. [name |-> Page, interp |-> made + 1, spec |-> b, rec |-> FALSE]
        \in [name : Names, interp : Nat, spec : Buffers, rec : BOOLEAN]
  BY <1>2, PageName
<1>4. PICK r \in Style : /\ r = NewStyle(Page, b)
                         /\ r.name = Page /\ r.interp = made + 1 /\ r.spec = b
  BY <1>3 DEF NewStyle, Style
<1>5. /\ [r EXCEPT !.rec = TRUE] \in Style
      /\ [r EXCEPT !.rec = TRUE].name = r.name
      /\ [r EXCEPT !.rec = TRUE].interp = r.interp
      /\ [r EXCEPT !.rec = TRUE].spec = r.spec
      /\ [r EXCEPT !.rec = TRUE].rec
  BY <1>4 DEF Style
<1>6. QED  BY <1>1, <1>4, <1>5 DEF Call

\* What is left alone when a buffer is given out, and what is in it.
LEMMA BufferGiven ==
  ASSUME text \in [Live -> SUBSET Nat], NEW b, text' = init_output_buffer(b)
  PROVE  /\ Live' = Live \cup {b} /\ text' \in [Live' -> SUBSET Nat]
         /\ text'[b] = {}
         /\ \A c \in Live \ {b} : text'[c] = text[c]
<1>1. text' = [c \in Live \cup {b} |-> IF c = b THEN {} ELSE text[c]]
  BY DEF init_output_buffer
<1>2. Live' = Live \cup {b} /\ DOMAIN text' = Live \cup {b}
  BY <1>1 DEF Live
<1>3. \A c \in Live \cup {b} : (IF c = b THEN {} ELSE text[c]) \in SUBSET Nat
  OBVIOUS
<1>4. text' \in [Live \cup {b} -> SUBSET Nat]
  BY <1>1, <1>3
<1>5. QED  BY <1>1, <1>2, <1>4

\* The page starts with one style and one call.
LEMMA StartPageStep == ASSUME IInv, StartPage PROVE IInv'
<1>1. PICK b \in Buffers :
        /\ text' = init_output_buffer(b)
        /\ stack' = <<[style |-> Page, buffer |-> b]>>
        /\ styles' = Append(styles, [NewStyle(Page, b) EXCEPT !.rec = TRUE])
  BY DEF StartPage, Recorded
<1>2. /\ phase = "opened" /\ phase' = "begin" /\ made' = made + 1
      /\ interps' = interps \cup {made + 1} /\ lost' = lost /\ indexed' = indexed
  BY DEF StartPage
<1>3. /\ made = 1 /\ interps = {1} /\ styles = <<>> /\ lost = {} /\ StylesClosed = {}
      /\ text = <<>>
  BY <1>2, OpenedIs DEF IInv, Fresh
<1>4. StylesHeld
  BY <1>3, NoText DEF StylesHeld
<1>5. PICK s \in Style : /\ s = [NewStyle(Page, b) EXCEPT !.rec = TRUE]
                         /\ s.interp = made + 1
  BY <1>3, PageMade
<1>6. StylesHeld' /\ styles' \in Seq(Style)
  <2>1. styles \in Seq(Style) /\ \A k \in DOMAIN styles : styles[k].name # s.name
    BY <1>3, NoText
  <2>2. made \in Nat /\ lost \subseteq 1 .. made
    BY <1>3
  <2>3. QED  BY <1>1, <1>2, <1>4, <1>5, <2>1, <2>2, StyleRecorded
<1>7. Running' /\ phase' # "closed" /\ phase' \notin {"start", "opened"}
  BY <1>2 DEF Running
<1>8. PICK c \in Call : c = [style |-> Page, buffer |-> b] /\ c.buffer = b
  BY <1>3, PageMade
<1>9. /\ stack' \in Seq(Call) /\ DOMAIN stack' = {1} /\ stack'[1].buffer = b
      /\ stack' # <<>>
  BY <1>1, <1>8
<1>10. Live' = {b} /\ text' \in [Live' -> SUBSET Nat]
  <2>1. Live = {} /\ text \in [Live -> SUBSET Nat]
    BY <1>3, NoText DEF Live
  <2>2. QED  BY <1>1, <2>1, BufferGiven
<1>11. BuffersHeld'
  BY <1>9, <1>10 DEF BuffersHeld
<1>12. Types'
  BY <1>2, <1>3, <1>6, <1>7, <1>9, <1>10 DEF Types, IInv
<1>13. QED  BY <1>6, <1>7, <1>11, <1>12 DEF IInv, Fresh

\* Opening makes the book's interpreter.
LEMMA OpenStep == ASSUME IInv, create_process_book \/ NotOpened PROVE IInv'
<1>1. phase = "start" /\ made = 0 /\ interps = {} /\ styles = <<>> /\ lost = {}
      /\ text = <<>>
  BY DEF create_process_book, NotOpened, IInv, Fresh
<1>2. CASE create_process_book
  <2>1. ~Running' /\ phase' = "opened" /\ indexed' \in BOOLEAN
    BY <1>2 DEF create_process_book, Running
  <2>2. Types'
    BY <1>1, <1>2, <2>1 DEF create_process_book, IInv, Types, Live
  <2>3. QED  BY <1>1, <1>2, <2>1, <2>2 DEF create_process_book, IInv, Fresh
<1>3. CASE NotOpened
  <2>1. ~Running' /\ phase' = "closed" /\ interps' = lost'
    BY <1>3 DEF NotOpened, Running
  <2>2. Types'
    BY <1>1, <1>3, <2>1 DEF NotOpened, IInv, Types, Live
  <2>3. QED  BY <2>1, <2>2 DEF IInv, Fresh
<1>4. QED  BY <1>2, <1>3

\* The page does not start, or ends: the book is closed.
LEMMA CloseStep ==
  ASSUME IInv, NoPage \/ PageStyleFails \/ EndPage
  PROVE  IInv' /\ phase' \in {"closed", "no_index"}
<1>1. indexed \in BOOLEAN /\ made \in Nat /\ lost \subseteq 1 .. made
  BY DEF IInv, Types
<1>2. CASE NoPage
  <2>1. Close(interps) /\ UNCHANGED <<made, lost>>
    BY <1>2 DEF NoPage
  <2>2. QED  BY <1>1, <1>2, <2>1, OpenedIs, Closing DEF NoPage
<1>3. CASE PageStyleFails
  <2>1. /\ made = 1 /\ interps = {1} /\ lost = {} /\ StylesClosed = {}
        /\ indexed' = indexed
    BY <1>3, OpenedIs DEF PageStyleFails
  <2>2. CASE Close(interps) /\ UNCHANGED <<made, lost>>
    BY <1>1, <2>1, <2>2, Closing
  <2>3. CASE /\ Close(interps \cup {made + 1})
             /\ made' = made + 1 /\ lost' = lost \cup {made + 1}
    <3>1. made' = 2 /\ lost' = {2} /\ interps \cup {made + 1} = {1} \cup {2}
      BY <2>1, <2>3
    <3>2. 1 \notin lost' /\ made' \in Nat /\ lost' \subseteq 1 .. made'
      BY <3>1
    <3>3. QED  BY <1>1, <2>1, <2>3, <3>1, <3>2, Closing
  <2>4. QED  BY <1>3, <2>2, <2>3 DEF PageStyleFails
<1>4. CASE EndPage
  <2>1. Close(interps) /\ UNCHANGED <<made, lost, indexed>> /\ StylesHeld
    BY <1>4 DEF EndPage, IInv, Running
  <2>2. QED  BY <1>1, <2>1, Closing DEF StylesHeld
<1>5. QED  BY <1>2, <1>3, <1>4

\* The procedures go on, and write.
LEMMA WriteStep ==
  ASSUME IInv, BeginDone \/ OutputDone \/ write_output \/ TooManyStyles \/ BufferRefused
  PROVE  IInv'
<1>1. text \in [Live -> SUBSET Nat] /\ stack \in Seq(Call)
  BY DEF IInv, Types
<1>2. CASE BeginDone
  <2>1. text' \in [Live -> SUBSET Nat]
    BY <1>1, <1>2 DEF BeginDone
  <2>2. QED  BY <1>2, <2>1, PageStep DEF BeginDone, Running
<1>3. CASE OutputDone
  BY <1>1, <1>3, PageStep DEF OutputDone, Running
<1>4. CASE write_output
  <2>1. text' \in [Live -> SUBSET Nat]
    BY <1>1, <1>4 DEF write_output
  <2>2. QED  BY <1>4, <2>1, PageStep DEF write_output, Running
<1>5. CASE TooManyStyles
  BY <1>1, <1>5, PageStep DEF TooManyStyles, Running
<1>6. CASE BufferRefused
  BY <1>1, <1>6, PageStep DEF BufferRefused, Running
<1>7. QED  BY <1>2, <1>3, <1>4, <1>5, <1>6

\* A style's interpreter and pool are made and its style_obj is refused.
LEMMA FormatFailsStep == ASSUME IInv, FormatFails PROVE IInv'
<1>1. /\ Running /\ UNCHANGED <<phase, styles, indexed, text, stack>>
      /\ StylesHeld /\ BuffersHeld /\ Types
  BY DEF FormatFails, IInv
<1>2. BuffersHeld' /\ StylesClosed' = StylesClosed
  BY <1>1, BuffersSame DEF StylesClosed
<1>3. CASE UNCHANGED <<interps, made, lost>>
  <2>1. Types' /\ StylesHeld'
    BY <1>1, <1>3, StylesSame DEF Types, Live
  <2>2. QED  BY <1>1, <1>2, <2>1 DEF IInv, Fresh, Running
<1>4. CASE /\ made' = made + 1 /\ interps' = interps \cup {made + 1}
           /\ lost' = lost \cup {made + 1}
  <2>1. made \in Nat /\ made >= 1 /\ lost \subseteq 1 .. made /\ made + 1 \notin StylesClosed
    BY <1>1 DEF Types, StylesHeld
  <2>2. 1 .. made \subseteq 1 .. made' /\ 2 .. made \subseteq 2 .. made'
    BY <1>4, <2>1
  <2>3. lost' \subseteq 1 .. made' /\ 1 \notin lost'
    BY <1>1, <1>4, <2>1, <2>2 DEF StylesHeld
  <2>4. StylesHeld'
    BY <1>1, <1>2, <1>4, <2>1, <2>2, <2>3 DEF StylesHeld
  <2>5. made' \in Nat
    BY <1>4, <2>1
  <2>6. Types'
    BY <1>1, <2>3, <2>5 DEF Types, Live
  <2>7. QED  BY <1>1, <1>2, <2>4, <2>6 DEF IInv, Fresh, Running
<1>5. QED  BY <1>3, <1>4 DEF FormatFails, NoFile, StyleRefused

\* A command formats with a style that it finds or makes.
LEMMA FormatStep == ASSUME IInv, Format PROVE IInv'
<1>1. PICK name \in Wanted, b \in Buffers \ Live :
        /\ text' = init_output_buffer(b)
        /\ stack' = Append(stack, [style |-> name, buffer |-> b])
        /\ MakeStyle(name, b)
  BY DEF Format
<1>2. /\ Running /\ UNCHANGED <<phase, indexed>> /\ Types /\ StylesHeld /\ BuffersHeld
      /\ lost' = lost
  BY <1>1 DEF Format, IInv, MakeStyle
<1>3. name \in Names
  BY PageName DEF Wanted
<1>4. /\ Live' = Live \cup {b} /\ text' \in [Live' -> SUBSET Nat]
  BY <1>1, <1>2, BufferGiven DEF Types
<1>5. PICK c \in Call : /\ c = [style |-> name, buffer |-> b]
                        /\ c.style = name /\ c.buffer = b
  <2>1. [style |-> name, buffer |-> b] \in [style : Names, buffer : Buffers]
    BY <1>3
  <2>2. QED  BY <2>1 DEF Call
<1>6. PICK m \in Nat : m = Len(stack) /\ DOMAIN stack = 1 .. m
  BY <1>2 DEF Types
<1>7. /\ stack' \in Seq(Call) /\ DOMAIN stack' = 1 .. m + 1 /\ Len(stack') = m + 1
      /\ \A k \in 1 .. m : stack'[k] = stack[k]
      /\ stack'[m + 1].buffer = b
  BY <1>1, <1>2, <1>5, <1>6, AppendProperties DEF Types
<1>8. BuffersHeld'
  <2>1. stack' # <<>>
    BY <1>6, <1>7
  <2>2. {stack'[k].buffer : k \in DOMAIN stack'} =
          {stack[k].buffer : k \in DOMAIN stack} \cup {b}
    <3>1. 1 .. m + 1 = (1 .. m) \cup {m + 1}
      BY <1>6
    <3>2. QED  BY <1>6, <1>7, <3>1
  <2>3. ASSUME NEW j \in 1 .. m + 1, NEW k \in 1 .. m + 1,
               stack'[j].buffer = stack'[k].buffer
        PROVE  j = k
    <3>1. \A i \in 1 .. m : stack'[i].buffer = stack[i].buffer /\ stack[i].buffer # b
      BY <1>1, <1>2, <1>6, <1>7 DEF BuffersHeld
    <3>2. CASE j \in 1 .. m /\ k \in 1 .. m
      BY <1>2, <1>6, <2>3, <3>1, <3>2 DEF BuffersHeld
    <3>3. CASE j = m + 1 \/ k = m + 1
      BY <1>6, <1>7, <2>3, <3>1, <3>3
    <3>4. QED  BY <3>2, <3>3
  <2>4. QED  BY <1>2, <1>4, <1>7, <2>1, <2>2, <2>3 DEF BuffersHeld
<1>9. StylesHeld' /\ styles' \in Seq(Style) /\ made' \in Nat /\ lost' \subseteq 1 .. made'
  <2>1. styles \in Seq(Style) /\ made \in Nat /\ lost \subseteq 1 .. made
    BY <1>2 DEF Types
  <2>2. CASE Known(name)
    BY <1>1, <1>2, <2>1, <2>2, StyleTurned DEF MakeStyle
  <2>3. CASE ~Known(name)
    <3>1. PICK s \in Style : s = NewStyle(name, b) /\ s.name = name /\ s.interp = made + 1
      <4>1. [name |-> name, interp |-> made + 1, spec |-> b, rec |-> FALSE]
              \in [name : Names, interp : Nat, spec : Buffers, rec : BOOLEAN]
        BY <1>3, <2>1
      <4>2. QED  BY <4>1 DEF NewStyle, Style
    <3>2. \A k \in DOMAIN styles : styles[k].name # s.name
      BY <2>3, <3>1 DEF Known, Positions
    <3>3. /\ styles' = Append(styles, s) /\ made' = made + 1
          /\ interps' = interps \cup {made + 1}
      BY <1>1, <2>3, <3>1 DEF MakeStyle, Recorded
    <3>4. 1 .. made \subseteq 1 .. made + 1
      BY <2>1
    <3>5. QED  BY <1>2, <2>1, <3>1, <3>2, <3>3, <3>4, StyleRecorded
  <2>4. QED  BY <2>2, <2>3
<1>10. Types'
  BY <1>2, <1>4, <1>7, <1>9 DEF Types
<1>11. QED  BY <1>2, <1>8, <1>9, <1>10 DEF IInv, Fresh, Running

\* A command returns: its buffer is disposed of.
LEMMA BufferDisposed ==
  ASSUME text \in [Live -> SUBSET Nat], NEW b, text' = delete_output_buffer(b)
  PROVE  /\ Live' = Live \ {b} /\ text' \in [Live' -> SUBSET Nat]
         /\ \A c \in Live' : text'[c] = text[c]
<1>1. text' = [c \in Live \ {b} |-> text[c]]
  BY DEF delete_output_buffer
<1>2. Live' = Live \ {b}
  BY <1>1 DEF Live
<1>3. QED  BY <1>1, <1>2

\* The calls that are left when one has returned.
LEMMA CallReturned ==
  ASSUME stack \in Seq(Call), Len(stack) > 1, stack' = Front(stack)
  PROVE  \E m \in Nat : /\ m >= 1 /\ Len(stack) = m + 1 /\ DOMAIN stack = 1 .. m + 1
                        /\ Top = stack[m + 1]
                        /\ stack' \in Seq(Call) /\ Len(stack') = m
                        /\ DOMAIN stack' = 1 .. m
                        /\ \A k \in 1 .. m : stack'[k] = stack[k]
<1>1. PICK n \in Nat : n = Len(stack) /\ DOMAIN stack = 1 .. n
  OBVIOUS
<1>2. PICK m \in Nat : n = m + 1 /\ m >= 1
  <2>1. n - 1 \in Nat /\ n = (n - 1) + 1 /\ n - 1 >= 1
    BY <1>1
  <2>2. QED  BY <2>1
<1>3. stack' = [k \in 1 .. m |-> stack[k]]
  <2>1. stack' = SubSeq(stack, 1, m)
    BY <1>1, <1>2 DEF Front
  <2>2. QED  BY <1>1, <1>2, <2>1
<1>4. stack' \in [1 .. m -> Call]
  <2>1. \A k \in 1 .. m : stack[k] \in Call
    BY <1>1, <1>2
  <2>2. QED  BY <1>3, <2>1
<1>5. stack' \in Seq(Call) /\ Len(stack') = m /\ DOMAIN stack' = 1 .. m
  BY <1>4
<1>6. Top = stack[m + 1]
  BY <1>1, <1>2 DEF Top, Last
<1>7. QED  BY <1>1, <1>2, <1>3, <1>5, <1>6

\* A command that has formatted returns.
LEMMA FormatDoneStep == ASSUME IInv, FormatDone PROVE IInv'
<1>1. /\ Running /\ UNCHANGED <<phase, styles, interps, made, indexed, lost>>
      /\ Types /\ StylesHeld /\ BuffersHeld
      /\ text' = delete_output_buffer(Top.buffer)
  BY DEF FormatDone, IInv
<1>2. PICK m \in Nat :
        /\ m >= 1 /\ Len(stack) = m + 1 /\ DOMAIN stack = 1 .. m + 1
        /\ Top = stack[m + 1]
        /\ stack' \in Seq(Call) /\ Len(stack') = m /\ DOMAIN stack' = 1 .. m
        /\ \A k \in 1 .. m : stack'[k] = stack[k]
  BY <1>1, CallReturned DEF FormatDone, Types
<1>3. PICK b : b = stack[m + 1].buffer
  OBVIOUS
<1>4. Live' = Live \ {b} /\ text' \in [Live' -> SUBSET Nat]
  BY <1>1, <1>2, <1>3, BufferDisposed DEF Types
<1>5. \A k \in 1 .. m : k \in 1 .. m + 1 /\ k # m + 1
  BY <1>2
<1>6. BuffersHeld'
  <2>1. \A k \in 1 .. m : stack[k].buffer # b
    BY <1>1, <1>2, <1>3, <1>5 DEF BuffersHeld
  <2>2. 1 .. m + 1 = (1 .. m) \cup {m + 1}
    BY <1>2
  <2>3. Live = {stack[k].buffer : k \in 1 .. m} \cup {b}
    BY <1>1, <1>2, <1>3, <2>2 DEF BuffersHeld
  <2>4. Live' = {stack[k].buffer : k \in 1 .. m}
    BY <1>4, <2>1, <2>3
  <2>5. Live' = {stack'[k].buffer : k \in DOMAIN stack'}
    BY <1>2, <2>4
  <2>6. \A j, k \in DOMAIN stack' : stack'[j].buffer = stack'[k].buffer => j = k
    BY <1>1, <1>2, <1>5 DEF BuffersHeld
  <2>7. stack' # <<>>
    BY <1>2
  <2>8. QED  BY <2>5, <2>6, <2>7 DEF BuffersHeld
<1>7. StylesHeld'
  BY <1>1, StylesSame
<1>8. Types'
  BY <1>1, <1>2, <1>4 DEF Types
<1>9. QED  BY <1>1, <1>6, <1>7, <1>8 DEF IInv, Fresh, Running

\* Nothing happens.
LEMMA StutterStep == ASSUME IInv, UNCHANGED vars PROVE IInv'
BY DEF IInv, Types, Fresh, Running, StylesHeld, BuffersHeld, StylesClosed, Live, vars

\* Every step keeps the invariant.
LEMMA NextIInv == ASSUME IInv, [Next]_vars PROVE IInv'
BY OpenStep, CloseStep, StartPageStep, WriteStep, FormatStep, FormatFailsStep,
   FormatDoneStep, StutterStep
   DEF Next, make_reader_file, Commands

\* There is nothing to give back at first.
LEMMA InitIInv == Init => IInv
<1>1. SUFFICES ASSUME Init PROVE IInv
  OBVIOUS
<1>2. ~Running /\ phase = "start"
  BY <1>1 DEF Init, Running
<1>3. Types
  <2>1. styles \in Seq(Style) /\ stack \in Seq(Call) /\ lost \subseteq 1 .. made
    BY <1>1 DEF Init
  <2>2. text \in [Live -> SUBSET Nat]
    BY <1>1, NoText DEF Init, Live
  <2>3. made \in Nat /\ indexed \in BOOLEAN
    BY <1>1 DEF Init
  <2>4. QED  BY <1>2, <2>1, <2>2, <2>3 DEF Types
<1>4. QED  BY <1>1, <1>2, <1>3 DEF IInv, Fresh, Init

(***************************************************************************)
(* Theorems                                                                *)
(***************************************************************************)
\* What the array of styles and the stack of calls hold, at every step.
THEOREM Invariance == Spec => []IInv
<1>1. IInv /\ [Next]_vars => IInv'
  BY NextIInv
<1>2. QED  BY InitIInv, <1>1, PTL DEF Spec

\* What a request opens is given back: while a page is made, the interpreters
\* are those of the book and of the styles in the array, one for each name, and
\* the ones lost when a style_obj or a book was refused; the buffers are those
\* of the calls; and close_ana_book leaves none but the lost ones.
THEOREM EverythingReleased == Spec => []Released
<1>1. IInv => Released
  BY DEF IInv, Released, StylesHeld, BuffersHeld, StylesClosed
<1>2. QED  BY Invariance, <1>1, PTL

(***************************************************************************)
(* Output reaches the buffer of its call                                   *)
(***************************************************************************)
\* The stack is a list, its last call is Top and uses a buffer in use.
LEMMA TopOf ==
  ASSUME IInv, Running
  PROVE  \E n \in Nat : /\ n >= 1 /\ n = Len(stack) /\ DOMAIN stack = 1 .. n
                        /\ Top = stack[n] /\ Top \in Call
                        /\ Top.buffer \in Live
<1>1. stack \in Seq(Call) /\ stack # <<>> /\ BuffersHeld
  BY DEF IInv, Types, BuffersHeld
<1>2. PICK n \in Nat : n = Len(stack) /\ DOMAIN stack = 1 .. n
  BY <1>1
<1>3. n >= 1
  BY <1>1, <1>2
<1>4. Top = stack[n] /\ Top \in Call
  BY <1>1, <1>2, <1>3 DEF Top, Last
<1>5. Top.buffer \in Live
  BY <1>1, <1>2, <1>3, <1>4 DEF BuffersHeld
<1>6. QED  BY <1>2, <1>3, <1>4, <1>5

\* The style that writes writes to the buffer of its call, and has the request's
\* rec exactly when it is the page's.
LEMMA WritesHome ==
  ASSUME NEW R, IsOrder(R), IInv, Running, OwnHeld(R)
  PROVE  /\ StyleOf(Top).spec = Top.buffer
         /\ StyleOf(Top).rec <=> Len(stack) = 1
<1>1. PICK n \in Nat : /\ n >= 1 /\ n = Len(stack) /\ DOMAIN stack = 1 .. n
                       /\ Top = stack[n] /\ Top \in Call
  BY TopOf
<1>2. PICK i \in DOMAIN styles :
        styles[i].name = Top.style /\ styles[i].spec = Top.buffer
  BY <1>1 DEF OwnHeld, AtHome
<1>3. \A k \in DOMAIN styles : styles[k].name = Top.style <=> k = i
  BY <1>2 DEF IInv, StylesHeld
<1>4. (CHOOSE k \in DOMAIN styles : styles[k].name = Top.style) = i
  BY <1>2, <1>3
<1>5. StyleOf(Top) = styles[i]
  BY <1>4 DEF StyleOf
<1>6. styles[i].rec <=> Top.style = Page
  BY <1>2 DEF OwnHeld, PageFirst
<1>7. Top.style = Page <=> n = 1
  <2>1. CASE n = 1
    BY <1>1, <2>1 DEF OwnHeld, Nesting
  <2>2. CASE n # 1
    <3>1. 1 \in 1 .. n /\ n \in 1 .. n /\ 1 < n
      BY <1>1, <2>2
    <3>2. <<Page, Top.style>> \in R
      BY <1>1, <3>1 DEF OwnHeld, Nesting
    <3>3. QED  BY <2>2, <3>2, PageName DEF IsOrder
  <2>3. QED  BY <2>1, <2>2
<1>8. QED  BY <1>1, <1>2, <1>5, <1>6, <1>7

\* A procedure writes.
LEMMA WriteOwn ==
  ASSUME NEW R, IsOrder(R), OwnInv(R), write_output
  PROVE  phase' # "dead_buffer" /\ sent' \subseteq {1} /\ OwnHeld(R)'
<1>1. /\ Running /\ IInv /\ OwnHeld(R) /\ sent \subseteq {1} /\ phase # "dead_buffer"
      /\ UNCHANGED <<styles, stack>>
  BY DEF write_output, OwnInv
<1>2. PICK n \in Nat : /\ n >= 1 /\ n = Len(stack) /\ DOMAIN stack = 1 .. n
                       /\ Top = stack[n] /\ Top \in Call /\ Top.buffer \in Live
  BY <1>1, TopOf
<1>3. PICK b : b = Top.buffer /\ b = StyleOf(Top).spec
  BY <1>1, WritesHome
<1>4. /\ UNCHANGED phase
      /\ \/ n = 1 /\ sent' = sent \cup {n} /\ UNCHANGED text
         \/ UNCHANGED sent /\ text' = [text EXCEPT ![b] = @ \cup {n}]
  BY <1>1, <1>2, <1>3, WritesHome DEF write_output
<1>5. \A k \in DOMAIN stack : text'[stack[k].buffer] \subseteq {k}
  <2>1. CASE UNCHANGED text
    BY <1>1, <2>1 DEF OwnHeld
  <2>2. CASE text' = [text EXCEPT ![b] = @ \cup {n}]
    <3>1. ASSUME NEW k \in DOMAIN stack
          PROVE  text'[stack[k].buffer] \subseteq {k}
      <4>1. text[stack[k].buffer] \subseteq {k} /\ text[stack[n].buffer] \subseteq {n}
        BY <1>1, <1>2, SMTT(20) DEF OwnHeld
      <4>2. stack[k].buffer = b => k = n
        <5>1. n \in DOMAIN stack /\ stack[n].buffer = b
          BY <1>2, <1>3
        <5>2. \A i, j \in DOMAIN stack : stack[i].buffer = stack[j].buffer => i = j
          BY <1>1 DEF IInv, BuffersHeld
        <5>3. QED  BY <5>1, <5>2
      <4>3. b \in DOMAIN text
        BY <1>2, <1>3 DEF Live
      <4>4. CASE stack[k].buffer = b
        <5>1. text'[b] = text[b] \cup {n}
          BY <2>2, <4>3
        <5>2. QED  BY <1>2, <1>3, <4>1, <4>2, <4>4, <5>1
      <4>5. CASE stack[k].buffer # b
        <5>1. stack[k].buffer \in DOMAIN text
          BY <1>1, <1>2 DEF IInv, BuffersHeld, Live
        <5>2. QED  BY <2>2, <4>1, <4>5, <5>1
      <4>6. QED  BY <4>4, <4>5
    <3>2. QED  BY <3>1
  <2>3. QED  BY <1>4, <2>1, <2>2
<1>6. OwnHeld(R)'
  BY <1>1, <1>5 DEF OwnHeld, Nesting, PageFirst, AtHome
<1>7. QED  BY <1>1, <1>4, <1>6

\* What the page's begin procedure has written is sent.
LEMMA BeginOwn ==
  ASSUME NEW R, IsOrder(R), OwnInv(R), BeginDone
  PROVE  phase' # "dead_buffer" /\ sent' \subseteq {1} /\ OwnHeld(R)'
<1>1. /\ Running /\ IInv /\ OwnHeld(R) /\ sent \subseteq {1}
      /\ UNCHANGED <<styles, stack>> /\ Len(stack) = 1
  BY DEF BeginDone, OwnInv, Running, OnlyPage
<1>2. DOMAIN stack = {1} /\ Top = stack[1] /\ Top.buffer \in Live
  BY <1>1, TopOf
<1>3. styles[1].spec = Top.buffer
  <2>1. PICK i \in DOMAIN styles : /\ styles[i].name = stack[1].style
                                   /\ styles[i].spec = stack[1].buffer
    BY <1>1, <1>2 DEF OwnHeld, AtHome
  <2>2. 1 \in DOMAIN styles /\ styles[1].name = Page
    BY <1>1 DEF OwnHeld, PageFirst, IInv, Types
  <2>3. i = 1
    BY <1>1, <2>1, <2>2 DEF OwnHeld, Nesting, IInv, StylesHeld
  <2>4. QED  BY <1>2, <2>1, <2>3
<1>4. PICK b \in DOMAIN text : b = stack[1].buffer
  BY <1>2 DEF Live
<1>5. /\ phase' \in {"output", "end"}
      /\ sent' = sent \cup text[b]
      /\ text' = [text EXCEPT ![b] = {}]
  BY <1>2, <1>3, <1>4 DEF BeginDone, Live
<1>6. text[b] \subseteq {1}
  BY <1>1, <1>2, <1>4 DEF OwnHeld
<1>7. text'[b] = {}
  BY <1>4, <1>5
<1>8. OwnHeld(R)'
  BY <1>1, <1>2, <1>4, <1>7 DEF OwnHeld, Nesting, PageFirst, AtHome
<1>9. QED  BY <1>1, <1>5, <1>6, <1>8

\* The page starts.
LEMMA StartOwn ==
  ASSUME NEW R, IsOrder(R), OwnInv(R), StartPage
  PROVE  phase' # "dead_buffer" /\ sent' \subseteq {1} /\ OwnHeld(R)'
<1>1. PICK b \in Buffers :
        /\ text' = init_output_buffer(b)
        /\ stack' = <<[style |-> Page, buffer |-> b]>>
        /\ styles' = Append(styles, [NewStyle(Page, b) EXCEPT !.rec = TRUE])
  BY DEF StartPage, Recorded
<1>2. phase = "opened" /\ phase' = "begin" /\ sent' = sent /\ IInv /\ sent \subseteq {1}
  BY DEF StartPage, OwnInv
<1>3. made = 1 /\ styles = <<>>
  BY <1>2, OpenedIs
<1>4. PICK c \in Call : /\ c = [style |-> Page, buffer |-> b]
                        /\ c.style = Page /\ c.buffer = b
  BY <1>3, PageMade
<1>5. PICK s \in Style : /\ s = [NewStyle(Page, b) EXCEPT !.rec = TRUE]
                         /\ s.name = Page /\ s.spec = b /\ s.rec
  BY <1>3, PageMade
<1>6. /\ DOMAIN stack' = {1} /\ stack'[1] = c
      /\ DOMAIN styles' = {1} /\ styles'[1] = s /\ styles' # <<>>
  BY <1>1, <1>3, <1>4, <1>5
<1>7. text'[b] = {}
  BY <1>1, <1>2, BufferGiven DEF IInv, Types
<1>8. Nesting(R)'
  <2>1. \A j, k \in {1} : ~(j < k)
    OBVIOUS
  <2>2. QED  BY <1>4, <1>6, <2>1 DEF Nesting
<1>9. PageFirst' /\ \A k \in {1} : AtHome(k)'
  <2>1. styles'[1].name = Page /\ styles'[1].rec /\ styles'[1].spec = b
    BY <1>5, <1>6
  <2>2. \A i \in {1} : styles'[i].rec <=> styles'[i].name = Page
    BY <2>1
  <2>3. PageFirst'
    BY <1>6, <2>1, <2>2 DEF PageFirst
  <2>4. styles'[1].name = stack'[1].style /\ styles'[1].spec = stack'[1].buffer
    BY <1>4, <1>6, <2>1
  <2>5. AtHome(1)'
    BY <1>6, <2>4 DEF AtHome
  <2>6. QED  BY <2>3, <2>5
<1>10. \A k \in {1} : text'[stack'[k].buffer] \subseteq {k}
  BY <1>4, <1>6, <1>7
<1>11. OwnHeld(R)'
  BY <1>6, <1>8, <1>9, <1>10 DEF OwnHeld
<1>12. QED  BY <1>2, <1>11

\* A command formats with a style that is not at work yet.
LEMMA FormatOwn ==
  ASSUME NEW R, IsOrder(R), OwnInv(R), Format
  PROVE  phase' # "dead_buffer" /\ sent' \subseteq {1} /\ OwnHeld(R)'
<1>1. PICK name \in Wanted, b \in Buffers \ Live :
        /\ text' = init_output_buffer(b)
        /\ stack' = Append(stack, [style |-> name, buffer |-> b])
        /\ MakeStyle(name, b)
  BY DEF Format
<1>2. /\ Running /\ UNCHANGED <<phase, sent>> /\ phase # "dead_buffer"
      /\ IInv /\ Types /\ StylesHeld /\ BuffersHeld /\ OwnHeld(R) /\ sent \subseteq {1}
      /\ lost' = lost
  BY <1>1 DEF Format, IInv, MakeStyle, OwnInv
<1>3. name \in Names /\ <<Top.style, name>> \in Formats
  BY PageName DEF Wanted
<1>4. PICK m \in Nat : /\ m >= 1 /\ m = Len(stack) /\ DOMAIN stack = 1 .. m
                       /\ Top = stack[m] /\ Top \in Call
  BY <1>2, TopOf
<1>5. PICK c \in Call : /\ c = [style |-> name, buffer |-> b]
                        /\ c.style = name /\ c.buffer = b
  <2>1. [style |-> name, buffer |-> b] \in [style : Names, buffer : Buffers]
    BY <1>3
  <2>2. QED  BY <2>1 DEF Call
<1>6. /\ DOMAIN stack' = 1 .. m + 1
      /\ \A k \in 1 .. m : stack'[k] = stack[k] /\ stack[k] \in Call
      /\ stack'[m + 1] = c
  BY <1>1, <1>2, <1>4, <1>5, AppendProperties DEF Types
<1>7. \A k \in 1 .. m : <<stack[k].style, name>> \in R
  <2>1. ASSUME NEW k \in 1 .. m PROVE <<stack[k].style, name>> \in R
    <3>1. Top.style \in Names /\ stack[k].style \in Names
      BY <1>4, <1>6 DEF Call
    <3>2. <<Top.style, name>> \in R
      BY <1>3, <3>1 DEF IsOrder
    <3>3. k = m \/ <<stack[k].style, Top.style>> \in R
      BY <1>2, <1>4 DEF OwnHeld, Nesting
    <3>4. QED  BY <1>3, <1>4, <3>1, <3>2, <3>3 DEF IsOrder
  <2>2. QED  BY <2>1
<1>8. \A k \in 1 .. m : stack[k].style # name
  BY <1>3, <1>7 DEF IsOrder
<1>9. name # Page
  BY <1>2, <1>4, <1>8 DEF OwnHeld, Nesting
<1>10. Nesting(R)'
  <2>1. stack'[1].style = Page
    BY <1>2, <1>4, <1>6 DEF OwnHeld, Nesting
  <2>2. ASSUME NEW j \in 1 .. m + 1, NEW k \in 1 .. m + 1, j < k
        PROVE  <<stack'[j].style, stack'[k].style>> \in R
    <3>1. CASE k \in 1 .. m
      BY <1>2, <1>4, <1>6, <2>2, <3>1 DEF OwnHeld, Nesting
    <3>2. CASE k = m + 1
      BY <1>4, <1>5, <1>6, <1>7, <2>2, <3>2
    <3>3. QED  BY <3>1, <3>2
  <2>3. QED  BY <1>6, <2>1, <2>2 DEF Nesting
<1>11. /\ DOMAIN styles \subseteq DOMAIN styles' /\ styles' # <<>>
       /\ \A i \in DOMAIN styles :
            /\ styles'[i].name = styles[i].name
            /\ styles'[i].rec = styles[i].rec
            /\ styles[i].name # name => styles'[i].spec = styles[i].spec
       /\ \A i \in DOMAIN styles' \ DOMAIN styles :
            styles'[i].name = name /\ ~styles'[i].rec
       /\ \E i \in DOMAIN styles' : styles'[i].name = name /\ styles'[i].spec = b
  <2>1. /\ styles \in Seq(Style) /\ made \in Nat /\ lost \subseteq 1 .. made
        /\ styles # <<>>
    BY <1>2 DEF Types, OwnHeld, PageFirst
  <2>2. CASE Known(name)
    <3>1. styles' = FoundAgain(name, b) /\ UNCHANGED <<interps, made, lost>>
      BY <1>1, <1>2, <2>2 DEF MakeStyle
    <3>2. /\ DOMAIN styles' = DOMAIN styles /\ styles' \in Seq(Style)
          /\ Len(styles') = Len(styles)
          /\ \A k \in DOMAIN styles :
               /\ styles'[k].name = styles[k].name
               /\ styles'[k].rec = styles[k].rec
               /\ styles'[k].spec = IF styles[k].name = name THEN b ELSE styles[k].spec
      BY <1>2, <2>1, <3>1, StyleTurned
    <3>3. styles' # <<>>
      BY <2>1, <3>2
    <3>4. PICK i \in DOMAIN styles : styles[i].name = name
      BY <2>2 DEF Known, Positions
    <3>5. QED  BY <3>2, <3>3, <3>4
  <2>3. CASE ~Known(name)
    <3>1. PICK s \in Style : /\ s = NewStyle(name, b) /\ s.name = name
                             /\ s.spec = b /\ s.rec = FALSE
      <4>1. [name |-> name, interp |-> made + 1, spec |-> b, rec |-> FALSE]
              \in [name : Names, interp : Nat, spec : Buffers, rec : BOOLEAN]
        BY <1>3, <2>1
      <4>2. QED  BY <4>1 DEF NewStyle, Style
    <3>2. styles' = Append(styles, s)
      BY <1>1, <2>3, <3>1 DEF MakeStyle, Recorded
    <3>3. PICK n \in Nat : n = Len(styles) /\ DOMAIN styles = 1 .. n
      BY <2>1
    <3>4. /\ DOMAIN styles' = 1 .. n + 1 /\ styles' # <<>>
          /\ \A k \in 1 .. n : styles'[k] = styles[k]
          /\ styles'[n + 1] = s
      BY <2>1, <3>1, <3>2, <3>3, AppendProperties
    <3>5. 1 .. n \subseteq 1 .. n + 1 /\ n + 1 \in 1 .. n + 1
          /\ \A i \in (1 .. n + 1) \ (1 .. n) : i = n + 1
      BY <3>3
    <3>6. QED  BY <3>1, <3>3, <3>4, <3>5
  <2>4. QED  BY <2>2, <2>3
<1>12. PageFirst'
  <2>1. 1 \in DOMAIN styles /\ styles[1].name = Page
    BY <1>2 DEF OwnHeld, PageFirst, Types
  <2>2. \A i \in DOMAIN styles' : styles'[i].rec <=> styles'[i].name = Page
    BY <1>2, <1>9, <1>11 DEF OwnHeld, PageFirst
  <2>3. QED  BY <1>11, <2>1, <2>2 DEF PageFirst
<1>13. ASSUME NEW k \in 1 .. m + 1 PROVE AtHome(k)'
  <2>1. CASE k \in 1 .. m
    <3>1. PICK i \in DOMAIN styles :
            styles[i].name = stack[k].style /\ styles[i].spec = stack[k].buffer
      BY <1>2, <1>4, <2>1 DEF OwnHeld, AtHome
    <3>2. i \in DOMAIN styles' /\ styles'[i].name = stack'[k].style
          /\ styles'[i].spec = stack'[k].buffer
      BY <1>6, <1>8, <1>11, <2>1, <3>1
    <3>3. QED  BY <3>2 DEF AtHome
  <2>2. CASE k = m + 1
    BY <1>5, <1>6, <1>11, <2>2 DEF AtHome
  <2>3. QED  BY <2>1, <2>2
<1>14. ASSUME NEW k \in 1 .. m + 1 PROVE text'[stack'[k].buffer] \subseteq {k}
  <2>1. /\ text'[b] = {} /\ \A d \in Live \ {b} : text'[d] = text[d]
    BY <1>1, <1>2, BufferGiven DEF Types
  <2>2. CASE k \in 1 .. m
    <3>1. stack[k].buffer \in Live \ {b}
      BY <1>1, <1>2, <1>4, <2>2 DEF BuffersHeld
    <3>2. QED  BY <1>2, <1>4, <1>6, <2>1, <2>2, <3>1 DEF OwnHeld
  <2>3. CASE k = m + 1
    BY <1>5, <1>6, <2>1, <2>3
  <2>4. QED  BY <2>2, <2>3
<1>15. OwnHeld(R)'
  BY <1>6, <1>10, <1>12, <1>13, <1>14 DEF OwnHeld
<1>16. QED  BY <1>2, <1>15

\* A command returns.
LEMMA ReturnOwn ==
  ASSUME NEW R, IsOrder(R), OwnInv(R), FormatDone
  PROVE  phase' # "dead_buffer" /\ sent' \subseteq {1} /\ OwnHeld(R)'
<1>1. /\ Running /\ UNCHANGED <<phase, styles, sent>> /\ phase # "dead_buffer"
      /\ IInv /\ Types /\ BuffersHeld /\ OwnHeld(R) /\ sent \subseteq {1}
      /\ text' = delete_output_buffer(Top.buffer)
  BY DEF FormatDone, IInv, OwnInv
<1>2. PICK m \in Nat :
        /\ m >= 1 /\ Len(stack) = m + 1 /\ DOMAIN stack = 1 .. m + 1
        /\ Top = stack[m + 1]
        /\ DOMAIN stack' = 1 .. m
        /\ \A k \in 1 .. m : stack'[k] = stack[k]
  BY <1>1, CallReturned DEF FormatDone, Types
<1>3. PICK b : b = stack[m + 1].buffer
  OBVIOUS
<1>4. Live' = Live \ {b} /\ \A d \in Live' : text'[d] = text[d]
  BY <1>1, <1>2, <1>3, BufferDisposed DEF Types
<1>5. \A k \in 1 .. m : k \in 1 .. m + 1 /\ k # m + 1
  BY <1>2
<1>6. Nesting(R)'
  BY <1>1, <1>2, <1>5 DEF OwnHeld, Nesting
<1>7. \A k \in 1 .. m : AtHome(k)'
  BY <1>1, <1>2, <1>5 DEF OwnHeld, AtHome
<1>8. \A k \in 1 .. m : text'[stack'[k].buffer] \subseteq {k}
  <2>1. \A k \in 1 .. m : stack[k].buffer \in Live /\ stack[k].buffer # b
    BY <1>1, <1>2, <1>3, <1>5 DEF BuffersHeld
  <2>2. QED  BY <1>1, <1>2, <1>4, <1>5, <2>1 DEF OwnHeld
<1>9. PageFirst'
  BY <1>1 DEF OwnHeld, PageFirst
<1>10. OwnHeld(R)'
  BY <1>2, <1>6, <1>7, <1>8, <1>9 DEF OwnHeld
<1>11. QED  BY <1>1, <1>10

\* The steps that leave the calls, their styles and their buffers alone.
LEMMA IdleOwn ==
  ASSUME NEW R, OwnInv(R), UNCHANGED <<styles, text, sent, stack>>, Running,
         phase' # "dead_buffer"
  PROVE  phase' # "dead_buffer" /\ sent' \subseteq {1} /\ OwnHeld(R)'
BY DEF OwnInv, OwnHeld, Nesting, PageFirst, AtHome

\* Every step keeps output where it belongs.
LEMMA NextOwn ==
  ASSUME NEW R, IsOrder(R), OwnInv(R), [Next]_vars
  PROVE  OwnInv(R)'
<1>1. IInv'
  BY NextIInv DEF OwnInv
<1>2. SUFFICES phase' # "dead_buffer" /\ sent' \subseteq {1} /\ (Running' => OwnHeld(R)')
  BY <1>1 DEF OwnInv
<1>3. CASE create_process_book \/ NotOpened
  BY <1>3 DEF create_process_book, NotOpened, Running, OwnInv
<1>4. CASE NoPage \/ PageStyleFails \/ EndPage
  <2>1. phase' \in {"closed", "no_index"} /\ sent' = sent
    BY <1>4, CloseStep DEF OwnInv, NoPage, PageStyleFails, EndPage
  <2>2. QED  BY <2>1 DEF OwnInv, Running
<1>5. CASE StartPage
  BY <1>5, StartOwn
<1>6. CASE BeginDone
  BY <1>6, BeginOwn
<1>7. CASE write_output
  BY <1>7, WriteOwn
<1>8. CASE Format
  BY <1>8, FormatOwn
<1>9. CASE FormatDone
  BY <1>9, ReturnOwn
<1>10. CASE OutputDone
  BY <1>10, IdleOwn DEF OutputDone, Running
<1>11. CASE FormatFails
  BY <1>11, IdleOwn DEF FormatFails, Running
<1>12. CASE TooManyStyles
  BY <1>12, IdleOwn DEF TooManyStyles
<1>13. CASE BufferRefused
  BY <1>13, IdleOwn DEF BufferRefused, Running
<1>14. CASE UNCHANGED vars
  BY <1>14, IdleOwn DEF vars, OwnInv, Running
<1>15. QED
  BY <1>3, <1>4, <1>5, <1>6, <1>7, <1>8, <1>9, <1>10, <1>11, <1>12, <1>13, <1>14
     DEF Next, make_reader_file, Commands

\* For any order of the styles that Formats goes along.
LEMMA OwnInvariance == ASSUME NEW R, IsOrder(R) PROVE Spec => []OwnInv(R)
<1>1. Init => OwnInv(R)
  BY InitIInv DEF Init, OwnInv, Running
<1>2. OwnInv(R) /\ [Next]_vars => OwnInv(R)'
  BY NextOwn
<1>3. QED  BY <1>1, <1>2, PTL DEF Spec

\* If no style formats, through others, with itself, then what the procedures of
\* a style write goes to the buffer of the call that they work for, or to the
\* client when it is the page's, and never to a buffer disposed of: for every
\* such Formats, however the calls nest and however often a style is used again.
THEOREM OutputGoesHome == Acyclic => (Spec => []OwnBuffer)
<1>1. SUFFICES ASSUME Acyclic PROVE Spec => []OwnBuffer
  OBVIOUS
<1>2. PICK R : IsOrder(R)
  BY <1>1 DEF Acyclic
<1>3. Spec => []OwnInv(R)
  BY <1>2, OwnInvariance
<1>4. OwnInv(R) => OwnBuffer
  BY DEF OwnInv, OwnHeld, OwnBuffer
<1>5. QED  BY <1>3, <1>4, PTL
=============================================================================
