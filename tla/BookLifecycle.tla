---------------------------- MODULE BookLifecycle ----------------------------
(***************************************************************************)
(* What a request opens and has to give back: the book with its arena and  *)
(* its interpreter (create_process_book, close_ana_book, close_all_books   *)
(* of src/ana_utils.c), the styles, each with an interpreter and a pool    *)
(* (make_new_tcl_style of src/ana_browsegrove.c), and the buffers that     *)
(* output goes to.                                                         *)
(*                                                                         *)
(* A procedure of a style may format something with another style          *)
(* (content, makeKWIC and the three commands for characters): that style   *)
(* is looked up or made, and its output goes to a buffer of its own until  *)
(* the command returns.  stack has the page and the commands that have not *)
(* returned, the innermost last.  A step is the code between two calls of  *)
(* procedures, or a procedure's output.                                    *)
(***************************************************************************)
EXTENDS Integers, Sequences, FiniteSets, SequencesExt

CONSTANTS
  NUMSTYLES,
  Page,        \* the style that the request names
  Formats,     \* which styles' procedures format with which: pairs of styles
  Buffers,     \* where ana_malloc can put a buffer
  MaxFaults    \* bound: how often a file or memory is missing

ASSUME PageFormats == Page \in {f[1] : f \in Formats}

VARIABLES
  phase,       \* of make_reader_file, or how it has crashed
  styles,      \* the array: name, tcl_interp, file_spec, and whether rec is set
  interps,     \* the interpreters that there are; style_pool goes with it
  made,        \* how many were made: the next one's number
  indexed,     \* set_up_sgrep_index has succeeded
  text,        \* for each buffer in use, the calls that wrote to it
  sent,        \* the calls whose output went to the client
  stack,
  faults,      \* how often a file or memory was missing (the bound)
  lost         \* interpreters that nobody can delete any more (history)

vars == <<phase, styles, interps, made, indexed, text, sent, stack, faults, lost>>

Running == phase \in {"begin", "output", "end"}
Live == DOMAIN text

Fault == faults < MaxFaults /\ faults' = faults + 1

(***************************************************************************)
(* create_process_book, for a request                                      *)
(***************************************************************************)
Init ==
  /\ phase = "start"
  /\ styles = <<>> /\ interps = {} /\ made = 0
  /\ indexed = FALSE
  /\ text = <<>> /\ sent = {} /\ stack = <<>>
  /\ faults = 0 /\ lost = {}

\* Whatever becomes of the index, the book is opened.
create_process_book ==
  /\ phase = "start"
  /\ phase' = "opened"
  /\ made' = 1 /\ interps' = {1}
  /\ \/ indexed' = TRUE /\ UNCHANGED faults
     \/ indexed' = FALSE /\ Fault
  /\ UNCHANGED <<styles, text, sent, stack, lost>>

\* The book is not known, a file cannot be opened or there is no arena: the
\* interpreter made before stays.
NotOpened ==
  /\ phase = "start"
  /\ Fault
  /\ phase' = "closed"
  /\ made' = 1 /\ interps' = {1} /\ lost' = {1}
  /\ UNCHANGED <<styles, indexed, text, sent, stack>>

(***************************************************************************)
(* close_all_books and close_ana_book.  The arena goes first, and with it  *)
(* every buffer; the caches are then cleared in what was the arena, where  *)
(* ana_free finds nothing in use.                                          *)
(***************************************************************************)
StylesClosed == {styles[k].interp : k \in DOMAIN styles}

\* close_ana_book reads lomem_idx->file_list, with or without an index.
Close(all) ==
  /\ phase' = IF indexed THEN "closed" ELSE "no_index"
  /\ interps' = all \ (StylesClosed \cup IF indexed THEN {1} ELSE {})
  /\ styles' = <<>>
  /\ text' = <<>>
  /\ stack' = <<>>

(***************************************************************************)
(* Buffers                                                                 *)
(***************************************************************************)
\* b is given out again, empty.
init_output_buffer(b) ==
  [c \in Live \cup {b} |-> IF c = b THEN {} ELSE text[c]]
delete_output_buffer(b) == [c \in Live \ {b} |-> text[c]]

(***************************************************************************)
(* make_new_tcl_style                                                      *)
(***************************************************************************)
Positions(name) == {k \in DOMAIN styles : styles[k].name = name}
Known(name) == Positions(name) # {}

\* Variant: the style goes on writing where it wrote before.
FoundAgainAsItWas(name, b) == styles
\* The style found gets the new buffer; the one it had is not kept.
FoundAgain(name, b) ==
  [k \in DOMAIN styles |-> IF k \in Positions(name)
                           THEN [styles[k] EXCEPT !.spec = b] ELSE styles[k]]

\* Variant: "if (!first)", which is commented out.
RecordedUnlessFirst(s) == IF s.name = Page THEN styles ELSE Append(styles, s)
Recorded(s) == Append(styles, s)

NewStyle(name, b) == [name |-> name, interp |-> made + 1, spec |-> b, rec |-> FALSE]

MakeStyle(name, b) ==
  /\ IF Known(name)
     THEN /\ styles' = FoundAgain(name, b)
          /\ UNCHANGED <<interps, made>>
     ELSE /\ Len(styles) < NUMSTYLES
          /\ styles' = Recorded(NewStyle(name, b))
          /\ made' = made + 1
          /\ interps' = interps \cup {made + 1}
  /\ UNCHANGED lost

Unknown(name) == ~Known(name) /\ Len(styles) < NUMSTYLES

\* There is no such file.
NoFile(name) ==
  /\ Unknown(name)
  /\ UNCHANGED <<interps, made, lost>>

\* The style_obj is refused, after its interpreter and its pool were made.
StyleRefused(name) ==
  /\ Unknown(name)
  /\ made' = made + 1
  /\ interps' = interps \cup {made + 1}
  /\ lost' = lost \cup {made + 1}

\* With the array full, the entry behind it is read for the next style's name.
Overrun(name) == ~Known(name) /\ Len(styles) = NUMSTYLES

(***************************************************************************)
(* make_reader_file                                                        *)
(***************************************************************************)
\* No memory for current_books, or for the clone or the buffer; the element or
\* the style of the request is no element or empty.
NoPage ==
  /\ phase = "opened"
  /\ Close(interps)
  /\ UNCHANGED <<made, indexed, sent, faults, lost>>

StartPage ==
  /\ phase = "opened"
  /\ \E b \in Buffers :
       /\ text' = init_output_buffer(b)
       /\ stack' = <<[style |-> Page, buffer |-> b]>>
       /\ styles' = Recorded([NewStyle(Page, b) EXCEPT !.rec = TRUE])
  /\ phase' = "begin"
  /\ made' = made + 1
  /\ interps' = interps \cup {made + 1}
  /\ UNCHANGED <<indexed, sent, faults, lost>>

\* There is no such file; or the style_obj is refused, after its interpreter
\* and its pool were made.
PageStyleFails ==
  /\ phase = "opened"
  /\ Fault
  /\ \/ Close(interps) /\ UNCHANGED <<made, lost>>
     \/ /\ Close(interps \cup {made + 1})
        /\ made' = made + 1
        /\ lost' = lost \cup {made + 1}
  /\ UNCHANGED <<indexed, sent>>

Top == Last(stack)
StyleOf(f) == styles[CHOOSE k \in DOMAIN styles : styles[k].name = f.style]
OnlyPage == Len(stack) = 1

\* What the begin procedure has written is sent.
BeginDone ==
  /\ phase = "begin" /\ OnlyPage
  /\ LET b == styles[1].spec IN
       IF b \in Live
       THEN /\ phase' \in {"output", "end"}
            /\ sent' = sent \cup text[b]
            /\ text' = [text EXCEPT ![b] = {}]
       ELSE phase' = "dead_buffer" /\ UNCHANGED <<sent, text>>
  /\ UNCHANGED <<styles, interps, made, indexed, stack, faults, lost>>

OutputDone ==
  /\ phase = "output" /\ OnlyPage
  /\ phase' = "end"
  /\ UNCHANGED <<styles, interps, made, indexed, text, sent, stack, faults, lost>>

\* The end procedure is over; or the output returned 0.
EndPage ==
  /\ phase \in {"output", "end"} /\ OnlyPage
  /\ Close(interps)
  /\ UNCHANGED <<made, indexed, sent, faults, lost>>

(***************************************************************************)
(* A procedure writes: to the client if its style has the request's rec,   *)
(* else to the buffer of the style; the length of the buffer counts both.  *)
(***************************************************************************)
write_output ==
  /\ Running
  /\ LET s == StyleOf(Top) IN
       IF s.spec \notin Live
       THEN phase' = "dead_buffer" /\ UNCHANGED <<text, sent>>
       ELSE /\ IF s.rec
               THEN sent' = sent \cup {Len(stack)} /\ UNCHANGED text
               ELSE /\ text' = [text EXCEPT ![s.spec] = @ \cup {Len(stack)}]
                    /\ UNCHANGED sent
            /\ UNCHANGED phase
  /\ UNCHANGED <<styles, interps, made, indexed, stack, faults, lost>>

(***************************************************************************)
(* Formatting with another style: get_ana_content, make_kwic,              *)
(* format_arbitrary_span                                                   *)
(***************************************************************************)
Wanted == {name \in {f[2] : f \in Formats} : <<Top.style, name>> \in Formats}

Format ==
  /\ Running
  /\ \E name \in Wanted, b \in Buffers \ Live :
       /\ text' = init_output_buffer(b)
       /\ stack' = Append(stack, [style |-> name, buffer |-> b])
       /\ MakeStyle(name, b)
  /\ UNCHANGED <<phase, indexed, sent, faults>>

\* The buffer is disposed of again.
FormatFails ==
  /\ Running
  /\ Fault
  /\ \E name \in Wanted : NoFile(name) \/ StyleRefused(name)
  /\ UNCHANGED <<phase, styles, indexed, text, sent, stack>>

TooManyStyles ==
  /\ Running
  /\ \E name \in Wanted : Overrun(name)
  /\ phase' = "overrun"
  /\ UNCHANGED <<styles, interps, made, indexed, text, sent, stack, faults, lost>>

\* content and makeKWIC return without the buffer; format_arbitrary_span does
\* not ask whether it has one.
BufferRefused ==
  /\ Running
  /\ Wanted # {}
  /\ Fault
  /\ phase' \in {phase, "no_buffer"}
  /\ UNCHANGED <<styles, interps, made, indexed, text, sent, stack, lost>>

\* Whether it was formatted or something failed: the buffer is disposed of.
FormatDone ==
  /\ Running
  /\ Len(stack) > 1
  /\ text' = delete_output_buffer(Top.buffer)
  /\ stack' = Front(stack)
  /\ UNCHANGED <<phase, styles, interps, made, indexed, sent, faults, lost>>

make_reader_file ==
  \/ create_process_book \/ NotOpened \/ NoPage \/ StartPage
  \/ PageStyleFails \/ BeginDone \/ OutputDone \/ EndPage

Commands ==
  Format \/ FormatFails \/ TooManyStyles \/ BufferRefused \/ FormatDone

Next == make_reader_file \/ write_output \/ Commands

Spec == Init /\ [][Next]_vars

(***************************************************************************)
(* Properties                                                              *)
(***************************************************************************)
\* Formats leads from no style back to itself: there is a strict order that it
\* goes along.
Names == {Page} \cup {f[2] : f \in Formats}

IsOrder(R) ==
  /\ \A a, b \in Names : <<a, b>> \in Formats => <<a, b>> \in R
  /\ \A a, b, c \in Names : <<a, b>> \in R /\ <<b, c>> \in R => <<a, c>> \in R
  /\ \A a \in Names : <<a, a>> \notin R

Acyclic == \E R \in SUBSET (Names \X Names) : IsOrder(R)

\* "format it and put it in tc_return": what a command's style writes is in
\* the buffer that the command returns, what the page's style writes is sent,
\* and neither anywhere else; and nothing is written to a buffer disposed of,
\* however often the same style is used, provided that Formats is Acyclic:
\* FoundAgain turns a style that is still at work to the new buffer, and nothing
\* turns it back.
OwnBuffer ==
  /\ phase # "dead_buffer"
  /\ sent \subseteq {1}
  /\ Running => \A k \in DOMAIN stack : text[stack[k].buffer] \subseteq {k}

\* What the book's array and the commands still hold is all there is, and when
\* the book is closed nothing is left: an interpreter and a pool for each style
\* used, however often, one for the book, a buffer for each call; but for those
\* whose style_obj, or whose book, was refused after they had been made.
Released ==
  /\ Running => /\ interps = {1} \cup {styles[k].interp : k \in DOMAIN styles} \cup lost
                /\ Live = {stack[k].buffer : k \in DOMAIN stack}
                /\ \A j, k \in DOMAIN styles : styles[j].name = styles[k].name => j = k
  /\ phase = "closed" => interps = lost

=============================================================================
