------------------------------- MODULE Arena -------------------------------
(***************************************************************************)
(* What src/ana_memory.c promises its callers: stretches of one arena,     *)
(* held by at most one caller each.                                        *)
(*                                                                         *)
(*   - a grant is n addresses that nobody holds;                           *)
(*   - a refusal is honest: no n addresses in a row are unheld;            *)
(*   - giving a stretch back touches no other one.                         *)
(*                                                                         *)
(* The code keeps this promise only until it should refuse a large         *)
(* request: Overrun is the one way out, and only when there is no room.    *)
(***************************************************************************)
EXTENDS Integers

CONSTANTS ArenaSize, Large, Requests

VARIABLES
  held,    \* the stretches callers hold, or that nobody can use any more
  reply,   \* the last request and the address it was given
  open,    \* the arena exists
  broken   \* the promise does not hold any more

vars == <<held, reply, open, broken>>

NoReply == [asked |-> 0, ptr |-> 0]
Disjoint(s, t) == \/ s.ptr + s.size <= t.ptr
                  \/ t.ptr + t.size <= s.ptr

\* Where n addresses in a row are free.
Room(n) ==
  {a \in 1 .. (ArenaSize - n + 1) :
     open /\ \A s \in held : Disjoint([ptr |-> a, size |-> n], s)}

Init ==
  /\ held = {}
  /\ reply = NoReply
  /\ open = TRUE
  /\ broken = FALSE

Grant(n) ==
  /\ \E a \in Room(n) :
       /\ held' = held \cup {[ptr |-> a, size |-> n]}
       /\ reply' = [asked |-> n, ptr |-> a]
  /\ UNCHANGED <<open, broken>>

Refuse(n) ==
  /\ Room(n) = {}
  /\ reply' = [asked |-> n, ptr |-> 0]
  /\ UNCHANGED <<held, open, broken>>

\* The pool has no memory to describe the rest of a block that is being cut:
\* the caller is refused, and the block is out of use until the arena goes.
Lose(n) ==
  /\ \E m \in n + 1 .. ArenaSize : \E a \in Room(m) :
       held' = held \cup {[ptr |-> a, size |-> n],
                          [ptr |-> a + n, size |-> m - n]}
  /\ reply' = [asked |-> n, ptr |-> 0]
  /\ UNCHANGED <<open, broken>>

Release ==
  /\ \E s \in held : held' = held \ {s}
  /\ reply' \in {NoReply, reply}
  /\ UNCHANGED <<open, broken>>

\* Nothing is promised of held and reply any more.
Overrun(n) ==
  /\ n > Large
  /\ Room(n) = {}
  /\ broken' = TRUE
  /\ UNCHANGED open

Close ==
  /\ held' = {}
  /\ reply' = NoReply
  /\ open' = FALSE
  /\ UNCHANGED broken

Next ==
  /\ ~broken
  /\ \/ \E n \in Requests : Grant(n) \/ Refuse(n) \/ Lose(n) \/ Overrun(n)
     \/ Release
     \/ Close

Spec == Init /\ [][Next]_vars
=============================================================================
