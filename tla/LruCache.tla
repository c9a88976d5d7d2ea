------------------------------ MODULE LruCache ------------------------------
(***************************************************************************)
(* What the object cache of src/ana_utils.c promises: the elements fetched *)
(* last.                                                                   *)
(*                                                                         *)
(*   - the cache is in order of use, the one fetched last in front;        *)
(*   - an element goes only to make room for one that is not there, and    *)
(*     then it is the one that has not been used for longest;              *)
(*   - an element is added when it fits, or when nothing else is left.     *)
(*                                                                         *)
(* Callers rely on it: a pointer they got is good until that much has been *)
(* fetched after it.                                                       *)
(***************************************************************************)
EXTENDS Integers, Sequences, SequencesExt

CONSTANTS Elements, Capacity, Charge

VARIABLES
  cache,   \* the elements held, the one used last first
  wanted,  \* the element room is being made for
  exact,   \* the bytes in use are known
  open

vars == <<cache, wanted, exact, open>>

Nobody == -1
Bytes(s) == SumFunctionOnSet(Charge, Range(s))
Fits(e) == Bytes(cache) + Charge[e] <= Capacity

Init ==
  /\ cache = <<>>
  /\ wanted = Nobody
  /\ exact = TRUE
  /\ open = TRUE

Touch(e) ==
  /\ e \in Range(cache)
  /\ cache' = Cons(e, RemoveFirst(cache, e))
  /\ UNCHANGED <<wanted, exact, open>>

Want(e) ==
  /\ wanted = Nobody
  /\ e \notin Range(cache)
  /\ wanted' = e
  /\ UNCHANGED <<cache, exact, open>>

Drop ==
  /\ wanted # Nobody
  /\ cache # <<>>
  /\ exact => ~Fits(wanted)
  /\ cache' = Front(cache)
  /\ UNCHANGED <<wanted, exact, open>>

Add ==
  /\ wanted # Nobody
  /\ exact => Fits(wanted) \/ cache = <<>>
  /\ cache' = Cons(wanted, cache)
  /\ wanted' = Nobody
  /\ UNCHANGED <<exact, open>>

Lose ==
  /\ exact' = FALSE
  /\ UNCHANGED <<cache, wanted, open>>

Close ==
  /\ wanted = Nobody
  /\ open' = FALSE
  /\ UNCHANGED <<cache, wanted, exact>>

Clear ==
  /\ ~open
  /\ \E e \in Range(cache) : cache' = RemoveFirst(cache, e)
  /\ UNCHANGED <<wanted, exact, open>>

Next ==
  \/ /\ open
     /\ \/ \E e \in Elements : Touch(e) \/ Want(e)
        \/ Drop \/ Add \/ Lose \/ Close
  \/ Clear

Spec == Init /\ [][Next]_vars
=============================================================================
