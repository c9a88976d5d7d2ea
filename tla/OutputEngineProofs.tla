------------------------- MODULE OutputEngineProofs -------------------------
(***************************************************************************)
(* Proofs about OutputEngine, for every book, every style and every        *)
(* search: that each call disposes of its clone (ClonesDisposed), that     *)
(* nothing is begun after the output was told to stop (StopsWhenTold), and *)
(* that the search cursor is on the next hit (CursorOnHit): where no span  *)
(* passes a hit, and then where that is so (SpanPassesNoHit).              *)
(***************************************************************************)
EXTENDS OutputEngine, CollectionLemmas

(***************************************************************************)
(* The stack of calls                                                      *)
(***************************************************************************)
Fields == {"fn", "el", "sibs", "right", "next", "at", "hide", "holds", "saved"}

\* A frame holds a clone only past its top, and that of a span none; the output
\* goes on when a span is formatted.
IsFrame(f) ==
  /\ DOMAIN f = Fields
  /\ f.fn \in {"element", "content", "span"}
  /\ f.holds \in BOOLEAN
  /\ f.at = "top" => ~f.holds
  /\ f.fn = "span" => ~f.holds /\ f.saved.told \in BOOLEAN /\ ~f.saved.told

\* Where a call f is when it has called g.
Calls(f, g) ==
  \/ g.fn = "content" /\ f.fn = "element" /\ f.at = "content"
  \/ g.fn = "element" /\ f.fn = "content" /\ f.at = "children"
  \/ g.fn = "element" /\ f.fn = "span" /\ f.at = "output"
  \/ g.fn = "span" /\ f.fn = "element" /\ f.at \in {"top", "content", "climb"}
  \/ g.fn = "span" /\ f.fn = "content" /\ f.at \in {"top"} \cup FoundPlaces
  \/ g.fn = "span" /\ f.fn = "span" /\ f.at \in {"down", "up"}

IsList(s) == s \in Seq({s[k] : k \in DOMAIN s})

IsStack(s) ==
  /\ IsList(s)
  /\ \A k \in DOMAIN s : IsFrame(s[k])
  /\ s # <<>> => s[1].fn = "element"
  /\ \A k \in DOMAIN s : k > 1 => Calls(s[k - 1], s[k])

HoldersIn(s) == {k \in DOMAIN s : s[k].holds}
SpansIn(s) == {k \in DOMAIN s : s[k].fn = "span"}

(***************************************************************************)
(* The inductive invariant                                                 *)
(***************************************************************************)
\* A call that was told to stop, r being what it was told: it hands that on.
Stops(f, r) ==
  \/ f.fn = "element" /\ f.at = "content" /\ r \in {0, 4}
  \/ f.fn = "content" /\ f.at = "children" /\ r \in {0, 4}
  \/ f.fn = "span" /\ f.at = "output" /\ r \in {0, 4}

Stopping == told_to_stop => stack = <<>> \/ Stops(Top, ret)

ClonesCounted == clones = 1 + Cardinality(Holders) + leaked

Numbers == clones \in Int /\ leaked \in Int /\ told_to_stop \in BOOLEAN

IInv ==
  /\ page = "begin" =>
       stack = <<>> /\ leaked = 0 /\ clones = 0 /\ told_to_stop = FALSE
  /\ page = "output" => IsStack(stack) /\ Numbers /\ Stopping /\ ClonesCounted

(***************************************************************************)
(* What CursorOnHit needs besides: a span that is formatted keeps the      *)
(* search of its procedure from going on.                                  *)
(***************************************************************************)
IsSpan(f) == f.fn = "span"
OnHit == done < Len(texts) /\ hit = texts[done + 1]

CursorInv ==
  /\ in_search \in BOOLEAN /\ done \in Nat
  /\ texts = <<>> \/ texts \in Searches
  /\ page = "output" =>
       /\ in_search => OnHit
       /\ \A k \in DOMAIN stack : IsSpan(stack[k]) =>
            stack[k].saved.in_search \in BOOLEAN /\ (stack[k].saved.in_search => OnHit)

(***************************************************************************)
(* Lists                                                                   *)
(***************************************************************************)
\* A sequence of anything is a list.
LEMMA SequenceIsList ==
  ASSUME NEW S, NEW s \in Seq(S)
  PROVE  IsList(s) /\ \E n \in Nat : n = Len(s) /\ DOMAIN s = 1 .. n
<1>1. PICK n \in Nat : n = Len(s) /\ DOMAIN s = 1 .. n
  OBVIOUS
<1>2. PICK T : T = {s[k] : k \in 1 .. n}
  OBVIOUS
<1>3. s \in [1 .. n -> T]
  BY <1>1, <1>2
<1>4. s \in Seq(T)
  BY <1>3
<1>5. QED  BY <1>1, <1>2, <1>4 DEF IsList

\* One more at the end.
LEMMA Pushed ==
  ASSUME NEW s, IsList(s), NEW f
  PROVE  \E n \in Nat :
           /\ n = Len(s) /\ DOMAIN s = 1 .. n
           /\ IsList(Append(s, f)) /\ Append(s, f) # <<>>
           /\ Len(Append(s, f)) = n + 1 /\ DOMAIN Append(s, f) = 1 .. n + 1
           /\ \A k \in 1 .. n : Append(s, f)[k] = s[k]
           /\ Append(s, f)[n + 1] = f
<1>1. PICK S : S = {s[k] : k \in DOMAIN s}
  OBVIOUS
<1>2. s \in Seq(S)
  BY <1>1 DEF IsList
<1>3. PICK n \in Nat : n = Len(s) /\ DOMAIN s = 1 .. n
  BY <1>2
<1>4. PICK T : T = S \cup {f}
  OBVIOUS
<1>5. \A k \in 1 .. n : s[k] \in T
  BY <1>1, <1>3, <1>4
<1>6. s = [k \in 1 .. n |-> s[k]]
  BY <1>2, <1>3
<1>7. s \in Seq(T)
  BY <1>5, <1>6
<1>8. f \in T
  BY <1>4
<1>9. PICK t : t = Append(s, f)
  OBVIOUS
<1>10. /\ t \in Seq(T) /\ t # <<>> /\ Len(t) = n + 1
       /\ \A k \in 1 .. n : t[k] = s[k]
       /\ t[n + 1] = f
  BY <1>3, <1>7, <1>8, <1>9, AppendProperties
<1>11. IsList(t) /\ DOMAIN t = 1 .. n + 1
  BY <1>10, SequenceIsList
<1>12. QED  BY <1>3, <1>9, <1>10, <1>11

\* The last is taken away.
LEMMA Popped ==
  ASSUME NEW s, IsList(s), s # <<>>
  PROVE  \E m \in Nat :
           /\ Len(s) = m + 1 /\ DOMAIN s = 1 .. m + 1 /\ Last(s) = s[m + 1]
           /\ IsList(Front(s)) /\ Len(Front(s)) = m /\ DOMAIN Front(s) = 1 .. m
           /\ \A k \in 1 .. m : Front(s)[k] = s[k]
<1>1. PICK S : S = {s[k] : k \in DOMAIN s} /\ s \in Seq(S)
  BY DEF IsList
<1>2. PICK n \in Nat : n = Len(s) /\ DOMAIN s = 1 .. n
  BY <1>1
<1>3. PICK m \in Nat : n = m + 1
  <2>1. n # 0
    BY <1>1, <1>2
  <2>2. n - 1 \in Nat /\ n = (n - 1) + 1
    BY <2>1
  <2>3. QED  BY <2>2
<1>4. PICK t : t = Front(s)
  OBVIOUS
<1>5. t = [k \in 1 .. m |-> s[k]]
  <2>1. t = SubSeq(s, 1, m)
    BY <1>2, <1>3, <1>4 DEF Front
  <2>2. QED  BY <1>1, <1>2, <1>3, <2>1
<1>6. t \in [1 .. m -> S]
  <2>1. \A k \in 1 .. m : s[k] \in S
    BY <1>1, <1>2, <1>3
  <2>2. QED  BY <1>5, <2>1
<1>7. t \in Seq(S) /\ Len(t) = m /\ DOMAIN t = 1 .. m
  BY <1>6
<1>8. IsList(t)
  BY <1>7, SequenceIsList
<1>9. Last(s) = s[m + 1]
  BY <1>2, <1>3 DEF Last
<1>10. QED  BY <1>2, <1>3, <1>4, <1>5, <1>7, <1>8, <1>9

\* The last of s is replaced by f.
Replaces(t, s, f) == t = [s EXCEPT ![Len(s)] = f]

\* It is the only one.
LEMMA LastReplaced ==
  ASSUME NEW s, IsList(s), s # <<>>, NEW f, NEW t, Replaces(t, s, f)
  PROVE  \E m \in Nat :
           /\ Len(s) = m + 1 /\ DOMAIN s = 1 .. m + 1 /\ Last(s) = s[m + 1]
           /\ IsList(t) /\ t # <<>> /\ Len(t) = m + 1 /\ DOMAIN t = 1 .. m + 1
           /\ \A k \in 1 .. m : t[k] = s[k]
           /\ t[m + 1] = f
<1>1. PICK m \in Nat : Len(s) = m + 1 /\ DOMAIN s = 1 .. m + 1 /\ Last(s) = s[m + 1]
  BY Popped
<1>2. PICK T : T = {s[k] : k \in DOMAIN s} \cup {f}
  OBVIOUS
<1>3. \A k \in 1 .. m + 1 : s[k] \in T
  BY <1>1, <1>2
<1>4. t = [s EXCEPT ![m + 1] = f]
  BY <1>1 DEF Replaces
<1>5. t = [k \in 1 .. m + 1 |-> IF k = m + 1 THEN f ELSE s[k]]
  <2>1. s = [k \in 1 .. m + 1 |-> s[k]]
    <3>1. s \in Seq({s[k] : k \in DOMAIN s})
      BY DEF IsList
    <3>2. QED  BY <1>1, <3>1
  <2>2. QED  BY <1>1, <1>4, <2>1
<1>6. t \in [1 .. m + 1 -> T]
  BY <1>2, <1>3, <1>5
<1>7. t \in Seq(T) /\ Len(t) = m + 1 /\ DOMAIN t = 1 .. m + 1
  BY <1>6
<1>8. IsList(t)
  BY <1>7, SequenceIsList
<1>9. t # <<>>
  BY <1>7
<1>10. /\ \A k \in 1 .. m : t[k] = s[k]
       /\ t[m + 1] = f
  BY <1>5
<1>11. QED  BY <1>1, <1>7, <1>8, <1>9, <1>10

(***************************************************************************)
(* How many places of a list are marked                                    *)
(***************************************************************************)
\* If the last place of m + 1 is dropped, marked is what is marked below it and,
\* perhaps, the last.
LEMMA MarkedBelow ==
  ASSUME NEW m \in Nat, NEW M \in SUBSET (1 .. m + 1), NEW L \in SUBSET (1 .. m),
         \A k \in 1 .. m : k \in M <=> k \in L
  PROVE  /\ Cardinality(L) \in Nat /\ Cardinality(M) \in Nat
         /\ Cardinality(M) = Cardinality(L) + (IF m + 1 \in M THEN 1 ELSE 0)
<1>1. IsFiniteSet(1 .. m) /\ IsFiniteSet(1 .. m + 1)
  BY FS_Interval
<1>2. IsFiniteSet(L) /\ IsFiniteSet(M)
  BY <1>1, FS_Subset
<1>3. Cardinality(L) \in Nat /\ Cardinality(M) \in Nat
  BY <1>2, FS_CardinalityType
<1>0. 1 .. m + 1 = (1 .. m) \cup {m + 1} /\ m + 1 \notin 1 .. m
  OBVIOUS
<1>4. CASE m + 1 \in M
  <2>1. M = L \cup {m + 1} /\ m + 1 \notin L
    BY <1>0, <1>4
  <2>2. QED  BY <1>2, <1>3, <1>4, <2>1, FS_AddElement
<1>5. CASE m + 1 \notin M
  <2>1. M = L
    BY <1>0, <1>5
  <2>2. QED  BY <1>3, <1>5, <2>1
<1>6. QED  BY <1>4, <1>5

One(b) == IF b THEN 1 ELSE 0

\* Of a stack with one call more than m, what is above m is what differs.
LEMMA CountBelow ==
  ASSUME NEW s, NEW t, NEW m \in Nat, DOMAIN s = 1 .. m + 1, DOMAIN t = 1 .. m,
         \A k \in 1 .. m : t[k] = s[k]
  PROVE  /\ Cardinality(HoldersIn(s)) \in Nat /\ Cardinality(HoldersIn(t)) \in Nat
         /\ Cardinality(HoldersIn(s)) = Cardinality(HoldersIn(t)) + One(s[m + 1].holds)
         /\ Cardinality(SpansIn(s)) \in Nat /\ Cardinality(SpansIn(t)) \in Nat
         /\ Cardinality(SpansIn(s)) =
              Cardinality(SpansIn(t)) + One(s[m + 1].fn = "span")
<1>1. m + 1 \in 1 .. m + 1 /\ 1 .. m \subseteq 1 .. m + 1
  OBVIOUS
<1>2. PICK H : H = HoldersIn(s)
  OBVIOUS
<1>3. PICK G : G = HoldersIn(t)
  OBVIOUS
<1>4. /\ H \in SUBSET (1 .. m + 1) /\ G \in SUBSET (1 .. m)
      /\ \A k \in 1 .. m : k \in H <=> k \in G
      /\ m + 1 \in H <=> s[m + 1].holds
  BY <1>1, <1>2, <1>3 DEF HoldersIn
<1>5. /\ Cardinality(H) \in Nat /\ Cardinality(G) \in Nat
      /\ Cardinality(H) = Cardinality(G) + (IF m + 1 \in H THEN 1 ELSE 0)
  BY <1>4, MarkedBelow
<1>6. PICK S : S = SpansIn(s)
  OBVIOUS
<1>7. PICK R : R = SpansIn(t)
  OBVIOUS
<1>8. /\ S \in SUBSET (1 .. m + 1) /\ R \in SUBSET (1 .. m)
      /\ \A k \in 1 .. m : k \in S <=> k \in R
      /\ m + 1 \in S <=> s[m + 1].fn = "span"
  BY <1>1, <1>6, <1>7 DEF SpansIn
<1>9. /\ Cardinality(S) \in Nat /\ Cardinality(R) \in Nat
      /\ Cardinality(S) = Cardinality(R) + (IF m + 1 \in S THEN 1 ELSE 0)
  BY <1>8, MarkedBelow
<1>10. (IF m + 1 \in H THEN 1 ELSE 0) = One(s[m + 1].holds)
       /\ (IF m + 1 \in S THEN 1 ELSE 0) = One(s[m + 1].fn = "span")
  BY <1>4, <1>8 DEF One
<1>11. QED  BY <1>2, <1>3, <1>5, <1>6, <1>7, <1>9, <1>10

\* A call returns.
LEMMA StackPopped ==
  ASSUME NEW s, IsStack(s), s # <<>>
  PROVE  /\ IsStack(Front(s)) /\ IsFrame(Last(s))
         /\ Cardinality(HoldersIn(s)) \in Nat /\ Cardinality(HoldersIn(Front(s))) \in Nat
         /\ Cardinality(HoldersIn(s)) =
              Cardinality(HoldersIn(Front(s))) + One(Last(s).holds)
         /\ Cardinality(SpansIn(s)) \in Nat /\ Cardinality(SpansIn(Front(s))) \in Nat
         /\ Cardinality(SpansIn(s)) =
              Cardinality(SpansIn(Front(s))) + One(Last(s).fn = "span")
         /\ Front(s) = <<>> => Last(s).fn = "element"
         /\ Front(s) # <<>> => Calls(Last(Front(s)), Last(s))
         /\ DOMAIN Front(s) \subseteq DOMAIN s
         /\ \A k \in DOMAIN Front(s) : Front(s)[k] = s[k]
         /\ \E k \in DOMAIN s : s[k] = Last(s)
<1>1. PICK t : t = Front(s)
  OBVIOUS
<1>2. PICK m \in Nat : /\ Len(s) = m + 1 /\ DOMAIN s = 1 .. m + 1 /\ Last(s) = s[m + 1]
                       /\ IsList(t) /\ Len(t) = m /\ DOMAIN t = 1 .. m
                       /\ \A k \in 1 .. m : t[k] = s[k]
  BY <1>1, Popped DEF IsStack
<1>3. \A k \in 1 .. m : k \in 1 .. m + 1
  OBVIOUS
<1>4. m + 1 \in 1 .. m + 1
  OBVIOUS
<1>5. IsFrame(Last(s))
  BY <1>2, <1>4 DEF IsStack
<1>6. t = <<>> => Last(s).fn = "element"
  <2>1. ASSUME t = <<>> PROVE m = 0
    BY <1>2, <2>1
  <2>2. QED  BY <1>2, <2>1 DEF IsStack
<1>7. t # <<>> => Calls(Last(t), Last(s))
  <2>1. ASSUME t # <<>> PROVE m >= 1
    <3>1. PICK S : t \in Seq(S)
      BY <1>2 DEF IsList
    <3>2. m # 0
      BY <1>2, <2>1, <3>1
    <3>3. QED  BY <3>2
  <2>2. ASSUME m >= 1 PROVE Calls(Last(t), Last(s))
    <3>1. m \in 1 .. m /\ m + 1 > 1 /\ (m + 1) - 1 = m
      BY <2>2
    <3>2. Calls(s[m], s[m + 1])
      BY <1>2, <1>4, <3>1 DEF IsStack
    <3>3. QED  BY <1>2, <3>1, <3>2 DEF Last
  <2>3. QED  BY <2>1, <2>2
<1>8. IsStack(t)
  <2>1. \A k \in 1 .. m : IsFrame(t[k])
    BY <1>2, <1>3 DEF IsStack
  <2>2. t # <<>> => t[1].fn = "element"
    <3>1. ASSUME t # <<>> PROVE 1 \in 1 .. m
      <4>1. PICK S : t \in Seq(S)
        BY <1>2 DEF IsList
      <4>2. m # 0
        BY <1>2, <3>1, <4>1
      <4>3. QED  BY <4>2
    <3>2. QED  BY <1>2, <3>1 DEF IsStack
  <2>3. ASSUME NEW k \in 1 .. m, k > 1 PROVE Calls(t[k - 1], t[k])
    <3>1. k - 1 \in 1 .. m
      BY <2>3
    <3>2. QED  BY <1>2, <1>3, <2>3, <3>1 DEF IsStack
  <2>4. QED  BY <1>2, <2>1, <2>2, <2>3 DEF IsStack
<1>9. /\ Cardinality(HoldersIn(s)) \in Nat /\ Cardinality(HoldersIn(t)) \in Nat
      /\ Cardinality(HoldersIn(s)) = Cardinality(HoldersIn(t)) + One(s[m + 1].holds)
      /\ Cardinality(SpansIn(s)) \in Nat /\ Cardinality(SpansIn(t)) \in Nat
      /\ Cardinality(SpansIn(s)) = Cardinality(SpansIn(t)) + One(s[m + 1].fn = "span")
  BY <1>2, CountBelow
<1>10. QED  BY <1>1, <1>2, <1>3, <1>4, <1>5, <1>6, <1>7, <1>8, <1>9

\* A call is made.
LEMMA StackPushed ==
  ASSUME NEW s, IsStack(s), NEW g, IsFrame(g), ~g.holds,
         s = <<>> => g.fn = "element", s # <<>> => Calls(Last(s), g)
  PROVE  /\ IsStack(Append(s, g)) /\ Append(s, g) # <<>> /\ Last(Append(s, g)) = g
         /\ Cardinality(HoldersIn(s)) \in Nat
         /\ Cardinality(HoldersIn(Append(s, g))) = Cardinality(HoldersIn(s))
         /\ Cardinality(SpansIn(s)) \in Nat
         /\ Cardinality(SpansIn(Append(s, g))) =
              Cardinality(SpansIn(s)) + One(g.fn = "span")
         /\ \A k \in DOMAIN Append(s, g) :
              Append(s, g)[k] = g \/ (k \in DOMAIN s /\ Append(s, g)[k] = s[k])
<1>1. PICK t : t = Append(s, g)
  OBVIOUS
<1>2. PICK n \in Nat : /\ n = Len(s) /\ DOMAIN s = 1 .. n
                       /\ IsList(t) /\ t # <<>>
                       /\ Len(t) = n + 1 /\ DOMAIN t = 1 .. n + 1
                       /\ \A k \in 1 .. n : t[k] = s[k]
                       /\ t[n + 1] = g
  BY <1>1, Pushed, SMTT(20) DEF IsStack
<1>3. \A k \in 1 .. n + 1 : k = n + 1 \/ k \in 1 .. n
  OBVIOUS
<1>4. s = <<>> <=> n = 0
  <2>1. PICK S : s \in Seq(S)
    BY DEF IsStack, IsList
  <2>2. QED  BY <1>2, <2>1
<1>5. \A k \in 1 .. n + 1 : IsFrame(t[k])
  BY <1>2, <1>3 DEF IsStack
<1>6. t[1].fn = "element"
  <2>1. CASE n = 0
    BY <1>2, <1>4, <2>1
  <2>2. CASE n # 0
    <3>1. 1 \in 1 .. n
      BY <2>2
    <3>2. QED  BY <1>2, <1>4, <2>2, <3>1 DEF IsStack
  <2>3. QED  BY <2>1, <2>2
<1>7. ASSUME NEW k \in 1 .. n + 1, k > 1 PROVE Calls(t[k - 1], t[k])
  <2>1. k - 1 \in 1 .. n
    BY <1>7
  <2>2. CASE k \in 1 .. n
    BY <1>2, <1>7, <2>1, <2>2 DEF IsStack
  <2>3. CASE k = n + 1
    <3>1. k - 1 = n /\ n # 0
      BY <1>7, <2>3
    <3>2. Calls(s[n], g)
      BY <1>2, <1>4, <3>1 DEF Last
    <3>3. QED  BY <1>2, <2>1, <2>3, <3>1, <3>2
  <2>4. QED  BY <1>3, <2>2, <2>3
<1>8. IsStack(t)
  BY <1>2, <1>5, <1>6, <1>7 DEF IsStack
<1>9. /\ Cardinality(HoldersIn(s)) \in Nat /\ Cardinality(HoldersIn(t)) \in Nat
      /\ Cardinality(HoldersIn(t)) = Cardinality(HoldersIn(s)) + One(t[n + 1].holds)
      /\ Cardinality(SpansIn(s)) \in Nat
      /\ Cardinality(SpansIn(t)) = Cardinality(SpansIn(s)) + One(t[n + 1].fn = "span")
  <2>1. \A k \in 1 .. n : s[k] = t[k]
    BY <1>2
  <2>2. QED  BY <1>2, <2>1, CountBelow
<1>10. One(g.holds) = 0
  BY DEF One
<1>11. Last(t) = g
  BY <1>2 DEF Last
<1>12. \A k \in DOMAIN t : t[k] = g \/ (k \in DOMAIN s /\ t[k] = s[k])
  BY <1>2, <1>3
<1>13. QED  BY <1>1, <1>2, <1>8, <1>9, <1>10, <1>11, <1>12

\* The innermost call goes on.
LEMMA StackReplaced ==
  ASSUME NEW s, IsStack(s), s # <<>>, NEW f, IsFrame(f), f.fn = Last(s).fn,
         NEW t, Replaces(t, s, f)
  PROVE  /\ IsStack(t) /\ t # <<>> /\ Last(t) = f
         /\ Cardinality(HoldersIn(s)) \in Nat
         /\ Cardinality(HoldersIn(t)) =
              Cardinality(HoldersIn(s)) - One(Last(s).holds) + One(f.holds)
         /\ Cardinality(SpansIn(s)) \in Nat
         /\ Cardinality(SpansIn(t)) = Cardinality(SpansIn(s))
         /\ \A k \in DOMAIN t : t[k] = f \/ (k \in DOMAIN s /\ t[k] = s[k])
<1>1. IsList(s)
  BY DEF IsStack
<1>2. PICK m \in Nat :
        /\ Len(s) = m + 1 /\ DOMAIN s = 1 .. m + 1 /\ Last(s) = s[m + 1]
        /\ IsList(t) /\ t # <<>> /\ Len(t) = m + 1 /\ DOMAIN t = 1 .. m + 1
        /\ \A k \in 1 .. m : t[k] = s[k]
        /\ t[m + 1] = f
  BY <1>1, LastReplaced
<1>3. \A k \in 1 .. m + 1 : k = m + 1 \/ k \in 1 .. m
  OBVIOUS
<1>4. \A k \in 1 .. m + 1 : IsFrame(t[k]) /\ t[k].fn = s[k].fn
  BY <1>2, <1>3 DEF IsStack
<1>5. 1 \in 1 .. m + 1
  OBVIOUS
<1>6. t[1].fn = "element"
  BY <1>2, <1>4, <1>5 DEF IsStack
<1>7. ASSUME NEW k \in 1 .. m + 1, k > 1 PROVE Calls(t[k - 1], t[k])
  <2>1. k - 1 \in 1 .. m
    BY <1>7
  <2>2. Calls(s[k - 1], s[k])
    BY <1>2, <1>7 DEF IsStack
  <2>3. QED  BY <1>2, <1>4, <2>1, <2>2 DEF Calls
<1>8. IsStack(t)
  BY <1>2, <1>4, <1>6, <1>7 DEF IsStack
<1>9. PICK b : b = Front(s)
  OBVIOUS
<1>10. DOMAIN b = 1 .. m /\ \A k \in 1 .. m : b[k] = s[k]
  <2>1. PICK i \in Nat : /\ Len(s) = i + 1 /\ DOMAIN b = 1 .. i
                         /\ \A k \in 1 .. i : b[k] = s[k]
    BY <1>9, Popped DEF IsStack
  <2>2. i = m
    BY <1>2, <2>1
  <2>3. QED  BY <2>1, <2>2
<1>11. \A k \in 1 .. m : b[k] = t[k]
  BY <1>2, <1>10
<1>12. /\ Cardinality(HoldersIn(s)) \in Nat /\ Cardinality(HoldersIn(b)) \in Nat
       /\ Cardinality(HoldersIn(s)) = Cardinality(HoldersIn(b)) + One(s[m + 1].holds)
       /\ Cardinality(SpansIn(s)) \in Nat /\ Cardinality(SpansIn(b)) \in Nat
       /\ Cardinality(SpansIn(s)) = Cardinality(SpansIn(b)) + One(s[m + 1].fn = "span")
  <2>1. DOMAIN s = 1 .. m + 1 /\ DOMAIN b = 1 .. m /\ \A k \in 1 .. m : b[k] = s[k]
    BY <1>2, <1>10
  <2>2. QED  BY <2>1, CountBelow
<1>13. /\ Cardinality(HoldersIn(t)) \in Nat
       /\ Cardinality(HoldersIn(t)) = Cardinality(HoldersIn(b)) + One(t[m + 1].holds)
       /\ Cardinality(SpansIn(t)) \in Nat
       /\ Cardinality(SpansIn(t)) = Cardinality(SpansIn(b)) + One(t[m + 1].fn = "span")
  BY <1>2, <1>10, <1>11, CountBelow
<1>14. One(s[m + 1].holds) \in Nat /\ One(f.holds) \in Nat /\ One(f.fn = "span") \in Nat
  BY DEF One
<1>15. Last(t) = f
  BY <1>2 DEF Last
<1>16. \A k \in DOMAIN t : t[k] = f \/ (k \in DOMAIN s /\ t[k] = s[k])
  BY <1>2, <1>3
<1>17. Cardinality(HoldersIn(t)) =
         Cardinality(HoldersIn(s)) - One(Last(s).holds) + One(f.holds)
  BY <1>2, <1>12, <1>13, <1>14
<1>18. Cardinality(SpansIn(t)) = Cardinality(SpansIn(s))
  BY <1>2, <1>12, <1>13, <1>14
<1>19. QED  BY <1>2, <1>8, <1>12, <1>15, <1>16, <1>17, <1>18

(***************************************************************************)
(* Frames                                                                  *)
(***************************************************************************)
\* A new frame.
LEMMA FrameMade ==
  ASSUME NEW fn \in {"element", "content"}, NEW el, NEW sibs, NEW right
  PROVE  /\ IsFrame(Frame(fn, el, sibs, right)) /\ ~Frame(fn, el, sibs, right).holds
         /\ Frame(fn, el, sibs, right).fn = fn
         /\ Frame(fn, el, sibs, right).at = "top"
<1>1. PICK f : f = Frame(fn, el, sibs, right)
  OBVIOUS
<1>2. /\ DOMAIN f = Fields /\ f.fn = fn /\ f.at = "top" /\ f.holds = FALSE
  BY <1>1 DEF Frame, Fields
<1>3. QED  BY <1>1, <1>2 DEF IsFrame

\* The page's first frame.
FrameOf(el, sibs, right, h) == [Frame("element", el, sibs, right) EXCEPT !.hide = h]

\* It is one.
LEMMA FirstFrame ==
  ASSUME NEW el, NEW sibs, NEW right, NEW h, NEW g, g = FrameOf(el, sibs, right, h)
  PROVE  IsFrame(g) /\ ~g.holds /\ g.fn = "element"
<1>1. PICK f : f = Frame("element", el, sibs, right)
  OBVIOUS
<1>2. IsFrame(f) /\ ~f.holds /\ f.fn = "element"
  BY <1>1, FrameMade
<1>3. DOMAIN g = Fields /\ g.fn = f.fn /\ g.at = f.at /\ g.holds = f.holds
  BY <1>1, <1>2 DEF IsFrame, Fields, FrameOf
<1>4. QED  BY <1>2, <1>3 DEF IsFrame

\* A frame is somewhere else now.
LEMMA FrameAt ==
  ASSUME NEW f, IsFrame(f), NEW at, at # "top", NEW g, g = [f EXCEPT !.at = at]
  PROVE  IsFrame(g) /\ g.fn = f.fn /\ g.at = at /\ g.holds = f.holds /\ g.saved = f.saved
<1>1. /\ DOMAIN g = Fields /\ g.fn = f.fn /\ g.at = at /\ g.holds = f.holds
      /\ g.saved = f.saved
  BY DEF IsFrame, Fields
<1>2. QED  BY <1>1 DEF IsFrame

\* A frame of an element or its content ...
Holding(f, at, h) == [f EXCEPT !.at = at, !.holds = h]

\* ... is somewhere else, and holds a clone or not.
LEMMA FrameHolds ==
  ASSUME NEW f, IsFrame(f), f.fn # "span", NEW at, NEW h \in BOOLEAN, at # "top" \/ ~h,
         NEW g, g = Holding(f, at, h)
  PROVE  IsFrame(g) /\ g.fn = f.fn /\ g.at = at /\ g.holds = h
<1>1. DOMAIN g = Fields /\ g.fn = f.fn /\ g.at = at /\ g.holds = h
  BY DEF IsFrame, Fields, Holding
<1>2. QED  BY <1>1 DEF IsFrame

\* The frame of an element that was begun.
Begun(f, n, h, at) ==
  [[f EXCEPT !.next = n, !.hide = h, !.holds = TRUE] EXCEPT !.at = at]

\* It holds a clone.
LEMMA FrameBegun ==
  ASSUME NEW f, IsFrame(f), f.fn = "element", NEW n, NEW h, NEW at, at # "top",
         NEW g, g = Begun(f, n, h, at)
  PROVE  IsFrame(g) /\ g.fn = "element" /\ g.at = at /\ g.holds
<1>1. PICK e : e = [f EXCEPT !.next = n, !.hide = h, !.holds = TRUE]
  OBVIOUS
<1>2. DOMAIN e = Fields /\ e.fn = f.fn /\ e.holds = TRUE
  BY <1>1 DEF IsFrame, Fields
<1>3. g = [e EXCEPT !.at = at]
  BY <1>1 DEF Begun
<1>4. DOMAIN g = Fields /\ g.fn = "element" /\ g.at = at /\ g.holds = TRUE
  BY <1>2, <1>3 DEF Fields
<1>5. QED  BY <1>4 DEF IsFrame

\* Climb's frame.
Climbed(f, n, at) == [f EXCEPT !.next = n, !.at = at]

\* It has its clone still.
LEMMA FrameClimbed ==
  ASSUME NEW f, IsFrame(f), NEW n, NEW at, at # "top",
         NEW g, g = Climbed(f, n, at)
  PROVE  IsFrame(g) /\ g.fn = f.fn /\ g.at = at /\ g.holds = f.holds
<1>1. DOMAIN g = Fields /\ g.fn = f.fn /\ g.at = at /\ g.holds = f.holds /\ g.saved = f.saved
  BY DEF IsFrame, Fields, Climbed
<1>2. QED  BY <1>1 DEF IsFrame

\* That of the next element.
LEMMA FrameNext ==
  ASSUME NEW f, IsFrame(f), NEW el,
         NEW g, g = [f EXCEPT !.el = el, !.at = "top", !.holds = FALSE]
  PROVE  IsFrame(g) /\ g.fn = f.fn /\ g.at = "top" /\ ~g.holds
<1>1. DOMAIN g = Fields /\ g.fn = f.fn /\ g.at = "top" /\ g.holds = FALSE /\ g.saved = f.saved
  BY DEF IsFrame, Fields
<1>2. QED  BY <1>1 DEF IsFrame

\* A span's.
SpanFrame(el, at, v) == [Frame("span", el, TRUE, TRUE) EXCEPT !.at = at, !.saved = v]

\* It is one.
LEMMA FrameSpan ==
  ASSUME NEW el, NEW at, NEW v, v.told \in BOOLEAN, ~v.told,
         NEW g, g = SpanFrame(el, at, v)
  PROVE  IsFrame(g) /\ g.fn = "span" /\ g.at = at /\ ~g.holds /\ g.saved = v
<1>1. PICK f : f = Frame("span", el, TRUE, TRUE)
  OBVIOUS
<1>2. DOMAIN f = Fields /\ f.fn = "span" /\ f.holds = FALSE
  BY <1>1 DEF Frame, Fields
<1>3. /\ DOMAIN g = Fields /\ g.fn = "span" /\ g.at = at /\ g.holds = FALSE
      /\ g.saved = v
  BY <1>1, <1>2 DEF Fields, SpanFrame
<1>4. QED  BY <1>3 DEF IsFrame

(***************************************************************************)
(* Kinds of steps                                                          *)
(***************************************************************************)
\* What is known when a procedure or a call has returned to the innermost call.
LEMMA AtIs ==
  ASSUME IInv, NEW fn, NEW at, At(fn, at)
  PROVE  /\ page = "output" /\ stack # <<>> /\ Top = Last(stack) /\ IsStack(stack)
         /\ IsFrame(Top) /\ Top.fn = fn /\ Top.at = at
         /\ clones \in Int /\ leaked \in Int /\ told_to_stop \in BOOLEAN
         /\ told_to_stop => Stops(Top, ret)
         /\ Held \in {0, 1} /\ (~Top.holds => Held = 0) /\ Held = One(Top.holds)
         /\ Cardinality(HoldersIn(stack)) \in Nat
         /\ clones = 1 + Cardinality(HoldersIn(stack)) + leaked
<1>1. page = "output" /\ stack # <<>> /\ Top.fn = fn /\ Top.at = at
  BY DEF At
<1>2. IsStack(stack) /\ Numbers /\ Stopping /\ ClonesCounted
  BY <1>1 DEF IInv
<1>3. IsFrame(Last(stack)) /\ Cardinality(HoldersIn(stack)) \in Nat
  BY <1>1, <1>2, StackPopped
<1>4. Held \in {0, 1} /\ (~Top.holds => Held = 0) /\ Held = One(Top.holds)
  BY DEF Held, One
<1>5. clones = 1 + Cardinality(HoldersIn(stack)) + leaked
  BY <1>2 DEF ClonesCounted, Holders, HoldersIn
<1>6. QED  BY <1>1, <1>2, <1>3, <1>4, <1>5 DEF Numbers, Stopping, Top

\* Once the page is output, this is the invariant.
LEMMA IInvOutput ==
  ASSUME page' = "output", IsStack(stack'), (clones \in Int)', (leaked \in Int)',
         (told_to_stop \in BOOLEAN)',
         told_to_stop' => stack' = <<>> \/ Stops(Last(stack'), ret'),
         clones' = 1 + Cardinality(HoldersIn(stack')) + leaked'
  PROVE  IInv'
<1>1. Stopping'
  BY DEF Stopping, Top
<1>2. ClonesCounted'
  BY DEF ClonesCounted, Holders, HoldersIn
<1>3. QED  BY <1>1, <1>2 DEF IInv, Numbers

\* A clone is taken and given back (g) with the place that holds it (h).
LEMMA Balance ==
  ASSUME NEW c \in Int, NEW l \in Int, NEW d \in Int, NEW m \in Int,
         NEW n \in Int, NEW h \in {0, 1}, NEW g \in {0, 1},
         c = 1 + n + l, d - m = ((c - l) - h) + g
  PROVE  d = 1 + (n - h + g) + m
OBVIOUS

\* A call returns, and if the output is to stop it says so.
LEMMA Returns ==
  ASSUME IInv, NEW fn, NEW at, At(fn, at), stack' = Front(stack), page' = "output",
         clones' \in Int, leaked' \in Int, clones' - leaked' = (clones - leaked) - Held,
         told_to_stop' \in BOOLEAN,
         told_to_stop' => fn # "span" /\ ret' \in {0, 4}
  PROVE  IInv'
<1>1. /\ page = "output" /\ stack # <<>> /\ Top = Last(stack) /\ IsStack(stack)
      /\ Top.fn = fn
      /\ clones \in Int /\ leaked \in Int
      /\ Held \in {0, 1} /\ Held = One(Top.holds)
      /\ clones = 1 + Cardinality(HoldersIn(stack)) + leaked
  BY AtIs
<1>2. /\ IsStack(stack') /\ IsFrame(Last(stack))
      /\ Cardinality(HoldersIn(stack)) \in Nat /\ Cardinality(HoldersIn(stack')) \in Nat
      /\ Cardinality(HoldersIn(stack)) =
           Cardinality(HoldersIn(stack')) + One(Last(stack).holds)
      /\ stack' # <<>> => Calls(Last(stack'), Last(stack))
  BY <1>1, StackPopped
<1>3. clones' = 1 + Cardinality(HoldersIn(stack')) + leaked'
  <2>1. PICK h \in {0, 1} : h = Held /\ h = One(Last(stack).holds)
    BY <1>1
  <2>2. PICK n \in Nat : n = Cardinality(HoldersIn(stack))
    BY <1>2
  <2>3. PICK o \in Nat : o = Cardinality(HoldersIn(stack'))
    BY <1>2
  <2>4. n = o + h
    BY <1>2, <2>1, <2>2, <2>3
  <2>5. clones = 1 + n + leaked /\ clones' - leaked' = (clones - leaked) - h
    BY <1>1, <2>1, <2>2
  <2>6. clones' - leaked' = ((clones - leaked) - h) + 0 /\ o = n - h + 0
    BY <1>1, <2>4, <2>5
  <2>a. PICK c \in Int : c = clones
    BY <1>1
  <2>b. PICK l \in Int : l = leaked
    BY <1>1
  <2>c. PICK d \in Int : d = clones'
    OBVIOUS
  <2>d. PICK m \in Int : m = leaked'
    OBVIOUS
  <2>8. clones' = 1 + (n - h + 0) + leaked'
    <3>1. c = 1 + n + l /\ d - m = ((c - l) - h) + 0
      BY <2>5, <2>6, <2>a, <2>b, <2>c, <2>d
    <3>2. d = 1 + (n - h + 0) + m
      BY <3>1, Balance
    <3>3. QED  BY <3>2, <2>c, <2>d
  <2>7. QED  BY <2>3, <2>6, <2>8
<1>4. ASSUME told_to_stop', stack' # <<>>
      PROVE  Stops(Last(stack'), ret')
  BY <1>1, <1>2, <1>4 DEF Calls, Stops
<1>5. QED  BY <1>2, <1>3, <1>4, IInvOutput

\* A call goes on, as f.
LEMMA GoesOn ==
  ASSUME IInv, NEW fn, NEW at, At(fn, at), NEW f, IsFrame(f), f.fn = fn,
         stack' = Replace(f), page' = "output",
         clones' \in Int, leaked' \in Int,
         clones' - leaked' = ((clones - leaked) - Held) + One(f.holds),
         told_to_stop' \in BOOLEAN, told_to_stop' => Stops(f, ret')
  PROVE  IInv'
<1>1. /\ page = "output" /\ stack # <<>> /\ Top = Last(stack) /\ IsStack(stack)
      /\ Top.fn = fn
      /\ clones \in Int /\ leaked \in Int
      /\ Held \in {0, 1} /\ Held = One(Top.holds)
      /\ clones = 1 + Cardinality(HoldersIn(stack)) + leaked
  BY AtIs
<1>2. Replaces(stack', stack, f)
  BY DEF Replace, Replaces
<1>3. /\ IsStack(stack') /\ stack' # <<>> /\ Last(stack') = f
      /\ Cardinality(HoldersIn(stack)) \in Nat
      /\ Cardinality(HoldersIn(stack')) =
           Cardinality(HoldersIn(stack)) - One(Last(stack).holds) + One(f.holds)
  BY <1>1, <1>2, StackReplaced
<1>4. One(f.holds) \in {0, 1}
  BY DEF One
<1>5. clones' = 1 + Cardinality(HoldersIn(stack')) + leaked'
  <2>1. PICK h \in {0, 1} : h = Held /\ h = One(Last(stack).holds)
    BY <1>1
  <2>2. PICK n \in Nat : n = Cardinality(HoldersIn(stack))
    BY <1>3
  <2>3. PICK took \in {0, 1} : took = One(f.holds)
    BY <1>4
  <2>4. Cardinality(HoldersIn(stack')) = n - h + took
    BY <1>3, <2>1, <2>2, <2>3
  <2>5. clones = 1 + n + leaked /\ clones' - leaked' = ((clones - leaked) - h) + took
    BY <1>1, <2>1, <2>2, <2>3
  <2>a. PICK c \in Int : c = clones
    BY <1>1
  <2>b. PICK l \in Int : l = leaked
    BY <1>1
  <2>c. PICK d \in Int : d = clones'
    OBVIOUS
  <2>d. PICK m \in Int : m = leaked'
    OBVIOUS
  <2>6. clones' = 1 + (n - h + took) + leaked'
    <3>1. c = 1 + n + l /\ d - m = ((c - l) - h) + took
      BY <2>5, <2>a, <2>b, <2>c, <2>d
    <3>2. d = 1 + (n - h + took) + m
      BY <3>1, Balance
    <3>3. QED  BY <3>2, <2>c, <2>d
  <2>7. QED  BY <2>4, <2>6
<1>6. QED  BY <1>3, <1>5, IInvOutput

\* A call goes on, as f, with a call of g.
LEMMA GoesOnWith ==
  ASSUME IInv, NEW fn, NEW at, At(fn, at), NEW f, IsFrame(f), f.fn = fn,
         NEW g, IsFrame(g), ~g.holds, Calls(f, g),
         stack' = Call(f, g), page' = "output",
         clones' \in Int, leaked' \in Int,
         clones' - leaked' = ((clones - leaked) - Held) + One(f.holds),
         ~told_to_stop', told_to_stop' \in BOOLEAN
  PROVE  IInv'
<1>1. /\ page = "output" /\ stack # <<>> /\ Top = Last(stack) /\ IsStack(stack)
      /\ Top.fn = fn
      /\ clones \in Int /\ leaked \in Int
      /\ Held \in {0, 1} /\ Held = One(Top.holds)
      /\ clones = 1 + Cardinality(HoldersIn(stack)) + leaked
  BY AtIs
<1>2. PICK t : Replaces(t, stack, f)
  BY DEF Replaces
<1>3. stack' = Append(t, g)
  BY <1>2 DEF Replace, Replaces, Call
<1>4. /\ IsStack(t) /\ t # <<>> /\ Last(t) = f
      /\ Cardinality(HoldersIn(stack)) \in Nat
      /\ Cardinality(HoldersIn(t)) =
           Cardinality(HoldersIn(stack)) - One(Last(stack).holds) + One(f.holds)
  BY <1>1, <1>2, StackReplaced
<1>5. /\ IsStack(stack') /\ stack' # <<>>
      /\ Cardinality(HoldersIn(stack')) = Cardinality(HoldersIn(t))
  BY <1>3, <1>4, StackPushed
<1>6. One(f.holds) \in {0, 1}
  BY DEF One
<1>7. clones' = 1 + Cardinality(HoldersIn(stack')) + leaked'
  <2>1. PICK h \in {0, 1} : h = Held /\ h = One(Last(stack).holds)
    BY <1>1
  <2>2. PICK n \in Nat : n = Cardinality(HoldersIn(stack))
    BY <1>4
  <2>3. PICK took \in {0, 1} : took = One(f.holds)
    BY <1>6
  <2>4. Cardinality(HoldersIn(stack')) = n - h + took
    BY <1>4, <1>5, <2>1, <2>2, <2>3
  <2>5. clones = 1 + n + leaked /\ clones' - leaked' = ((clones - leaked) - h) + took
    BY <1>1, <2>1, <2>2, <2>3
  <2>a. PICK c \in Int : c = clones
    BY <1>1
  <2>b. PICK l \in Int : l = leaked
    BY <1>1
  <2>c. PICK d \in Int : d = clones'
    OBVIOUS
  <2>d. PICK m \in Int : m = leaked'
    OBVIOUS
  <2>6. clones' = 1 + (n - h + took) + leaked'
    <3>1. c = 1 + n + l /\ d - m = ((c - l) - h) + took
      BY <2>5, <2>a, <2>b, <2>c, <2>d
    <3>2. d = 1 + (n - h + took) + m
      BY <3>1, Balance
    <3>3. QED  BY <3>2, <2>c, <2>d
  <2>7. QED  BY <2>4, <2>6
<1>8. QED  BY <1>5, <1>7, IInvOutput

\* A call is made where the procedures of f are called.
LEMMA CallsAlso ==
  ASSUME IInv, NEW fn, NEW at, At(fn, at), NEW g, IsFrame(g), ~g.holds, Calls(Top, g),
         stack' = Append(stack, g), page' = "output",
         UNCHANGED <<clones, leaked>>, ~told_to_stop', told_to_stop' \in BOOLEAN
  PROVE  IInv'
<1>1. /\ page = "output" /\ stack # <<>> /\ Top = Last(stack) /\ IsStack(stack)
      /\ clones \in Int /\ leaked \in Int
      /\ clones = 1 + Cardinality(HoldersIn(stack)) + leaked
  BY AtIs
<1>2. /\ IsStack(stack') /\ stack' # <<>>
      /\ Cardinality(HoldersIn(stack')) = Cardinality(HoldersIn(stack))
  BY <1>1, StackPushed
<1>3. QED  BY <1>1, <1>2, IInvOutput

\* The calls stay where they are.
LEMMA Stays ==
  ASSUME IInv, NEW fn, NEW at, At(fn, at), UNCHANGED <<stack, clones, leaked>>,
         page' = "output", told_to_stop' \in BOOLEAN,
         told_to_stop' => Stops(Top, ret')
  PROVE  IInv'
<1>1. /\ page = "output" /\ stack # <<>> /\ Top = Last(stack) /\ IsStack(stack)
      /\ clones \in Int /\ leaked \in Int
      /\ clones = 1 + Cardinality(HoldersIn(stack)) + leaked
  BY AtIs
<1>2. QED  BY <1>1, IInvOutput

(***************************************************************************)
(* The invariant through each step: output_element                         *)
(***************************************************************************)
\* At the top of a call there is no clone, and the output goes on.
LEMMA AtTop ==
  ASSUME IInv, NEW fn \in {"element", "content"}, At(fn, "top")
  PROVE  /\ page = "output" /\ ~told_to_stop /\ ~Top.holds /\ Held = 0
         /\ IsFrame(Top) /\ Top.fn = fn /\ clones \in Int /\ leaked \in Int
<1>1. /\ page = "output" /\ IsFrame(Top) /\ Top.fn = fn /\ Top.at = "top"
      /\ clones \in Int /\ leaked \in Int /\ (~Top.holds => Held = 0)
      /\ told_to_stop => Stops(Top, ret)
  BY AtIs
<1>2. ~Top.holds
  BY <1>1 DEF IsFrame
<1>3. ~Stops(Top, ret)
  BY <1>1 DEF Stops
<1>4. QED  BY <1>1, <1>2, <1>3

\* Where a call is that was not told to stop.
LEMMA NotTold ==
  ASSUME IInv, NEW fn, NEW at, At(fn, at),
         \/ fn = "element" /\ at \in {"next", "climb", "jump"}
         \/ fn = "element" /\ at = "content" /\ ~ContentStops
         \/ fn = "content" /\ at \in {"hidden", "bounds", "hit", "found"}
         \/ fn = "content" /\ at \in FoundPlaces
         \/ fn = "span" /\ at \in {"down", "up"}
         \/ fn = "span" /\ at = "output" /\ ret = Running
  PROVE  ~told_to_stop
<1>1. Top.fn = fn /\ Top.at = at /\ (told_to_stop => Stops(Top, ret))
  BY AtIs
<1>2. ~Stops(Top, ret)
  BY <1>1 DEF Stops, ContentStops, Running, FoundPlaces
<1>3. QED  BY <1>1, <1>2

\* The element cannot be read or cloned.
LEMMA ElementFailsStep == ASSUME IInv, ElementFails PROVE IInv'
<1>1. At("element", "top")
  BY DEF ElementFails
<1>2. page = "output" /\ clones \in Int /\ leaked \in Int /\ Held = 0
  BY <1>1, AtTop
<1>3. /\ stack' = Front(stack) /\ ret' = 0 /\ told_to_stop' = TRUE
      /\ page' = "output" /\ clones' = clones /\ leaked' = leaked
  BY <1>2 DEF ElementFails, Return
<1>4. clones' - leaked' = (clones - leaked) - Held
  BY <1>2, <1>3
<1>5. QED  BY <1>1, <1>2, <1>3, <1>4, Returns

\* The element is begun.
LEMMA BeginStep == ASSUME IInv, Begin PROVE IInv'
<1>1. At("element", "top")
  BY DEF Begin
<1>2. /\ page = "output" /\ ~told_to_stop /\ ~Top.holds /\ Held = 0
      /\ IsFrame(Top) /\ Top.fn = "element" /\ clones \in Int /\ leaked \in Int
  BY <1>1, AtTop
<1>3. page' = "output" /\ leaked' = leaked
  BY <1>2 DEF Begin
<1>4. PICK s \in process_style(Top.el, "before") :
        /\ told_to_stop' = (told_to_stop \/ StopsAfterStart(s))
        /\ LET f == [Top EXCEPT !.next = Rsib[Top.el], !.hide = hide,
                                !.holds = TRUE]
           IN CASE StopsAfterStart(s) ->
                     /\ Return(IF s.r = 4 THEN 4 ELSE 0)
                     /\ UNCHANGED clones
                [] ~StopsAfterStart(s) /\ Kind[Top.el] = "empty" ->
                     /\ stack' = Replace([f EXCEPT !.at = "next"])
                     /\ clones' = clones + 1
                     /\ UNCHANGED ret
                [] OTHER ->
                     /\ stack' = Call([f EXCEPT !.at = "content"],
                                      Frame("content", Top.el, FALSE, FALSE))
                     /\ clones' = clones + 1
                     /\ ret' = Running
  BY DEF Begin
<1>5. One(TRUE) = 1
  BY DEF One
<1>6. CASE StopsAfterStart(s)
  <2>1. /\ stack' = Front(stack) /\ ret' \in {0, 4} /\ clones' = clones
        /\ told_to_stop' \in BOOLEAN
    BY <1>4, <1>6 DEF Return
  <2>2. clones' - leaked' = (clones - leaked) - Held
    BY <1>2, <1>3, <2>1
  <2>3. QED  BY <1>1, <1>2, <1>3, <2>1, <2>2, Returns
<1>7. CASE ~StopsAfterStart(s) /\ Kind[Top.el] = "empty"
  <2>1. ~told_to_stop' /\ told_to_stop' \in BOOLEAN
    BY <1>2, <1>4, <1>7
  <2>2. PICK g : g = Begun(Top, Rsib[Top.el], hide, "next")
    OBVIOUS
  <2>3. IsFrame(g) /\ g.fn = "element" /\ g.holds
    BY <1>2, <2>2, FrameBegun
  <2>4. stack' = Replace(g) /\ clones' = clones + 1
    BY <1>4, <1>7, <2>2 DEF Begun
  <2>5. clones' - leaked' = ((clones - leaked) - Held) + One(g.holds)
    BY <1>2, <1>3, <1>5, <2>3, <2>4 DEF One
  <2>6. clones' \in Int /\ leaked' \in Int
    BY <1>2, <1>3, <2>4
  <2>7. QED  BY <1>1, <1>3, <2>1, <2>3, <2>4, <2>5, <2>6, GoesOn
<1>8. CASE ~StopsAfterStart(s) /\ Kind[Top.el] # "empty"
  <2>1. ~told_to_stop' /\ told_to_stop' \in BOOLEAN
    BY <1>2, <1>4, <1>8
  <2>2. PICK g : g = Begun(Top, Rsib[Top.el], hide, "content")
    OBVIOUS
  <2>3. IsFrame(g) /\ g.fn = "element" /\ g.at = "content" /\ g.holds
    BY <1>2, <2>2, FrameBegun
  <2>4. PICK c : c = Frame("content", Top.el, FALSE, FALSE)
    OBVIOUS
  <2>5. IsFrame(c) /\ ~c.holds /\ c.fn = "content"
    <3>1. PICK no : no = FALSE
      OBVIOUS
    <3>2. c = Frame("content", Top.el, no, no)
      BY <2>4, <3>1
    <3>3. QED  BY <3>2, FrameMade
  <2>6. stack' = Call(g, c) /\ clones' = clones + 1
    BY <1>4, <1>8, <2>2, <2>4 DEF Begun
  <2>7. clones' - leaked' = ((clones - leaked) - Held) + One(g.holds)
    BY <1>2, <1>3, <1>5, <2>3, <2>6 DEF One
  <2>8. clones' \in Int /\ leaked' \in Int
    BY <1>2, <1>3, <2>6
  <2>9. Calls(g, c)
    BY <2>3, <2>5 DEF Calls
  <2>10. QED  BY <1>1, <1>3, <2>1, <2>3, <2>5, <2>6, <2>7, <2>8, <2>9, GoesOnWith
<1>9. QED  BY <1>6, <1>7, <1>8

\* A call that returns 0 or 4 with its clone disposed of.
LEMMA StopReturns ==
  ASSUME IInv, NEW fn \in {"element", "content"}, NEW at, At(fn, at),
         stack' = Front(stack), ret' \in {0, 4}, clones' = clones - Held,
         UNCHANGED <<page, leaked>>, told_to_stop' \in BOOLEAN
  PROVE  IInv'
<1>1. page = "output" /\ clones \in Int /\ leaked \in Int /\ Held \in {0, 1}
  BY AtIs
<1>2. /\ clones' \in Int /\ leaked' \in Int
      /\ clones' - leaked' = (clones - leaked) - Held
  BY <1>1
<1>3. QED  BY <1>1, <1>2, Returns

\* A call that returns with its clone disposed of, and the output goes on.
LEMMA CallReturns ==
  ASSUME IInv, NEW fn, NEW at, At(fn, at),
         stack' = Front(stack), clones' = clones - Held,
         UNCHANGED <<page, leaked>>, told_to_stop' = FALSE
  PROVE  IInv'
<1>1. page = "output" /\ clones \in Int /\ leaked \in Int /\ Held \in {0, 1}
  BY AtIs
<1>2. /\ clones' \in Int /\ leaked' \in Int
      /\ clones' - leaked' = (clones - leaked) - Held
  BY <1>1
<1>3. QED  BY <1>1, <1>2, Returns

\* A call goes on somewhere else with the clone that it has.
LEMMA GoesTo ==
  ASSUME IInv, NEW fn, NEW at, At(fn, at), NEW f, IsFrame(f), f.fn = fn,
         f.holds = Top.holds, stack' = Replace(f),
         UNCHANGED <<page, clones, leaked>>, told_to_stop' = FALSE
  PROVE  IInv'
<1>1. page = "output" /\ clones \in Int /\ leaked \in Int /\ Held = One(Top.holds)
      /\ Held \in {0, 1}
  BY AtIs
<1>2. PICK h \in {0, 1} : h = Held /\ h = One(f.holds)
  BY <1>1
<1>3. clones' - leaked' = ((clones - leaked) - h) + h
  BY <1>1
<1>4. clones' \in Int /\ leaked' \in Int
  BY <1>1
<1>5. QED  BY <1>1, <1>2, <1>3, <1>4, GoesOn

\* Go is a replacement of the frame.
LEMMA GoIs ==
  ASSUME IInv, NEW fn, NEW at, At(fn, at), NEW to
  PROVE  Go(to) = Replace([Top EXCEPT !.at = to])
BY DEF Go, Replace, Top, Last

\* Whatever a call does next, where it was.
LEMMA GoesWhere ==
  ASSUME IInv, NEW fn, NEW at, At(fn, at), NEW to, to # "top", stack' = Go(to),
         UNCHANGED <<page, clones, leaked>>, told_to_stop' = FALSE
  PROVE  IInv'
<1>1. IsFrame(Top) /\ Top.fn = fn
  BY AtIs
<1>2. PICK f : f = [Top EXCEPT !.at = to]
  OBVIOUS
<1>3. IsFrame(f) /\ f.fn = fn /\ f.holds = Top.holds
  BY <1>1, <1>2, FrameAt
<1>4. stack' = Replace(f)
  BY <1>2, GoIs
<1>5. QED  BY <1>3, <1>4, GoesTo

\* The content was output or failed: the after procedure is left out.
LEMMA EndSkippedStep == ASSUME IInv, EndSkipped \/ EndFails PROVE IInv'
<1>1. At("element", "content")
  BY DEF EndSkipped, EndFails
<1>2. /\ stack' = Front(stack) /\ ret' \in {0, 4} /\ clones' = clones - Held
      /\ UNCHANGED <<page, leaked>> /\ told_to_stop' \in BOOLEAN
  BY DEF EndSkipped, EndFails, Return
<1>3. QED  BY <1>1, <1>2, StopReturns

\* The after procedure.
LEMMA EndStep == ASSUME IInv, End PROVE IInv'
<1>1. At("element", "content") /\ ~told_to_stop
  BY NotTold DEF End
<1>2. UNCHANGED <<page, leaked>>
  BY DEF End
<1>3. PICK s \in process_style(Top.el, "after") :
        /\ told_to_stop' = (told_to_stop \/ s.r \in {0, 4} \/ TooLong(s.len))
        /\ IF s.r \in {0, 4} \/ TooLong(s.len)
           THEN /\ Return(IF s.r = 4 THEN 4 ELSE 0)
                /\ clones' = clones - Held
           ELSE stack' = Go("next") /\ UNCHANGED <<ret, clones>>
  BY DEF End
<1>4. CASE s.r \in {0, 4} \/ TooLong(s.len)
  <2>1. /\ stack' = Front(stack) /\ ret' \in {0, 4} /\ clones' = clones - Held
        /\ told_to_stop' \in BOOLEAN
    BY <1>3, <1>4 DEF Return
  <2>2. QED  BY <1>1, <1>2, <2>1, StopReturns
<1>5. CASE ~(s.r \in {0, 4} \/ TooLong(s.len))
  <2>1. told_to_stop' = FALSE /\ stack' = Go("next") /\ UNCHANGED clones
    BY <1>1, <1>3, <1>5
  <2>2. QED  BY <1>1, <1>2, <2>1, GoesWhere
<1>6. QED  BY <1>4, <1>5

\* On to what follows.
LEMMA NextElementStep == ASSUME IInv, NextElement PROVE IInv'
<1>1. At("element", "next") /\ ~told_to_stop /\ told_to_stop \in BOOLEAN
  BY NotTold, AtIs DEF NextElement
<1>2. PICK to \in {"climb", "jump"} : stack' = Go(to)
  BY DEF NextElement
<1>3. UNCHANGED <<page, clones, leaked>> /\ told_to_stop' = FALSE /\ to # "top"
  BY <1>1, <1>2 DEF NextElement
<1>4. QED  BY <1>1, <1>2, <1>3, GoesWhere

\* The ancestor cannot be read.
LEMMA ClimbFailsStep == ASSUME IInv, ClimbFails PROVE IInv'
<1>1. At("element", "climb")
  BY DEF ClimbFails
<1>2. /\ stack' = Front(stack) /\ ret' \in {0, 4} /\ clones' = clones - Held
      /\ UNCHANGED <<page, leaked>> /\ told_to_stop' \in BOOLEAN
  BY DEF ClimbFails, Return
<1>3. QED  BY <1>1, <1>2, StopReturns

\* The end of the ancestor.
LEMMA ClimbStep == ASSUME IInv, Climb PROVE IInv'
<1>1. /\ At("element", "climb") /\ ~told_to_stop /\ IsFrame(Top) /\ Top.fn = "element"
  BY NotTold, AtIs DEF Climb
<1>2. UNCHANGED <<page, leaked>>
  BY DEF Climb
<1>3. PICK up, s :
        /\ told_to_stop' = (told_to_stop \/ s.r \in {0, 4} \/ TooLong(s.len) \/ memory_error)
        /\ IF s.r \in {0, 4} \/ TooLong(s.len) \/ memory_error
           THEN /\ Return(IF s.r = 4 THEN 4 ELSE 0)
                /\ clones' = clones - Held
           ELSE /\ stack' = Replace([Top EXCEPT
                      !.next = Rsib[up],
                      !.at = IF ClimbsOn(up) THEN "climb" ELSE "jump"])
                /\ UNCHANGED clones
  BY DEF Climb
<1>4. CASE s.r \in {0, 4} \/ TooLong(s.len) \/ memory_error
  <2>1. /\ stack' = Front(stack) /\ ret' \in {0, 4} /\ clones' = clones - Held
        /\ told_to_stop' = TRUE
    BY <1>3, <1>4 DEF Return
  <2>2. QED  BY <1>1, <1>2, <2>1, StopReturns
<1>5. CASE ~(s.r \in {0, 4} \/ TooLong(s.len) \/ memory_error)
  <2>1. told_to_stop' = FALSE /\ UNCHANGED clones
    BY <1>1, <1>3, <1>5
  <2>2. PICK to \in {"climb", "jump"} : to = IF ClimbsOn(up) THEN "climb" ELSE "jump"
    OBVIOUS
  <2>3. PICK f : f = Climbed(Top, Rsib[up], to)
    OBVIOUS
  <2>4. stack' = Replace(f)
    BY <1>3, <1>5, <2>2, <2>3 DEF Climbed
  <2>5. IsFrame(f) /\ f.fn = "element" /\ f.holds = Top.holds
    BY <1>1, <2>2, <2>3, FrameClimbed
  <2>6. QED  BY <1>1, <1>2, <2>1, <2>4, <2>5, GoesTo
<1>6. QED  BY <1>4, <1>5

\* The frame of the element that follows.
Onward(f, el) == [f EXCEPT !.el = el, !.at = "top", !.holds = FALSE]

\* The next sibling, if any.
LEMMA GoOnStep == ASSUME IInv, GoOn PROVE IInv'
<1>1. /\ At("element", "jump") /\ ~told_to_stop /\ told_to_stop \in BOOLEAN
      /\ IsFrame(Top) /\ Top.fn = "element" /\ page = "output"
      /\ clones \in Int /\ leaked \in Int /\ Held \in {0, 1}
  BY NotTold, AtIs DEF GoOn
<1>2. UNCHANGED <<page, leaked>> /\ told_to_stop' = FALSE /\ clones' = clones - Held
  BY <1>1 DEF GoOn
<1>3. CASE Top.next # 0 /\ Top.sibs
  <2>1. PICK f : f = Onward(Top, Top.next)
    OBVIOUS
  <2>2. IsFrame(f) /\ f.fn = "element" /\ f.at = "top" /\ ~f.holds
    BY <1>1, <2>1, FrameNext DEF Onward
  <2>3. stack' = Replace(f)
    BY <1>3, <2>1 DEF GoOn, Onward
  <2>4. One(f.holds) = 0
    BY <2>2 DEF One
  <2>5. /\ clones' \in Int /\ leaked' \in Int
        /\ clones' - leaked' = ((clones - leaked) - Held) + One(f.holds)
    BY <1>1, <1>2, <2>4
  <2>6. QED  BY <1>1, <1>2, <2>2, <2>3, <2>5, GoesOn
<1>4. CASE ~(Top.next # 0 /\ Top.sibs)
  <2>1. stack' = Front(stack)
    BY <1>4 DEF GoOn, Return
  <2>2. QED  BY <1>1, <1>2, <2>1, CallReturns
<1>5. QED  BY <1>3, <1>4

\* The element that startEl names; its clone is left behind.
LEMMA JumpStep == ASSUME IInv, Jump PROVE IInv'
<1>1. /\ At("element", "jump") /\ ~told_to_stop /\ told_to_stop \in BOOLEAN
      /\ IsFrame(Top) /\ Top.fn = "element" /\ page = "output"
      /\ clones \in Int /\ leaked \in Int /\ Held \in {0, 1}
  BY NotTold, AtIs DEF Jump
<1>2. UNCHANGED page /\ told_to_stop' = FALSE
  BY <1>1 DEF Jump
<1>3. PICK s \in StartEls :
        /\ clones' = clones - Held + (IF s \in Els THEN 1 ELSE 0)
        /\ leaked' = leaked + (IF s \in Els THEN 1 ELSE 0)
        /\ stack' = Replace([Top EXCEPT !.el = JumpTarget(s), !.at = "top",
                                        !.holds = FALSE])
  BY DEF Jump
<1>4. PICK k \in {0, 1} : k = IF s \in Els THEN 1 ELSE 0
  OBVIOUS
<1>5. PICK f : f = Onward(Top, JumpTarget(s))
  OBVIOUS
<1>6. IsFrame(f) /\ f.fn = "element" /\ f.at = "top" /\ ~f.holds
  BY <1>1, <1>5, FrameNext DEF Onward
<1>7. stack' = Replace(f)
  BY <1>3, <1>5 DEF Onward
<1>8. One(f.holds) = 0
  BY <1>6 DEF One
<1>9. clones' = (clones - Held) + k /\ leaked' = leaked + k
  BY <1>3, <1>4
<1>10. /\ clones' \in Int /\ leaked' \in Int
       /\ clones' - leaked' = ((clones - leaked) - Held) + One(f.holds)
  BY <1>1, <1>8, <1>9
<1>11. QED  BY <1>1, <1>2, <1>6, <1>7, <1>10, GoesOn

\* A clone that was refused is used all the same.
LEMMA CloneRefusedStep == ASSUME CloneRefused PROVE IInv'
BY DEF CloneRefused, IInv

(***************************************************************************)
(* output_content                                                          *)
(***************************************************************************)
\* The element cannot be read.
LEMMA ContentFailsStep == ASSUME IInv, ContentFails PROVE IInv'
<1>1. At("content", "top")
  BY DEF ContentFails
<1>2. page = "output" /\ clones \in Int /\ leaked \in Int /\ Held = 0
  BY <1>1, AtTop
<1>3. /\ stack' = Front(stack) /\ ret' = 0 /\ told_to_stop' = TRUE
      /\ UNCHANGED <<page, clones, leaked>>
  BY <1>2 DEF ContentFails, Return
<1>4. clones' = clones - Held
  BY <1>2, <1>3
<1>5. QED  BY <1>1, <1>3, <1>4, StopReturns

\* The content procedure.
LEMMA ContentStep == ASSUME IInv, Content PROVE IInv'
<1>1. At("content", "top")
  BY DEF Content
<1>2. /\ page = "output" /\ ~told_to_stop /\ ~Top.holds /\ Held = 0
      /\ IsFrame(Top) /\ Top.fn = "content" /\ clones \in Int /\ leaked \in Int
  BY <1>1, AtTop
<1>3. UNCHANGED <<page, leaked>>
  BY DEF Content
<1>4. PICK s \in process_style(Top.el, "content") :
        /\ told_to_stop' = (told_to_stop \/ s.r = 0)
        /\ IF s.r = 0
           THEN Return(0) /\ UNCHANGED clones
           ELSE /\ stack' = Replace([Top EXCEPT
                              !.at = IF s.r = 2 THEN "hidden" ELSE "bounds",
                              !.holds = TRUE])
                /\ clones' = clones + 1
  BY DEF Content
<1>5. CASE s.r = 0
  <2>1. /\ stack' = Front(stack) /\ ret' = 0 /\ clones' = clones
        /\ told_to_stop' \in BOOLEAN
    BY <1>4, <1>5 DEF Return
  <2>2. clones' = clones - Held
    BY <1>2, <2>1
  <2>3. QED  BY <1>1, <1>3, <2>1, <2>2, StopReturns
<1>6. CASE s.r # 0
  <2>1. PICK to \in {"hidden", "bounds"} : to = IF s.r = 2 THEN "hidden" ELSE "bounds"
    OBVIOUS
  <2>0. PICK yes \in BOOLEAN : yes = TRUE
    OBVIOUS
  <2>2. PICK f : f = Holding(Top, to, yes)
    OBVIOUS
  <2>3. IsFrame(f) /\ f.fn = "content" /\ f.holds = TRUE
    <3>1. to # "top" /\ Top.fn # "span"
      BY <1>2, <2>1
    <3>2. IsFrame(f) /\ f.fn = Top.fn /\ f.at = to /\ f.holds = yes
      BY <1>2, <2>2, <3>1, FrameHolds
    <3>3. QED  BY <1>2, <2>0, <3>2
  <2>4. stack' = Replace(f) /\ clones' = clones + 1
    BY <1>4, <1>6, <2>0, <2>1, <2>2 DEF Holding
  <2>5. One(f.holds) = 1
    BY <2>3 DEF One
  <2>6. /\ clones' \in Int /\ leaked' \in Int
        /\ clones' - leaked' = ((clones - leaked) - Held) + One(f.holds)
    BY <1>2, <1>3, <2>4, <2>5
  <2>7. ~told_to_stop' /\ told_to_stop' \in BOOLEAN /\ page' = "output"
    BY <1>2, <1>3, <1>4, <1>6
  <2>8. QED  BY <1>1, <2>3, <2>4, <2>6, <2>7, GoesOn
<1>7. QED  BY <1>5, <1>6

\* The content is hidden: its clone is disposed of.
LEMMA HiddenAwayStep ==
  ASSUME IInv, NEW at, At("content", at), HiddenAway("bounds"), UNCHANGED <<page, leaked>>,
         told_to_stop' = FALSE
  PROVE  IInv'
<1>1. /\ IsFrame(Top) /\ Top.fn = "content" /\ page = "output"
      /\ clones \in Int /\ leaked \in Int /\ Held \in {0, 1}
  BY AtIs
<1>0. PICK no \in BOOLEAN : no = FALSE
  OBVIOUS
<1>2. PICK f : f = Holding(Top, "bounds", no)
  OBVIOUS
<1>3. IsFrame(f) /\ f.fn = "content" /\ f.holds = FALSE
  <2>1. Top.fn # "span" /\ ~no
    BY <1>0, <1>1
  <2>2. IsFrame(f) /\ f.fn = Top.fn /\ f.holds = no
    BY <1>1, <1>2, <2>1, FrameHolds
  <2>3. QED  BY <1>0, <1>1, <2>2
<1>4. stack' = Replace(f) /\ clones' = clones - Held
  BY <1>0, <1>2 DEF HiddenAway, Holding
<1>5. One(f.holds) = 0
  BY <1>3 DEF One
<1>6. /\ clones' \in Int /\ leaked' \in Int
      /\ clones' - leaked' = ((clones - leaked) - Held) + One(f.holds)
  BY <1>1, <1>4, <1>5
<1>7. QED  BY <1>1, <1>3, <1>4, <1>6, GoesOn

\* With the end of a hit, or without.
LEMMA HiddenStep == ASSUME IInv, Hidden \/ HiddenHit PROVE IInv'
<1>1. At("content", "hidden") /\ ~told_to_stop /\ told_to_stop \in BOOLEAN
  BY NotTold, AtIs DEF Hidden, HiddenHit
<1>2. CASE Hidden
  BY <1>1, <1>2, HiddenAwayStep DEF Hidden
<1>3. CASE HiddenHit
  <2>1. PICK to \in {"endsCurrent", "endsPrevious"} : stack' = Go(to)
    BY <1>3 DEF HiddenHit
  <2>2. UNCHANGED <<page, clones, leaked>> /\ told_to_stop' = FALSE /\ to # "top"
    BY <1>1, <1>3 DEF HiddenHit
  <2>3. QED  BY <1>1, <2>1, <2>2, GoesWhere
<1>4. QED  BY <1>2, <1>3

\* The procedure for the end of a hit, of what is hidden.
LEMMA HiddenHitEndedStep == ASSUME IInv, HiddenHitEnded PROVE IInv'
<1>1. PICK at : At("content", at) /\ at \in FoundPlaces
  BY DEF HiddenHitEnded, FoundPlaces
<1>2. ~told_to_stop /\ told_to_stop \in BOOLEAN
  BY <1>1, NotTold, AtIs
<1>3. PICK s \in FoundReplies(hide, len, "after") :
        /\ told_to_stop' = (told_to_stop \/ s.r = 0)
        /\ IF s.r = 0
           THEN Return(0) /\ clones' = clones - Held /\ UNCHANGED page
           ELSE HiddenAway("bounds") /\ page' \in {page, "undefined"}
  BY DEF HiddenHitEnded
<1>4. UNCHANGED leaked
  BY DEF HiddenHitEnded
<1>5. CASE s.r = 0
  <2>1. /\ stack' = Front(stack) /\ ret' = 0 /\ clones' = clones - Held
        /\ UNCHANGED page /\ told_to_stop' \in BOOLEAN
    BY <1>3, <1>5 DEF Return
  <2>2. QED  BY <1>1, <1>4, <2>1, StopReturns
<1>6. CASE s.r # 0 /\ page' = page
  BY <1>1, <1>2, <1>3, <1>4, <1>6, HiddenAwayStep
<1>7. CASE s.r # 0 /\ page' = "undefined"
  BY <1>7 DEF IInv
<1>8. QED  BY <1>3, <1>5, <1>6, <1>7

\* The ways out of output_content that dispose of the clone.
LEMMA ContentReturns ==
  ASSUME IInv,
         StopAtBounds \/ PlainText \/ PlainTextFails \/ FoundCloneFails \/ HitsDone
  PROVE  IInv'
<1>1. CASE StopAtBounds
  BY <1>1, StopReturns DEF StopAtBounds, Return
<1>2. CASE PlainText
  <2>1. At("content", "bounds") /\ ~told_to_stop
    BY <1>2, NotTold DEF PlainText
  <2>2. PICK ends \in BOOLEAN :
          /\ Return(IF ends THEN 4 ELSE 1)
          /\ told_to_stop' = (told_to_stop \/ ends)
    BY <1>2 DEF PlainText
  <2>3. clones' = clones - Held /\ UNCHANGED <<page, leaked>> /\ stack' = Front(stack)
    BY <1>2, <2>2 DEF PlainText, Return
  <2>4. CASE ends
    <3>1. ret' = 4 /\ told_to_stop' \in BOOLEAN
      BY <2>2, <2>4 DEF Return
    <3>2. QED  BY <2>1, <2>3, <3>1, StopReturns
  <2>5. CASE ~ends
    <3>1. told_to_stop' = FALSE
      BY <2>1, <2>2, <2>5
    <3>2. QED  BY <2>1, <2>3, <3>1, CallReturns
  <2>6. QED  BY <2>4, <2>5
<1>3. CASE PlainTextFails
  BY <1>3, StopReturns DEF PlainTextFails, Return
<1>4. CASE FoundCloneFails
  <2>1. PICK at : At("content", at)
    BY <1>4 DEF FoundCloneFails, InTextWithHits
  <2>2. /\ stack' = Front(stack) /\ ret' = 0 /\ clones' = clones - Held
        /\ UNCHANGED <<page, leaked>> /\ told_to_stop' = TRUE
    BY <1>4 DEF FoundCloneFails, Return
  <2>3. QED  BY <2>1, <2>2, StopReturns
<1>5. CASE HitsDone
  <2>1. At("content", "hit") /\ ~told_to_stop /\ told_to_stop \in BOOLEAN
    BY <1>5, NotTold, AtIs DEF HitsDone
  <2>2. /\ told_to_stop' = FALSE /\ clones' = clones - Held /\ UNCHANGED <<page, leaked>>
        /\ stack' = Front(stack)
    BY <1>5, <2>1 DEF HitsDone, Return
  <2>3. QED  BY <2>1, <2>2, CallReturns
<1>6. QED  BY <1>1, <1>2, <1>3, <1>4, <1>5

\* A call of output_content that leaves its clone behind.
LEMMA LeavesClone ==
  ASSUME IInv, NEW at, At("content", at), stack' = Front(stack),
         leaked' = leaked + Held, UNCHANGED <<page, clones>>,
         told_to_stop' \in BOOLEAN, told_to_stop' => ret' \in {0, 4}
  PROVE  IInv'
<1>1. page = "output" /\ clones \in Int /\ leaked \in Int /\ Held \in {0, 1}
  BY AtIs
<1>2. /\ clones' \in Int /\ leaked' \in Int
      /\ clones' - leaked' = (clones - leaked) - Held
  BY <1>1
<1>3. QED  BY <1>1, <1>2, Returns

\* Nothing is to be shown.
LEMMA ReturnHiddenStep == ASSUME IInv, ReturnHidden PROVE IInv'
<1>1. At("content", "bounds") /\ ~told_to_stop /\ told_to_stop \in BOOLEAN
  BY NotTold, AtIs DEF ReturnHidden
<1>2. /\ stack' = Front(stack) /\ leaked' = leaked + Held /\ UNCHANGED <<page, clones>>
      /\ told_to_stop' = FALSE
  BY <1>1 DEF ReturnHidden, Return
<1>3. QED  BY <1>1, <1>2, LeavesClone

\* A step to another place of the same call.
LEMMA HitGoes ==
  ASSUME IInv, HitFromBefore \/ TextBeforeHit \/ HitBegins \/ HitText
  PROVE  IInv'
<1>1. PICK at \in {"bounds", "hit", "found"} : At("content", at)
  BY DEF HitFromBefore, TextBeforeHit, InTextWithHits, HitBegins, HitText
<1>2. ~told_to_stop /\ told_to_stop \in BOOLEAN
  BY <1>1, NotTold, AtIs
<1>3. PICK to \in {"ended", "hit", "begins", "ends"} : stack' = Go(to)
  BY DEF HitFromBefore, TextBeforeHit, HitBegins, HitText
<1>4. UNCHANGED <<page, clones, leaked, told_to_stop>>
  BY DEF HitFromBefore, TextBeforeHit, HitBegins, HitText
<1>5. told_to_stop' = FALSE /\ to # "top"
  BY <1>2, <1>4
<1>6. QED  BY <1>1, <1>3, <1>4, <1>5, GoesWhere

\* What a procedure for found text, or the text behind a hit, leads to.
Passes ==
  /\ UNCHANGED <<clones, leaked>> /\ told_to_stop' = told_to_stop
  /\ \/ page' = page /\ \E to \in {"hit", "found"} : stack' = Go(to)
     \/ page' = "undefined"

\* It fails, and leaves the clone.
Leaves ==
  /\ stack' = Front(stack) /\ ret' = 0 /\ leaked' = leaked + Held
  /\ UNCHANGED <<page, clones>> /\ told_to_stop' = TRUE

\* A procedure for found text.
LEMMA FoundProcedureIs ==
  ASSUME HitEnded \/ HitBegun \/ HitEnds, told_to_stop \in BOOLEAN
  PROVE  Passes \/ Leaves
<1>1. CASE HitEnded
  BY <1>1 DEF HitEnded, FoundProcedure, FoundFails, BeforeNextHit, Return, Passes, Leaves
<1>2. CASE HitBegun
  BY <1>2 DEF HitBegun, FoundProcedure, FoundFails, Marked, Return, Passes, Leaves
<1>3. CASE HitEnds
  <2>1. ASSUME NEW l, Unmarked(l)
        PROVE  \/ page' = page /\ stack' = Go("hit")
               \/ page' = "undefined"
    BY <2>1 DEF Unmarked, PassHit
  <2>2. QED
    BY <1>3, <2>1 DEF HitEnds, FoundProcedure, FoundFails, Return, Passes, Leaves
<1>4. QED  BY <1>1, <1>2, <1>3

\* One hit.
LEMMA HitStep ==
  ASSUME IInv, HitEnded \/ HitBegun \/ HitGoesOn \/ HitEnds
  PROVE  IInv'
<1>1. PICK at : At("content", at) /\ (at = "found" \/ at \in FoundPlaces)
  BY DEF HitEnded, HitBegun, HitGoesOn, HitEnds, FoundPlaces
<1>2. ~told_to_stop /\ told_to_stop \in BOOLEAN
  BY <1>1, NotTold, AtIs
<1>3. Passes \/ Leaves
  <2>1. CASE HitGoesOn
    BY <2>1 DEF HitGoesOn, PassHit, Passes
  <2>2. QED  BY <1>2, <2>1, FoundProcedureIs
<1>4. CASE Leaves
  BY <1>1, <1>4, LeavesClone DEF Leaves
<1>5. CASE Passes /\ page' = "undefined"
  BY <1>5 DEF IInv
<1>6. CASE Passes /\ page' # "undefined"
  <2>1. PICK to \in {"hit", "found"} : stack' = Go(to)
    BY <1>6 DEF Passes
  <2>2. UNCHANGED <<page, clones, leaked>> /\ told_to_stop' = FALSE /\ to # "top"
    BY <1>2, <1>6 DEF Passes
  <2>3. QED  BY <1>1, <2>1, <2>2, GoesWhere
<1>7. QED  BY <1>3, <1>4, <1>5, <1>6

\* The children.
LEMMA ChildrenStep == ASSUME IInv, Children PROVE IInv'
<1>1. /\ At("content", "bounds") /\ ~told_to_stop /\ told_to_stop \in BOOLEAN
      /\ IsFrame(Top) /\ Top.fn = "content" /\ page = "output"
      /\ clones \in Int /\ leaked \in Int /\ Held \in {0, 1} /\ Held = One(Top.holds)
  BY NotTold, AtIs DEF Children
<1>2. UNCHANGED <<page, leaked>> /\ told_to_stop' = FALSE
  BY <1>1 DEF Children
<1>3. CASE Child[Top.el] # 0
  <2>1. PICK f : f = [Top EXCEPT !.at = "children"]
    OBVIOUS
  <2>2. IsFrame(f) /\ f.fn = "content" /\ f.at = "children" /\ f.holds = Top.holds
    BY <1>1, <2>1, FrameAt
  <2>3. PICK yes, no : yes = TRUE /\ no = FALSE
    OBVIOUS
  <2>4. PICK g : g = Frame("element", Child[Top.el], yes, no)
    OBVIOUS
  <2>5. IsFrame(g) /\ ~g.holds /\ g.fn = "element"
    BY <2>4, FrameMade
  <2>6. stack' = Call(f, g) /\ UNCHANGED clones
    BY <1>3, <2>1, <2>3, <2>4 DEF Children
  <2>7. PICK h \in {0, 1} : h = Held /\ h = One(f.holds)
    BY <1>1, <2>2
  <2>8. /\ clones' \in Int /\ leaked' \in Int
        /\ clones' - leaked' = ((clones - leaked) - h) + h
    BY <1>1, <1>2, <2>6
  <2>9. Calls(f, g)
    BY <2>2, <2>5 DEF Calls
  <2>10. QED  BY <1>1, <1>2, <2>2, <2>5, <2>6, <2>7, <2>8, <2>9, GoesOnWith
<1>4. CASE Child[Top.el] = 0
  <2>1. stack' = Front(stack) /\ clones' = clones - Held
    BY <1>4 DEF Children, Return
  <2>2. QED  BY <1>1, <1>2, <2>1, CallReturns
<1>5. QED  BY <1>3, <1>4

\* What the children returned is handed on.
LEMMA ChildrenDoneStep == ASSUME IInv, ChildrenDone PROVE IInv'
<1>1. /\ At("content", "children") /\ told_to_stop \in BOOLEAN
      /\ Top.fn = "content" /\ Top.at = "children"
      /\ told_to_stop => Stops(Top, ret)
  BY AtIs DEF ChildrenDone
<1>2. /\ stack' = Front(stack) /\ clones' = clones - Held /\ UNCHANGED <<page, leaked>>
      /\ ret' = ret /\ told_to_stop' = told_to_stop
  BY DEF ChildrenDone, Return, ChildrenRet
<1>3. CASE told_to_stop
  <2>1. ret' \in {0, 4} /\ told_to_stop' \in BOOLEAN
    BY <1>1, <1>2, <1>3 DEF Stops
  <2>2. QED  BY <1>1, <1>2, <2>1, StopReturns
<1>4. CASE ~told_to_stop
  BY <1>1, <1>2, <1>4, CallReturns
<1>5. QED  BY <1>3, <1>4

(***************************************************************************)
(* Spans                                                                   *)
(***************************************************************************)
\* Where a procedure runs, the output goes on.
LEMMA ProcedureRuns ==
  ASSUME IInv, InElement \/ InFound
  PROVE  /\ ~told_to_stop /\ told_to_stop \in BOOLEAN /\ page = "output"
         /\ \E fn, at :
              /\ At(fn, at)
              /\ \/ fn = "element" /\ at \in {"top", "content", "climb"}
                 \/ fn = "content" /\ at \in {"top"} \cup FoundPlaces
                 \/ fn = "span" /\ at \in {"down", "up"}
<1>1. PICK fn, at : /\ At(fn, at)
                    /\ \/ fn = "element" /\ at = "top"
                       \/ fn = "element" /\ at = "content" /\ ~ContentStops
                       \/ fn = "element" /\ at = "climb"
                       \/ fn = "content" /\ at = "top"
                       \/ fn = "content" /\ at \in FoundPlaces
                       \/ fn = "span" /\ at \in {"down", "up"}
  BY DEF InElement, InFound
<1>2. ~told_to_stop /\ told_to_stop \in BOOLEAN /\ page = "output"
  BY <1>1, AtTop, NotTold, AtIs
<1>3. QED  BY <1>1, <1>2

\* What a span puts by.
Saved(c) ==
  [command |-> c, in_search |-> in_search, walk |-> walk, bounds |-> bounds,
   last_el |-> last_el, len |-> len, open |-> open, begun |-> begun,
   upto |-> upto, told |-> told_to_stop, ret |-> ret]

\* A procedure formats a span.
LEMMA FormatSpanStep == ASSUME IInv, FormatSpan PROVE IInv'
<1>1. PICK fn, at : /\ At(fn, at)
                    /\ \/ fn = "element" /\ at \in {"top", "content", "climb"}
                       \/ fn = "content" /\ at \in {"top"} \cup FoundPlaces
                       \/ fn = "span" /\ at \in {"down", "up"}
  BY ProcedureRuns DEF FormatSpan
<1>2. /\ ~told_to_stop /\ told_to_stop \in BOOLEAN
      /\ Top.fn = fn /\ Top.at = at /\ page = "output"
  BY <1>1, ProcedureRuns, AtIs DEF FormatSpan
<1>3. PICK b \in Spans, c \in DOMAIN Commands :
        stack' = Append(stack,
          SpanFrame(b.start_el, IF Commands[c].down THEN "down" ELSE "output", Saved(c)))
  BY DEF FormatSpan, SpanFrame, Saved
<1>4. PICK at2 : at2 = IF Commands[c].down THEN "down" ELSE "output"
  OBVIOUS
<1>10. PICK v : v = Saved(c)
  OBVIOUS
<1>11. v.told \in BOOLEAN /\ ~v.told
  BY <1>2, <1>10 DEF Saved
<1>12. PICK g : g = SpanFrame(b.start_el, at2, v)
  OBVIOUS
<1>5. IsFrame(g) /\ g.fn = "span" /\ ~g.holds
  BY <1>11, <1>12, FrameSpan
<1>6. Calls(Top, g)
  BY <1>1, <1>2, <1>5 DEF Calls
<1>7. stack' = Append(stack, g)
  BY <1>3, <1>4, <1>10, <1>12
<1>8. /\ page' = "output" /\ UNCHANGED <<clones, leaked>> /\ told_to_stop' = FALSE
  BY <1>2 DEF FormatSpan
<1>9. QED  BY <1>1, <1>5, <1>6, <1>7, <1>8, CallsAlso

\* The span is over: its procedure goes on as if nothing had happened.
LEMMA EndSpanStep ==
  ASSUME IInv, NEW at, At("span", at), NEW b, EndSpan(b)
  PROVE  IInv'
<1>1. /\ page = "output" /\ IsFrame(Top) /\ Top.fn = "span"
      /\ clones \in Int /\ leaked \in Int /\ (~Top.holds => Held = 0)
  BY AtIs
<1>2. ~Top.holds /\ Top.saved.told \in BOOLEAN /\ ~Top.saved.told
  BY <1>1 DEF IsFrame
<1>3. /\ stack' = Front(stack) /\ told_to_stop' = Top.saved.told
      /\ UNCHANGED <<page, clones, leaked>>
  BY DEF EndSpan
<1>4. clones' \in Int /\ leaked' \in Int /\ clones' - leaked' = (clones - leaked) - Held
  BY <1>1, <1>2, <1>3
<1>5. ~told_to_stop' /\ told_to_stop' \in BOOLEAN
  BY <1>2, <1>3
<1>6. QED  BY <1>1, <1>3, <1>4, <1>5, Returns

\* The elements above the span.
LEMMA WalkStep == ASSUME IInv, WalkDown \/ WalkDownDone \/ WalkUp PROVE IInv'
<1>1. CASE WalkDown
  <2>1. At("span", "down") /\ ~told_to_stop /\ told_to_stop \in BOOLEAN /\ page = "output"
    BY <1>1, NotTold, AtIs DEF WalkDown
  <2>2. UNCHANGED <<page, stack, clones, leaked, told_to_stop>>
    BY <1>1 DEF WalkDown
  <2>3. QED  BY <2>1, <2>2, Stays
<1>2. CASE WalkDownDone
  <2>1. At("span", "down") /\ ~told_to_stop /\ told_to_stop \in BOOLEAN
    BY <1>2, NotTold, AtIs DEF WalkDownDone
  <2>2. UNCHANGED <<page, clones, leaked>> /\ told_to_stop' = FALSE /\ stack' = Go("output")
    BY <1>2, <2>1 DEF WalkDownDone
  <2>3. QED  BY <2>1, <2>2, GoesWhere
<1>3. CASE WalkUp
  <2>1. At("span", "up") /\ ~told_to_stop /\ told_to_stop \in BOOLEAN /\ page = "output"
    BY <1>3, NotTold, AtIs DEF WalkUp
  <2>2. UNCHANGED <<page, stack, clones, leaked, told_to_stop>>
    BY <1>3 DEF WalkUp
  <2>3. QED  BY <2>1, <2>2, Stays
<1>4. QED  BY <1>1, <1>2, <1>3

\* The output of the span begins.
LEMMA OutputSpanStep == ASSUME IInv, OutputSpan PROVE IInv'
<1>1. /\ At("span", "output") /\ ~told_to_stop /\ told_to_stop \in BOOLEAN
      /\ page = "output" /\ Top.fn = "span" /\ Top.at = "output"
  BY NotTold, AtIs DEF OutputSpan
<1>2. /\ UNCHANGED <<page, clones, leaked, told_to_stop>>
      /\ stack' = Append(stack, Frame("element", bounds.start_el, TRUE, TRUE))
  BY DEF OutputSpan
<1>3. PICK yes : yes = TRUE
  OBVIOUS
<1>4. PICK g : g = Frame("element", bounds.start_el, yes, yes)
  OBVIOUS
<1>5. IsFrame(g) /\ ~g.holds /\ g.fn = "element"
  BY <1>4, FrameMade
<1>6. Calls(Top, g)
  BY <1>1, <1>5 DEF Calls
<1>7. stack' = Append(stack, g)
  BY <1>2, <1>3, <1>4
<1>8. QED  BY <1>1, <1>2, <1>5, <1>6, <1>7, CallsAlso

\* It has ended.
LEMMA SpanOutputStep == ASSUME IInv, SpanOutput PROVE IInv'
<1>1. /\ At("span", "output") /\ told_to_stop \in BOOLEAN
      /\ page = "output" /\ IsFrame(Top) /\ Top.fn = "span"
      /\ clones \in Int /\ leaked \in Int /\ Held \in {0, 1} /\ Held = One(Top.holds)
  BY AtIs DEF SpanOutput
<1>2. CASE ret = 0 \/ ~Commands[Top.saved.command].up
  <2>1. PICK b : EndSpan(b)
    BY <1>2 DEF SpanOutput
  <2>2. QED  BY <1>1, <2>1, EndSpanStep
<1>3. CASE ~(ret = 0 \/ ~Commands[Top.saved.command].up)
  <2>1. stack' = Go("up") /\ UNCHANGED <<page, clones, leaked>> /\ told_to_stop' = FALSE
    BY <1>3 DEF SpanOutput
  <2>2. PICK f : f = [Top EXCEPT !.at = "up"]
    OBVIOUS
  <2>3. IsFrame(f) /\ f.fn = "span" /\ f.at = "up" /\ f.holds = Top.holds
    BY <1>1, <2>2, FrameAt
  <2>4. stack' = Replace(f)
    BY <1>1, <2>1, <2>2, GoIs
  <2>5. PICK h \in {0, 1} : h = Held /\ h = One(f.holds)
    BY <1>1, <2>3
  <2>6. /\ clones' \in Int /\ leaked' \in Int
        /\ clones' - leaked' = ((clones - leaked) - h) + h
    BY <1>1, <2>1
  <2>7. QED  BY <1>1, <2>1, <2>3, <2>4, <2>5, <2>6, GoesOn
<1>4. QED  BY <1>2, <1>3

\* A fault, or all is done.
LEMMA SpanEndsStep == ASSUME IInv, SpanFails \/ WalkUpDone PROVE IInv'
<1>1. PICK at, b : At("span", at) /\ EndSpan(b)
  BY DEF SpanFails, WalkUpDone
<1>2. QED  BY <1>1, EndSpanStep

(***************************************************************************)
(* The page                                                                *)
(***************************************************************************)
\* No call is going on and no clone is held.
LEMMA EmptyStack == IsStack(<<>>) /\ Cardinality(HoldersIn(<<>>)) = 0
<1>1. IsStack(<<>>)
  BY SequenceIsList DEF IsStack, IsList
<1>2. HoldersIn(<<>>) = {}
  BY DEF HoldersIn
<1>3. QED  BY <1>1, <1>2, FS_EmptySet

\* The first call.
LEMMA StartPageStep == ASSUME IInv, StartPage PROVE IInv'
<1>1. page = "begin" /\ stack = <<>> /\ leaked = 0 /\ told_to_stop = FALSE
  BY DEF StartPage, IInv
<1>2. PICK el : stack' = <<[Frame("element", el, outputSiblings, outputRight)
                              EXCEPT !.hide = hide']>>
  BY DEF StartPage
<1>0. PICK h : h = hide'
  OBVIOUS
<1>3. PICK g : g = FrameOf(el, outputSiblings, outputRight, h)
  OBVIOUS
<1>4. IsFrame(g) /\ ~g.holds /\ g.fn = "element"
  BY <1>3, FirstFrame
<1>5. stack' = Append(<<>>, g)
  <2>1. stack' = <<g>>
    BY <1>0, <1>2, <1>3 DEF FrameOf
  <2>2. QED  BY <2>1
<1>6. IsStack(stack') /\ Cardinality(HoldersIn(stack')) = 0
  <2>1. PICK s : s = <<>>
    OBVIOUS
  <2>2. IsStack(s) /\ Cardinality(HoldersIn(s)) = 0
    BY <2>1, EmptyStack
  <2>3. QED  BY <1>4, <1>5, <2>1, <2>2, StackPushed
<1>7. page' = "output" /\ clones' = 1 /\ leaked' = 0 /\ told_to_stop' = FALSE
  BY <1>1 DEF StartPage
<1>8. clones' = 1 + Cardinality(HoldersIn(stack')) + leaked'
  BY <1>6, <1>7
<1>9. clones' \in Int /\ leaked' \in Int
  BY <1>7
<1>12. told_to_stop' \in BOOLEAN
  BY <1>7
<1>13. ~told_to_stop'
  BY <1>7, Zenon
<1>10. page' = "output" /\ IsStack(stack')
  BY <1>6, <1>7
<1>11. QED  BY <1>8, <1>9, <1>10, <1>12, <1>13, IInvOutput

\* Before and after the output.
LEMMA PageStep == ASSUME IInv, make_reader_file PROVE IInv'
<1>1. CASE get_find_sg_text
  BY <1>1 DEF get_find_sg_text, IInv
<1>2. CASE NoPage
  BY <1>2 DEF NoPage, IInv
<1>3. CASE EndPage
  BY <1>3 DEF EndPage, IInv
<1>4. QED  BY <1>1, <1>2, <1>3, StartPageStep DEF make_reader_file

\* No step breaks the invariant.
LEMMA NextIInv == ASSUME IInv, [Next]_vars PROVE IInv'
<1>1. CASE output_element
  BY <1>1, ElementFailsStep, BeginStep, EndSkippedStep, EndStep, NextElementStep,
     ClimbFailsStep, ClimbStep, GoOnStep, JumpStep, CloneRefusedStep DEF output_element
<1>2. CASE output_content
  BY <1>2, ContentFailsStep, ContentStep, HiddenStep, HiddenHitEndedStep, ContentReturns,
     ReturnHiddenStep, HitGoes, HitStep, ChildrenStep, ChildrenDoneStep DEF output_content
<1>3. CASE span
  BY <1>3, FormatSpanStep, EndSpanStep, WalkStep, OutputSpanStep, SpanOutputStep,
     SpanEndsStep DEF span
<1>4. CASE UNCHANGED vars
  <2>1. UNCHANGED <<page, stack, ret, clones, leaked, told_to_stop>>
    BY <1>4 DEF vars
  <2>2. QED
    BY <2>1 DEF IInv, IsStack, IsList, Numbers, Stopping, ClonesCounted, Holders, Top
<1>5. QED  BY <1>1, <1>2, <1>3, <1>4, PageStep DEF Next

(***************************************************************************)
(* The theorems                                                            *)
(***************************************************************************)
\* The invariant holds.
THEOREM Invariance == Spec => []IInv
<1>1. Init => IInv
  BY DEF Init, IInv
<1>2. IInv /\ [Next]_vars => IInv'
  BY NextIInv
<1>3. QED  BY <1>1, <1>2, PTL DEF Spec

\* Every clone that is in use is held by one of the calls or by
\* make_reader_file, or was left behind by startEl or by hide: none is lost on
\* the way out of any other call, and none is disposed of twice.
THEOREM ClonesAccounted == Spec => []ClonesDisposed
<1>1. IInv => ClonesDisposed
  BY DEF IInv, ClonesCounted, ClonesDisposed
<1>2. QED  BY <1>1, Invariance, PTL

(***************************************************************************)
(* Nothing is begun after the output was told to stop                      *)
(***************************************************************************)
\* The end of a span changes the depth.
LEMMA EndSpanDepth ==
  ASSUME IInv, NEW at, At("span", at), NEW b, EndSpan(b)
  PROVE  Depth' # Depth
<1>1. /\ stack # <<>> /\ Top = Last(stack) /\ IsStack(stack) /\ Top.fn = "span"
  BY AtIs
<1>2. stack' = Front(stack)
  BY DEF EndSpan
<1>3. PICK n \in Nat : n = Cardinality(SpansIn(stack))
  BY <1>1, StackPopped
<1>4. PICK m \in Nat : m = Cardinality(SpansIn(stack'))
  BY <1>1, <1>2, StackPopped
<1>5. n = m + 1
  <2>1. One(Last(stack).fn = "span") = 1
    BY <1>1 DEF One
  <2>2. QED  BY <1>1, <1>2, <1>3, <1>4, <2>1, StackPopped
<1>6. Depth = n /\ Depth' = m
  BY <1>3, <1>4 DEF Depth, SpansIn
<1>7. QED  BY <1>5, <1>6

\* An element is begun, or the order of the book begins anew, only while the
\* output goes on; otherwise only the end of a span changes begun.
LEMMA BegunStep ==
  ASSUME IInv, [Next]_vars, told_to_stop, Depth' = Depth
  PROVE  begun' = begun
<1>1. ~Begin
  BY AtTop DEF Begin
<1>2. ~Jump
  BY NotTold DEF Jump
<1>3. ~FormatSpan
  BY ProcedureRuns DEF FormatSpan
<1>4. ASSUME NEW at, At("span", at), NEW b, EndSpan(b) PROVE FALSE
  BY <1>4, EndSpanDepth
<1>5. CASE output_element
  BY <1>1, <1>2, <1>5
     DEF output_element, ElementFails, EndSkipped, EndFails, End, NextElement,
         ClimbFails, Climb, GoOn, CloneRefused
<1>6. CASE output_content
  BY <1>6
     DEF output_content, ContentFails, Content, Hidden, HiddenHit, HiddenHitEnded,
         StopAtBounds, ReturnHidden, PlainText, PlainTextFails, HitFromBefore,
         HitEnded, TextBeforeHit, HitBegins, HitBegun, HitText, HitGoesOn, HitEnds,
         FoundProcedure, FoundCloneFails, HitsDone, Children, ChildrenDone
<1>7. CASE span
  <2>1. ~SpanFails
    BY <1>4 DEF SpanFails
  <2>2. ~WalkUpDone
    BY <1>4 DEF WalkUpDone
  <2>3. CASE SpanOutput
    <3>1. CASE ret = 0 \/ ~Commands[Top.saved.command].up
      BY <1>4, <2>3, <3>1 DEF SpanOutput
    <3>2. CASE ~(ret = 0 \/ ~Commands[Top.saved.command].up)
      BY <2>3, <3>2 DEF SpanOutput
    <3>3. QED  BY <3>1, <3>2
  <2>4. QED  BY <1>3, <1>7, <2>1, <2>2, <2>3 DEF span, WalkDown, WalkDownDone, OutputSpan, WalkUp
<1>8. CASE make_reader_file
  BY <1>8 DEF make_reader_file, get_find_sg_text, StartPage, NoPage, EndPage
<1>9. CASE UNCHANGED vars
  BY <1>9 DEF vars
<1>10. QED  BY <1>5, <1>6, <1>7, <1>8, <1>9 DEF Next

\* After finish, an error, the end of a span or too much output nothing more is
\* begun before the page, or the span, is over: whatever calls are on the stack
\* hand on the 4 or the 0 that they are returned.
THEOREM NothingBegunAfterStop == Spec => StopsWhenTold
<1>1. IInv /\ [Next]_vars => (told_to_stop /\ Depth' = Depth => begun' = begun)
  BY BegunStep
<1>2. QED  BY <1>1, Invariance, PTL DEF Spec, StopsWhenTold

(***************************************************************************)
(* The search cursor: what is saved for a span comes from before           *)
(***************************************************************************)
\* The spans of stack' are those of stack, or fewer.
SpansKept ==
  \A k \in DOMAIN stack' : IsSpan(stack'[k]) =>
    /\ k \in DOMAIN stack /\ IsSpan(stack[k]) /\ stack'[k].saved = stack[k].saved
    /\ k > 1 => stack'[k - 1] = stack[k - 1]

\* The output is at the hits of a text, or where its children are hidden.
HitPlaces == {"ended", "hit", "begins", "found", "ends"}
HiddenPlaces == {"hidden", "endsCurrent", "endsPrevious"}
AtHits == stack # <<>> /\ Top.fn = "content" /\ Top.at \in HitPlaces
AtHidden == stack # <<>> /\ Top.fn = "content" /\ Top.at \in HiddenPlaces
InText == AtHits \/ AtHidden

\* They are if no call begins or ends, ...
LEMMA KeptStack == ASSUME stack' = stack PROVE SpansKept
BY DEF SpansKept

\* ... if a call returns, ...
LEMMA KeptFront ==
  ASSUME IInv, NEW fn, NEW at, At(fn, at), stack' = Front(stack)
  PROVE  SpansKept /\ (fn # "span" => ~InText')
<1>1. stack # <<>> /\ IsStack(stack) /\ Last(stack).fn = fn /\ IsFrame(Last(stack))
  BY AtIs
<1>2. stack' # <<>> => Calls(Last(stack'), Last(stack))
  BY <1>1, StackPopped
<1>6. PICK m \in Nat :
        /\ DOMAIN stack = 1 .. m + 1 /\ DOMAIN stack' = 1 .. m
        /\ \A k \in 1 .. m : stack'[k] = stack[k]
  BY <1>1, Popped DEF IsStack
<1>7. \A k \in 1 .. m : k \in 1 .. m + 1 /\ (k > 1 => k - 1 \in 1 .. m)
  OBVIOUS
<1>3. SpansKept
  BY <1>6, <1>7 DEF SpansKept
<1>4. fn # "span" => ~InText'
  BY <1>1, <1>2 DEF InText, AtHits, AtHidden, HitPlaces, HiddenPlaces, Top, Calls, IsFrame
<1>5. QED  BY <1>3, <1>4

\* ... if a call of an element or its content goes on, ...
LEMMA KeptReplace ==
  ASSUME IInv, NEW fn, NEW at, At(fn, at), NEW f, IsFrame(f), f.fn = fn,
         fn = "span" => f.saved = Top.saved, stack' = Replace(f)
  PROVE  SpansKept /\ stack' # <<>> /\ Top' = f
<1>1. stack # <<>> /\ IsStack(stack) /\ Top = Last(stack) /\ Top.fn = fn
  BY AtIs
<1>2. Replaces(stack', stack, f)
  BY DEF Replace, Replaces
<1>3. PICK m \in Nat :
        /\ DOMAIN stack = 1 .. m + 1 /\ Last(stack) = stack[m + 1]
        /\ stack' # <<>> /\ Len(stack') = m + 1 /\ DOMAIN stack' = 1 .. m + 1
        /\ \A k \in 1 .. m : stack'[k] = stack[k]
        /\ stack'[m + 1] = f
  BY <1>1, <1>2, LastReplaced DEF IsStack
<1>4. IsSpan(f) => IsSpan(stack[m + 1]) /\ f.saved = stack[m + 1].saved
  BY <1>1, <1>3 DEF IsSpan
<1>5. \A k \in 1 .. m + 1 : (k \in 1 .. m \/ k = m + 1) /\ (k > 1 => k - 1 \in 1 .. m)
  OBVIOUS
<1>6. SpansKept
  BY <1>3, <1>4, <1>5 DEF SpansKept
<1>7. Top' = f
  BY <1>3 DEF Top, Last
<1>8. QED  BY <1>3, <1>6, <1>7

\* ... and is somewhere else, ...
LEMMA KeptGo ==
  ASSUME IInv, NEW fn, NEW at, At(fn, at), NEW to, to # "top", stack' = Go(to)
  PROVE  /\ SpansKept /\ stack' # <<>> /\ Top' = [Top EXCEPT !.at = to]
         /\ Top'.fn = fn /\ Top'.at = to /\ Top'.el = Top.el
<1>1. IsFrame(Top) /\ Top.fn = fn
  BY AtIs
<1>2. PICK f : f = [Top EXCEPT !.at = to]
  OBVIOUS
<1>3. IsFrame(f) /\ f.fn = fn /\ f.saved = Top.saved
  BY <1>1, <1>2, FrameAt
<1>4. f.at = to /\ f.el = Top.el
  BY <1>1, <1>2 DEF IsFrame, Fields
<1>5. stack' = Replace(f)
  BY <1>2, GoIs
<1>6. SpansKept /\ stack' # <<>> /\ Top' = f
  BY <1>3, <1>5, KeptReplace
<1>7. QED  BY <1>2, <1>3, <1>4, <1>6

\* ... or if it calls.
LEMMA KeptCall ==
  ASSUME IInv, NEW fn, NEW at, At(fn, at), fn # "span",
         NEW f, IsFrame(f), f.fn = fn, NEW g, IsFrame(g), ~g.holds, g.fn # "span",
         Calls(f, g), stack' = Call(f, g)
  PROVE  SpansKept /\ stack' # <<>> /\ Top' = g
<1>1. stack # <<>> /\ IsStack(stack) /\ Top = Last(stack) /\ Top.fn = fn
  BY AtIs
<1>2. PICK t : Replaces(t, stack, f)
  BY DEF Replaces
<1>3. stack' = Append(t, g)
  BY <1>2 DEF Replace, Replaces, Call
<1>4. PICK m \in Nat :
        /\ DOMAIN stack = 1 .. m + 1
        /\ IsList(t) /\ Len(t) = m + 1 /\ DOMAIN t = 1 .. m + 1
        /\ \A k \in 1 .. m : t[k] = stack[k]
        /\ t[m + 1] = f
  BY <1>1, <1>2, LastReplaced DEF IsStack
<1>5. /\ stack' # <<>> /\ Len(stack') = (m + 1) + 1 /\ DOMAIN stack' = 1 .. (m + 1) + 1
      /\ \A k \in 1 .. m + 1 : stack'[k] = t[k]
      /\ stack'[(m + 1) + 1] = g
  BY <1>3, <1>4, Pushed
<1>6. ~IsSpan(f) /\ ~IsSpan(g)
  BY DEF IsSpan
<1>7. \A k \in 1 .. (m + 1) + 1 :
        k \in 1 .. m \/ k = m + 1 \/ k = (m + 1) + 1
  OBVIOUS
<1>8. \A k \in 1 .. m : /\ k \in 1 .. m + 1 /\ stack'[k] = stack[k]
                        /\ k > 1 => k - 1 \in 1 .. m
  BY <1>4, <1>5
<1>9. stack'[m + 1] = f
  <2>1. m + 1 \in 1 .. m + 1
    OBVIOUS
  <2>2. QED  BY <1>4, <1>5, <2>1
<1>10. SpansKept
  BY <1>4, <1>5, <1>6, <1>7, <1>8, <1>9 DEF SpansKept
<1>11. Top' = g
  BY <1>5 DEF Top, Last
<1>12. QED  BY <1>5, <1>10, <1>11

\* Each step of output_element does.
LEMMA ElementKept ==
  ASSUME IInv, output_element
  PROVE  SpansKept /\ ~InText'
<1>0. ASSUME NEW f, stack' # <<>>, Top' = f, f.fn = "element" \/ f.at = "top"
      PROVE  ~InText'
  BY <1>0 DEF InText, AtHits, AtHidden, HitPlaces, HiddenPlaces
<1>1. CASE ElementFails \/ EndSkipped \/ EndFails \/ ClimbFails
  BY <1>1, KeptFront DEF ElementFails, EndSkipped, EndFails, ClimbFails, Return
<1>2. CASE Begin
  <2>1. At("element", "top") /\ IsFrame(Top) /\ Top.fn = "element"
    BY <1>2, AtTop DEF Begin
  <2>2. CASE stack' = Front(stack)
    BY <2>1, <2>2, KeptFront
  <2>3. CASE \E h, n : stack' = Replace(Begun(Top, n, h, "next"))
    <3>1. PICK h, n : stack' = Replace(Begun(Top, n, h, "next"))
      BY <2>3
    <3>2. PICK f : f = Begun(Top, n, h, "next")
      OBVIOUS
    <3>3. IsFrame(f) /\ f.fn = "element"
      BY <2>1, <3>2, FrameBegun
    <3>4. QED  BY <1>0, <2>1, <3>1, <3>2, <3>3, KeptReplace
  <2>4. CASE \E h, n : stack' = Call(Begun(Top, n, h, "content"),
                                    Frame("content", Top.el, FALSE, FALSE))
    <3>1. PICK h, n : stack' = Call(Begun(Top, n, h, "content"),
                                    Frame("content", Top.el, FALSE, FALSE))
      BY <2>4
    <3>2. PICK f : f = Begun(Top, n, h, "content")
      OBVIOUS
    <3>3. IsFrame(f) /\ f.fn = "element" /\ f.at = "content"
      BY <2>1, <3>2, FrameBegun
    <3>4. PICK no : no = FALSE
      OBVIOUS
    <3>5. PICK g : g = Frame("content", Top.el, no, no)
      OBVIOUS
    <3>6. IsFrame(g) /\ ~g.holds /\ g.fn = "content" /\ g.at = "top"
      BY <3>5, FrameMade
    <3>7. Calls(f, g) /\ stack' = Call(f, g)
      BY <3>1, <3>2, <3>3, <3>4, <3>5, <3>6 DEF Calls
    <3>8. QED  BY <1>0, <2>1, <3>3, <3>6, <3>7, KeptCall
  <2>5. PICK s : \/ StopsAfterStart(s) /\ stack' = Front(stack)
                 \/ ~StopsAfterStart(s) /\ Kind[Top.el] = "empty"
                    /\ stack' = Replace(Begun(Top, Rsib[Top.el], hide, "next"))
                 \/ stack' = Call(Begun(Top, Rsib[Top.el], hide, "content"),
                                  Frame("content", Top.el, FALSE, FALSE))
    BY <1>2 DEF Begin, Return, Begun
  <2>6. QED  BY <2>2, <2>3, <2>4, <2>5
<1>3. CASE End
  <2>1. At("element", "content")
    BY <1>3 DEF End
  <2>2. stack' = Front(stack) \/ stack' = Go("next")
    BY <1>3 DEF End, Return
  <2>3. CASE stack' = Go("next")
    <3>1. SpansKept /\ stack' # <<>> /\ Top'.fn = "element"
      BY <2>1, <2>3, KeptGo
    <3>2. QED  BY <1>0, <3>1
  <2>4. QED  BY <2>1, <2>2, <2>3, KeptFront
<1>4. CASE NextElement
  <2>1. At("element", "next")
    BY <1>4 DEF NextElement
  <2>2. PICK to \in {"climb", "jump"} : stack' = Go(to)
    BY <1>4 DEF NextElement
  <2>3. SpansKept /\ stack' # <<>> /\ Top'.fn = "element"
    BY <2>1, <2>2, KeptGo
  <2>4. QED  BY <1>0, <2>3
<1>5. CASE Climb
  <2>1. At("element", "climb") /\ IsFrame(Top) /\ Top.fn = "element"
    BY <1>5, AtIs DEF Climb
  <2>2. \/ stack' = Front(stack)
        \/ \E n : \E to \in {"climb", "jump"} : stack' = Replace(Climbed(Top, n, to))
    BY <1>5 DEF Climb, Return, Climbed
  <2>3. CASE \E n : \E to \in {"climb", "jump"} : stack' = Replace(Climbed(Top, n, to))
    <3>1. PICK n : \E to \in {"climb", "jump"} : stack' = Replace(Climbed(Top, n, to))
      BY <2>3
    <3>2. PICK to \in {"climb", "jump"} : stack' = Replace(Climbed(Top, n, to))
      BY <3>1
    <3>3. PICK f : f = Climbed(Top, n, to)
      OBVIOUS
    <3>4. IsFrame(f) /\ f.fn = "element"
      BY <2>1, <3>2, <3>3, FrameClimbed
    <3>5. QED  BY <1>0, <2>1, <3>2, <3>3, <3>4, KeptReplace
  <2>4. QED  BY <2>1, <2>2, <2>3, KeptFront
<1>6. CASE GoOn \/ Jump
  <2>1. At("element", "jump") /\ IsFrame(Top) /\ Top.fn = "element"
    BY <1>6, AtIs DEF GoOn, Jump
  <2>2. stack' = Front(stack) \/ \E el : stack' = Replace(Onward(Top, el))
    BY <1>6 DEF GoOn, Jump, Return, Onward
  <2>3. CASE \E el : stack' = Replace(Onward(Top, el))
    <3>1. PICK el : stack' = Replace(Onward(Top, el))
      BY <2>3
    <3>2. PICK f : f = Onward(Top, el)
      OBVIOUS
    <3>3. IsFrame(f) /\ f.fn = "element"
      BY <2>1, <3>2, FrameNext, ZenonT(40) DEF Onward
    <3>4. QED  BY <1>0, <2>1, <3>1, <3>2, <3>3, KeptReplace
  <2>4. QED  BY <2>1, <2>2, <2>3, KeptFront
<1>7. CASE CloneRefused
  <2>1. stack' = stack /\ (At("element", "climb") \/ At("element", "jump"))
    BY <1>7 DEF CloneRefused
  <2>2. ~InText'
    BY <2>1 DEF InText, AtHits, AtHidden, Top, At
  <2>3. QED  BY <2>1, <2>2, KeptStack
<1>8. QED  BY <1>1, <1>2, <1>3, <1>4, <1>5, <1>6, <1>7 DEF output_element

\* The frame of a content that goes on, with a clone or without.
LEMMA KeptHolding ==
  ASSUME IInv, NEW at, At("content", at), NEW to, to # "top", NEW h \in BOOLEAN,
         stack' = Replace(Holding(Top, to, h))
  PROVE  /\ SpansKept /\ stack' # <<>> /\ Top'.fn = "content" /\ Top'.at = to
         /\ Top'.el = Top.el
<1>1. IsFrame(Top) /\ Top.fn = "content"
  BY AtIs
<1>2. PICK f : f = Holding(Top, to, h)
  OBVIOUS
<1>3. Top.fn # "span"
  BY <1>1
<1>4. IsFrame(f) /\ f.fn = Top.fn
  BY <1>1, <1>2, <1>3, FrameHolds
<1>5. f.fn = "content" /\ stack' = Replace(f)
  BY <1>1, <1>2, <1>4
<1>6. f.at = to /\ f.el = Top.el
  BY <1>1, <1>2 DEF Holding, IsFrame, Fields
<1>7. SpansKept /\ stack' # <<>> /\ Top' = f
  BY <1>4, <1>5, KeptReplace
<1>8. QED  BY <1>5, <1>6, <1>7

\* Where a procedure for found text, or the text behind a hit, leads to.
LEMMA HitLeads ==
  ASSUME HitEnded \/ HitBegun \/ HitGoesOn \/ HitEnds
  PROVE  /\ UNCHANGED <<begun, last_el>>
         /\ \/ /\ stack' = Front(stack) /\ UNCHANGED <<cursor, page>>
               /\ told_to_stop' = TRUE
            \/ stack' = stack /\ page' = "undefined"
            \/ page' = page /\ \E to \in {"hit", "found"} : stack' = Go(to)
<1>1. CASE HitEnded
  BY <1>1 DEF HitEnded, FoundProcedure, FoundFails, BeforeNextHit, Return
<1>2. CASE HitBegun
  BY <1>2 DEF HitBegun, FoundProcedure, FoundFails, Marked, Return
<1>3. ASSUME NEW l, PassHit(l)
      PROVE  \/ stack' = stack /\ page' = "undefined"
             \/ stack' = Go("hit") /\ page' = page
  BY <1>3 DEF PassHit
<1>4. CASE HitGoesOn
  BY <1>3, <1>4 DEF HitGoesOn
<1>5. CASE HitEnds
  BY <1>3, <1>5 DEF HitEnds, FoundProcedure, FoundFails, Unmarked, Return
<1>6. QED  BY <1>1, <1>2, <1>4, <1>5

\* As does each step of output_content.
LEMMA ContentKept ==
  ASSUME IInv, output_content
  PROVE  SpansKept
<1>1. CASE \/ ContentFails \/ StopAtBounds \/ ReturnHidden \/ PlainText \/ PlainTextFails
           \/ FoundCloneFails \/ HitsDone \/ ChildrenDone
  <2>1. stack' = Front(stack) /\ \E at : At("content", at)
    BY <1>1 DEF ContentFails, StopAtBounds, ReturnHidden, PlainText, PlainTextFails,
         FoundCloneFails, InTextWithHits, HitsDone, ChildrenDone, Return
  <2>2. QED  BY <2>1, KeptFront
<1>2. CASE Content
  <2>1. At("content", "top")
    BY <1>2 DEF Content
  <2>2. PICK yes \in BOOLEAN : yes = TRUE
    OBVIOUS
  <2>3. \/ stack' = Front(stack)
        \/ \E to \in {"hidden", "bounds"} : stack' = Replace(Holding(Top, to, yes))
    BY <1>2, <2>2 DEF Content, Return, Holding
  <2>4. CASE \E to \in {"hidden", "bounds"} : stack' = Replace(Holding(Top, to, yes))
    <3>1. PICK to \in {"hidden", "bounds"} : stack' = Replace(Holding(Top, to, yes))
      BY <2>4
    <3>2. QED  BY <2>1, <3>1, KeptHolding
  <2>5. QED  BY <2>1, <2>3, <2>4, KeptFront
<1>3. CASE Hidden \/ HiddenHitEnded
  <2>1. PICK at : At("content", at)
    BY <1>3 DEF Hidden, HiddenHitEnded
  <2>2. PICK no \in BOOLEAN : no = FALSE
    OBVIOUS
  <2>3. stack' = Front(stack) \/ stack' = Replace(Holding(Top, "bounds", no))
    BY <1>3, <2>2 DEF Hidden, HiddenHitEnded, HiddenAway, Return, Holding
  <2>4. QED  BY <2>1, <2>3, KeptFront, KeptHolding
<1>4. CASE HiddenHit \/ HitFromBefore \/ TextBeforeHit \/ HitBegins \/ HitText
  <2>1. PICK at : At("content", at)
    BY <1>4 DEF HiddenHit, HitFromBefore, TextBeforeHit, InTextWithHits, HitBegins, HitText
  <2>2. PICK to \in HitPlaces \cup HiddenPlaces : stack' = Go(to)
    BY <1>4 DEF HiddenHit, HitFromBefore, TextBeforeHit, HitBegins, HitText, HitPlaces,
         HiddenPlaces
  <2>3. to # "top"
    BY DEF HitPlaces, HiddenPlaces
  <2>4. QED  BY <2>1, <2>2, <2>3, KeptGo
<1>5. CASE HitEnded \/ HitBegun \/ HitGoesOn \/ HitEnds
  <2>1. PICK at : At("content", at)
    BY <1>5 DEF HitEnded, HitBegun, HitGoesOn, HitEnds
  <2>2. \/ stack' = Front(stack) \/ stack' = stack
        \/ \E to \in {"hit", "found"} : stack' = Go(to)
    BY <1>5, HitLeads
  <2>3. QED  BY <2>1, <2>2, KeptFront, KeptStack, KeptGo
<1>6. CASE Children
  <2>1. At("content", "bounds") /\ IsFrame(Top) /\ Top.fn = "content"
    BY <1>6, AtIs DEF Children
  <2>2. CASE Child[Top.el] = 0
    <3>1. stack' = Front(stack)
      BY <1>6, <2>2 DEF Children, Return
    <3>2. QED  BY <2>1, <3>1, KeptFront
  <2>3. CASE Child[Top.el] # 0
    <3>1. PICK f : f = [Top EXCEPT !.at = "children"]
      OBVIOUS
    <3>2. IsFrame(f) /\ f.fn = "content" /\ f.at = "children"
      BY <2>1, <3>1, FrameAt
    <3>3. PICK yes, no : yes = TRUE /\ no = FALSE
      OBVIOUS
    <3>4. PICK g : g = Frame("element", Child[Top.el], yes, no)
      OBVIOUS
    <3>5. IsFrame(g) /\ ~g.holds /\ g.fn = "element"
      BY <3>4, FrameMade
    <3>6. stack' = Call(f, g)
      BY <1>6, <2>3, <3>1, <3>3, <3>4 DEF Children
    <3>7. Calls(f, g)
      BY <3>2, <3>5 DEF Calls
    <3>8. QED  BY <2>1, <3>2, <3>5, <3>6, <3>7, KeptCall
  <2>4. QED  BY <2>2, <2>3
<1>7. QED  BY <1>1, <1>2, <1>3, <1>4, <1>5, <1>6 DEF output_content

(***************************************************************************)
(* The search cursor through each step                                     *)
(***************************************************************************)
\* The texts found are a sequence of hits.
LEMMA FoundLength == ASSUME texts = <<>> \/ texts \in Searches PROVE Len(texts) \in Nat
<1>1. CASE texts = <<>>
  BY <1>1
<1>2. CASE texts \in Searches
  BY <1>2, SearchesAssumption
<1>3. QED  BY <1>1, <1>2

\* Also while the cursor is where it should be.
LEMMA TextsLength == ASSUME CursorInv PROVE Len(texts) \in Nat
BY FoundLength DEF CursorInv

\* A step that leaves the cursor alone.
LEMMA CursorStays ==
  ASSUME CursorInv, UNCHANGED cursor, page' = "output" => page = "output" /\ SpansKept
  PROVE  CursorInv'
<1>1. UNCHANGED <<in_search, texts, done, hit>>
  BY DEF cursor
<1>2. ASSUME page' = "output"
      PROVE  /\ in_search' => OnHit'
             /\ \A k \in DOMAIN stack' : IsSpan(stack'[k]) =>
                  /\ stack'[k].saved.in_search \in BOOLEAN
                  /\ stack'[k].saved.in_search => OnHit'
  <2>1. OnHit' <=> OnHit
    BY <1>1 DEF OnHit
  <2>2. in_search' => OnHit'
    BY <1>1, <1>2, <2>1 DEF CursorInv
  <2>3. ASSUME NEW k \in DOMAIN stack', IsSpan(stack'[k])
        PROVE  /\ stack'[k].saved.in_search \in BOOLEAN
               /\ stack'[k].saved.in_search => OnHit'
    <3>1. k \in DOMAIN stack /\ IsSpan(stack[k]) /\ stack'[k].saved = stack[k].saved
      BY <1>2, <2>3 DEF SpansKept
    <3>2. /\ stack[k].saved.in_search \in BOOLEAN
          /\ stack[k].saved.in_search => OnHit
      BY <1>2, <3>1 DEF CursorInv
    <3>3. QED  BY <2>1, <3>1, <3>2
  <2>4. QED  BY <2>2, <2>3
<1>3. in_search' \in BOOLEAN /\ done' \in Nat /\ (texts' = <<>> \/ texts' \in Searches)
  BY <1>1 DEF CursorInv
<1>4. QED  BY <1>2, <1>3 DEF CursorInv

\* Where a span is formatted, the depth is not 0.
LEMMA SpanHasDepth ==
  ASSUME NEW s, IsStack(s), NEW k \in DOMAIN s, IsSpan(s[k])
  PROVE  Cardinality(SpansIn(s)) > 0
<1>1. PICK n \in Nat : DOMAIN s = 1 .. n
  <2>1. PICK S : s \in Seq(S)
    BY DEF IsStack, IsList
  <2>2. QED  BY <2>1
<1>2. IsFiniteSet(SpansIn(s))
  <2>1. IsFiniteSet(1 .. n)
    BY FS_Interval
  <2>2. SpansIn(s) \subseteq 1 .. n
    BY <1>1 DEF SpansIn
  <2>3. QED  BY <2>1, <2>2, FS_Subset
<1>3. SpansIn(s) # {}
  BY DEF SpansIn, IsSpan
<1>4. Cardinality(SpansIn(s)) \in Nat /\ Cardinality(SpansIn(s)) # 0
  BY <1>2, <1>3, FS_CardinalityType, FS_EmptySet
<1>5. QED  BY <1>4

\* A hit is passed: not in a span.
LEMMA CursorIncremented ==
  ASSUME IInv, IInv', CursorInv, page = "output", increment_curr_search, SpansKept,
         Depth > 0 /\ Depth' > 0 => done' = done
  PROVE  CursorInv'
<1>1. Len(texts) \in Nat /\ done \in Nat
  BY TextsLength DEF CursorInv
<1>2. PICK d \in Nat : d = done
  BY <1>1
<1>3. /\ done' = d + 1 /\ texts' = texts
      /\ in_search' = (d + 1 < Len(texts))
      /\ hit' = IF d + 1 = Len(texts) THEN [hit EXCEPT !.start_el = -1] ELSE texts[d + 2]
  BY <1>2 DEF increment_curr_search
<1>4. in_search' \in BOOLEAN
  BY <1>3
<1>5. done' \in Nat /\ done' # done
  BY <1>2, <1>3
<1>6. in_search' => OnHit'
  <2>1. ASSUME in_search' PROVE d + 1 < Len(texts)
    BY <1>3, <2>1
  <2>2. ASSUME d + 1 < Len(texts) PROVE OnHit'
    <3>1. hit' = texts[d + 2]
      BY <1>1, <1>3, <2>2
    <3>2. (d + 1) + 1 = d + 2
      OBVIOUS
    <3>3. QED  BY <1>3, <2>2, <3>1, <3>2 DEF OnHit
  <2>3. QED  BY <2>1, <2>2
<1>7. ASSUME page' = "output", NEW k \in DOMAIN stack', IsSpan(stack'[k]) PROVE FALSE
  <2>1. IsStack(stack) /\ IsStack(stack')
    BY <1>7 DEF IInv
  <2>2. Cardinality(SpansIn(stack')) > 0
    BY <1>7, <2>1, SpanHasDepth
  <2>3. k \in DOMAIN stack /\ IsSpan(stack[k])
    BY <1>7 DEF SpansKept
  <2>4. Cardinality(SpansIn(stack)) > 0
    BY <2>1, <2>3, SpanHasDepth
  <2>5. Depth > 0 /\ Depth' > 0
    BY <2>2, <2>4 DEF Depth, SpansIn
  <2>6. QED  BY <1>5, <2>5
<1>8. texts' = <<>> \/ texts' \in Searches
  BY <1>3 DEF CursorInv
<1>9. QED  BY <1>4, <1>5, <1>6, <1>7, <1>8 DEF CursorInv

\* Both are steps of the output.
LEMMA AtOutput ==
  ASSUME output_element \/ output_content
  PROVE  page = "output"
<1>1. CASE output_element
  BY <1>1 DEF output_element, ElementFails, Begin, EndSkipped, EndFails, End,
       NextElement, ClimbFails, Climb, GoOn, Jump, CloneRefused, At
<1>2. CASE output_content
  BY <1>2 DEF output_content, ContentFails, Content, Hidden, HiddenHit, HiddenHitEnded,
       StopAtBounds, ReturnHidden, PlainText, PlainTextFails, HitFromBefore, HitEnded,
       TextBeforeHit, InTextWithHits, HitBegins, HitBegun, HitText, HitGoesOn, HitEnds,
       FoundCloneFails, HitsDone, Children, ChildrenDone, At
<1>3. QED  BY <1>1, <1>2

\* output_content leaves the cursor, or takes it past a hit.
LEMMA ContentCursor ==
  ASSUME output_content
  PROVE  UNCHANGED cursor \/ increment_curr_search
<1>1. CASE HiddenHitEnded
  BY <1>1 DEF HiddenHitEnded
<1>2. CASE HitEnded \/ HitBegun
  BY <1>2 DEF HitEnded, HitBegun, FoundProcedure, FoundFails, BeforeNextHit, Marked
<1>3. ASSUME NEW l, PassHit(l)
      PROVE  UNCHANGED cursor \/ increment_curr_search
  BY <1>3 DEF PassHit
<1>4. CASE HitGoesOn
  BY <1>3, <1>4 DEF HitGoesOn
<1>5. CASE HitEnds
  BY <1>3, <1>5 DEF HitEnds, FoundProcedure, FoundFails, Unmarked
<1>6. QED
  BY <1>1, <1>2, <1>4, <1>5
     DEF output_content, ContentFails, Content, Hidden, HiddenHit, StopAtBounds,
         ReturnHidden, PlainText, PlainTextFails, HitFromBefore, TextBeforeHit,
         HitBegins, HitText, FoundCloneFails, HitsDone, Children, ChildrenDone

\* output_element and output_content.
LEMMA CursorOutput ==
  ASSUME IInv, IInv', CursorInv, output_element \/ output_content,
         Depth > 0 /\ Depth' > 0 => done' = done
  PROVE  CursorInv'
<1>1. SpansKept
  BY ElementKept, ContentKept
<1>2. UNCHANGED cursor \/ increment_curr_search
  <2>1. CASE output_element
    BY <2>1 DEF output_element, ElementFails, Begin, EndSkipped, EndFails, End,
         NextElement, ClimbFails, Climb, GoOn, Jump, CloneRefused
  <2>2. CASE output_content
    BY <2>2, ContentCursor
  <2>3. QED  BY <2>1, <2>2
<1>3. page = "output"
  BY AtOutput
<1>4. QED  BY <1>1, <1>2, <1>3, CursorStays, CursorIncremented

\* Of the calls one is new and the others are where they were.
LEMMA PushedAt ==
  ASSUME NEW s, IsStack(s), NEW g
  PROVE  \A k \in DOMAIN Append(s, g) :
           \/ Append(s, g)[k] = g
           \/ /\ k \in DOMAIN s /\ Append(s, g)[k] = s[k]
              /\ k > 1 => Append(s, g)[k - 1] = s[k - 1]
<1>1. PICK n \in Nat :
         /\ DOMAIN s = 1 .. n /\ DOMAIN Append(s, g) = 1 .. n + 1
         /\ \A k \in 1 .. n : Append(s, g)[k] = s[k]
         /\ Append(s, g)[n + 1] = g
  BY Pushed DEF IsStack
<1>2. \A k \in 1 .. n + 1 : k = n + 1 \/ (k \in 1 .. n /\ (k > 1 => k - 1 \in 1 .. n))
  OBVIOUS
<1>3. QED  BY <1>1, <1>2

\* A span begins: the search is suspended, and what it was is saved.
LEMMA CursorFormatSpan == ASSUME IInv, CursorInv, FormatSpan PROVE CursorInv'
<1>1. page = "output" /\ IsStack(stack)
  BY ProcedureRuns DEF FormatSpan, IInv
<1>2. PICK b \in Spans, c \in DOMAIN Commands :
        stack' = Append(stack,
          SpanFrame(b.start_el, IF Commands[c].down THEN "down" ELSE "output", Saved(c)))
  BY DEF FormatSpan, SpanFrame, Saved
<1>3. PICK v : v = Saved(c)
  OBVIOUS
<1>4. PICK at : at = IF Commands[c].down THEN "down" ELSE "output"
  OBVIOUS
<1>5. PICK g : g = SpanFrame(b.start_el, at, v)
  OBVIOUS
<1>6. v.in_search = in_search /\ g.saved = v
  BY <1>3, <1>5 DEF SpanFrame, Frame, Saved
<1>7. stack' = Append(stack, g)
  BY <1>2, <1>3, <1>4, <1>5
<1>8. \A k \in DOMAIN stack' : stack'[k] = g \/ (k \in DOMAIN stack /\ stack'[k] = stack[k])
  BY <1>1, <1>7, PushedAt
<1>9. UNCHANGED <<page, texts, done, hit>> /\ in_search' = FALSE
  BY DEF FormatSpan, Suspended
<1>10. OnHit' <=> OnHit
  BY <1>9 DEF OnHit
<1>11. /\ in_search \in BOOLEAN /\ done \in Nat /\ (texts = <<>> \/ texts \in Searches)
       /\ in_search => OnHit
       /\ \A k \in DOMAIN stack : IsSpan(stack[k]) =>
            stack[k].saved.in_search \in BOOLEAN /\ (stack[k].saved.in_search => OnHit)
  BY <1>1 DEF CursorInv
<1>12. \A k \in DOMAIN stack' : IsSpan(stack'[k]) =>
         stack'[k].saved.in_search \in BOOLEAN /\ (stack'[k].saved.in_search => OnHit')
  BY <1>6, <1>8, <1>10, <1>11
<1>13. QED  BY <1>9, <1>11, <1>12 DEF CursorInv

\* A span ends: the search is what it was, or stays suspended.
LEMMA CursorEndSpan ==
  ASSUME IInv, CursorInv, NEW at, At("span", at), NEW b, EndSpan(b)
  PROVE  CursorInv'
<1>1. /\ page = "output" /\ stack # <<>> /\ Top = Last(stack) /\ IsStack(stack)
      /\ Top.fn = "span"
  BY AtIs
<1>2. PICK j \in DOMAIN stack : stack[j] = Top
  BY <1>1, StackPopped
<1>3. PICK was : was = Top.saved.in_search
  OBVIOUS
<1>4. was \in BOOLEAN /\ (was => OnHit)
  BY <1>1, <1>2, <1>3 DEF CursorInv, IsSpan
<1>5. /\ in_search' = was \/ in_search' = FALSE
      /\ UNCHANGED <<page, texts, done, hit>> /\ stack' = Front(stack)
  BY <1>3 DEF EndSpan
<1>6. OnHit' <=> OnHit
  BY <1>5 DEF OnHit
<1>7. SpansKept
  BY <1>5, KeptFront
<1>8. in_search' \in BOOLEAN /\ (in_search' => OnHit')
  <2>1. CASE in_search' = was
    BY <1>4, <1>6, <2>1
  <2>2. CASE in_search' = FALSE
    BY <2>2
  <2>3. QED  BY <1>5, <2>1, <2>2
<1>9. \A k \in DOMAIN stack' : IsSpan(stack'[k]) =>
        stack'[k].saved.in_search \in BOOLEAN /\ (stack'[k].saved.in_search => OnHit')
  BY <1>1, <1>6, <1>7 DEF SpansKept, CursorInv
<1>10. done' \in Nat /\ (texts' = <<>> \/ texts' \in Searches)
  BY <1>5 DEF CursorInv
<1>11. QED  BY <1>8, <1>9, <1>10 DEF CursorInv

\* The spans.
LEMMA CursorSpan == ASSUME IInv, CursorInv, span PROVE CursorInv'
<1>1. ASSUME NEW at, At("span", at), NEW b, EndSpan(b) PROVE CursorInv'
  BY <1>1, CursorEndSpan
<1>2. CASE FormatSpan
  BY <1>2, CursorFormatSpan
<1>3. CASE SpanFails \/ WalkUpDone
  BY <1>1, <1>3 DEF SpanFails, WalkUpDone
<1>4. CASE WalkDown \/ WalkUp
  <2>1. stack' = stack /\ UNCHANGED cursor /\ page' = page
    BY <1>4 DEF WalkDown, WalkUp
  <2>2. QED  BY <2>1, KeptStack, CursorStays
<1>5. CASE WalkDownDone
  <2>1. At("span", "down") /\ stack' = Go("output") /\ UNCHANGED cursor /\ page' = page
    BY <1>5 DEF WalkDownDone
  <2>2. QED  BY <2>1, KeptGo, CursorStays
<1>6. CASE OutputSpan
  <2>1. /\ At("span", "output") /\ Top.fn = "span" /\ IsStack(stack) /\ stack # <<>>
        /\ Top.at = "output" /\ Top = Last(stack)
    BY <1>6, AtIs DEF OutputSpan
  <2>2. PICK yes : yes = TRUE
    OBVIOUS
  <2>3. PICK g : g = Frame("element", bounds.start_el, yes, yes)
    OBVIOUS
  <2>4. IsFrame(g) /\ ~g.holds /\ g.fn = "element"
    BY <2>3, FrameMade
  <2>5. Calls(Last(stack), g)
    BY <2>1, <2>4 DEF Calls
  <2>6. stack' = Append(stack, g) /\ UNCHANGED cursor /\ page' = page
    BY <1>6, <2>2, <2>3 DEF OutputSpan
  <2>7. \A k \in DOMAIN stack' :
          \/ stack'[k] = g
          \/ /\ k \in DOMAIN stack /\ stack'[k] = stack[k]
             /\ k > 1 => stack'[k - 1] = stack[k - 1]
    BY <2>1, <2>6, PushedAt
  <2>8. SpansKept
    BY <2>4, <2>7 DEF SpansKept, IsSpan
  <2>9. QED  BY <2>6, <2>8, CursorStays
<1>7. CASE SpanOutput
  <2>1. At("span", "output")
    BY <1>7 DEF SpanOutput
  <2>2. CASE ret = 0 \/ ~Commands[Top.saved.command].up
    BY <1>1, <1>7, <2>1, <2>2 DEF SpanOutput
  <2>3. CASE ~(ret = 0 \/ ~Commands[Top.saved.command].up)
    <3>1. stack' = Go("up") /\ UNCHANGED cursor /\ page' = page
      BY <1>7, <2>3 DEF SpanOutput
    <3>2. QED  BY <2>1, <3>1, KeptGo, CursorStays
  <2>4. QED  BY <2>2, <2>3
<1>8. QED  BY <1>2, <1>3, <1>4, <1>5, <1>6, <1>7 DEF span

\* The first of the hits that begin at an element or after it is a hit, if there
\* is one; otherwise all are skipped.
LEMMA SkippedIs ==
  ASSUME CursorInv, NEW el
  PROVE  Skipped(el) \in Nat
<1>1. Len(texts) \in Nat /\ done \in Nat
  BY TextsLength DEF CursorInv
<1>2. PICK S : S = {c \in done .. Len(texts) - 1 : texts[c + 1].start_el >= el}
  OBVIOUS
<1>3. Skipped(el) = IF S = {} THEN Len(texts) ELSE CHOOSE c \in S : \A d \in S : c <= d
  BY <1>2 DEF Skipped
<1>4. S \in SUBSET Nat
  BY <1>1, <1>2
<1>5. ASSUME S # {} PROVE (CHOOSE c \in S : \A d \in S : c <= d) \in S
  <2>1. \E c \in S : \A d \in S : c <= d
    BY <1>4, <1>5, MinIsLeast
  <2>2. QED  BY <2>1
<1>6. QED  BY <1>1, <1>3, <1>4, <1>5

\* Before and after the output.
LEMMA CursorPage == ASSUME IInv, CursorInv, make_reader_file PROVE CursorInv'
<1>1. CASE get_find_sg_text
  BY <1>1 DEF get_find_sg_text, CursorInv
<1>2. CASE NoPage \/ EndPage
  BY <1>2, CursorStays DEF NoPage, EndPage
<1>3. CASE StartPage
  <2>1. PICK el :
          /\ IF in_search THEN update_curr_search(el) ELSE UNCHANGED cursor
          /\ stack' = <<[Frame("element", el, outputSiblings, outputRight)
                           EXCEPT !.hide = hide']>>
    BY <1>3 DEF StartPage
  <2>2. \A k \in DOMAIN stack' : ~IsSpan(stack'[k])
    <3>1. PICK h : h = hide'
      OBVIOUS
    <3>2. PICK g : g = FrameOf(el, outputSiblings, outputRight, h)
      OBVIOUS
    <3>3. stack' = <<g>>
      BY <2>1, <3>1, <3>2 DEF FrameOf
    <3>4. g.fn = "element"
      BY <3>2, FirstFrame
    <3>5. QED  BY <3>3, <3>4 DEF IsSpan
  <2>3. CASE in_search
    <3>1. PICK n \in Nat : n = Skipped(el)
      BY SkippedIs
    <3>2. /\ done' = n /\ in_search' = (n < Len(texts)) /\ texts' = texts
          /\ hit' = IF n < Len(texts) THEN texts[n + 1] ELSE hit
      BY <2>1, <2>3, <3>1 DEF update_curr_search
    <3>3. in_search' \in BOOLEAN
      BY <3>2
    <3>4. in_search' => OnHit'
      BY <3>2 DEF OnHit
    <3>5. done' \in Nat /\ (texts' = <<>> \/ texts' \in Searches)
      BY <3>1, <3>2 DEF CursorInv
    <3>6. QED  BY <2>2, <3>3, <3>4, <3>5 DEF CursorInv
  <2>4. CASE ~in_search
    <3>1. UNCHANGED <<in_search, texts, done>>
      BY <2>1, <2>4 DEF cursor
    <3>2. in_search' \in BOOLEAN /\ done' \in Nat /\ (texts' = <<>> \/ texts' \in Searches)
      BY <3>1 DEF CursorInv
    <3>3. ~in_search'
      BY <2>4, <3>1
    <3>4. QED  BY <2>2, <3>2, <3>3 DEF CursorInv
  <2>5. QED  BY <2>3, <2>4
<1>4. QED  BY <1>1, <1>2, <1>3 DEF make_reader_file

\* No step that keeps the place of a span's procedure breaks the invariant.
LEMMA NextCursorInv ==
  ASSUME IInv, IInv', CursorInv, [Next]_vars, Depth > 0 /\ Depth' > 0 => done' = done
  PROVE  CursorInv'
<1>1. CASE UNCHANGED vars
  <2>1. stack' = stack /\ UNCHANGED cursor /\ page' = page
    BY <1>1 DEF vars
  <2>2. QED  BY <2>1, KeptStack, CursorStays
<1>2. QED  BY <1>1, CursorOutput, CursorSpan, CursorPage DEF Next

\* Only FormatSpan changes spans.
LEMMA SpansChange == ASSUME [Next]_vars PROVE spans' = spans \/ FormatSpan
<1>1. CASE UNCHANGED vars
  BY <1>1 DEF vars, budget
<1>2. CASE make_reader_file
  BY <1>2 DEF make_reader_file, get_find_sg_text, StartPage, NoPage, EndPage, budget
<1>3. CASE output_element
  BY <1>3 DEF output_element, ElementFails, Begin, EndSkipped, EndFails, End,
       NextElement, ClimbFails, Climb, GoOn, Jump, CloneRefused, budget
<1>4. CASE HitEnded \/ HitBegun \/ HitEnds
  BY <1>4 DEF HitEnded, HitBegun, HitEnds, FoundProcedure
<1>5. CASE output_content
  BY <1>4, <1>5
     DEF output_content, ContentFails, Content, Hidden, HiddenHit, HiddenHitEnded,
         StopAtBounds, ReturnHidden, PlainText, PlainTextFails, HitFromBefore,
         TextBeforeHit, HitBegins, HitText, HitGoesOn, FoundCloneFails, HitsDone,
         Children, ChildrenDone, budget
<1>6. CASE span
  BY <1>6 DEF span, SpanFails, WalkDown, WalkDownDone, OutputSpan, SpanOutput, WalkUp,
       WalkUpDone, EndSpan, budget
<1>7. QED  BY <1>1, <1>2, <1>3, <1>5, <1>6 DEF Next

\* Once a procedure for found text has formatted a span, it has.
LEMMA FoundStays ==
  ASSUME [Next]_vars, ~spans.found'
  PROVE  ~spans.found /\ (FormatSpan => ~InFound)
<1>1. CASE FormatSpan
  BY <1>1 DEF FormatSpan
<1>2. CASE ~FormatSpan
  BY <1>2, SpansChange
<1>3. QED  BY <1>1, <1>2

\* While hits are to come, current_search is the next of them, until a procedure
\* for found text formats a span, provided that no other span takes the cursor
\* past one: a span does not look for hits, but a hidden element in it passes
\* those that end there.
THEOREM CursorIsOnHit == Spec /\ SpanPassesNoHit => []CursorOnHit
<1> DEFINE Clean == ~spans.found => CursorInv
<1>1. ASSUME Init PROVE Clean
  <2>1. in_search \in BOOLEAN
    BY <1>1 DEF Init
  <2>2. done \in Nat /\ texts = <<>> /\ page # "output"
    BY <1>1 DEF Init
  <2>3. QED  BY <2>1, <2>2 DEF CursorInv
<1>2. Clean => CursorOnHit
  BY DEF CursorInv, CursorOnHit, OnHit
<1>3. IInv /\ IInv' /\ Clean /\ [Next]_vars
        /\ [Depth > 0 /\ Depth' > 0 /\ ~spans.found => done' = done]_vars
      => Clean'
  <2>1. UNCHANGED vars => done' = done
    BY DEF vars, cursor
  <2>2. SUFFICES ASSUME IInv, IInv', Clean, [Next]_vars,
                        [Depth > 0 /\ Depth' > 0 /\ ~spans.found => done' = done]_vars,
                        ~spans.found'
                 PROVE  CursorInv'
    OBVIOUS
  <2>3. ~spans.found /\ CursorInv
    BY <2>2, FoundStays
  <2>4. Depth > 0 /\ Depth' > 0 => done' = done
    BY <2>1, <2>2, <2>3
  <2>5. QED  BY <2>2, <2>3, <2>4, NextCursorInv
<1> HIDE DEF Clean
<1>4. QED  BY <1>1, <1>2, <1>3, Invariance, PTL DEF Spec, SpanPassesNoHit

(***************************************************************************)
(* Spans pass no hit, if each hit lies within one text and no procedure    *)
(* sets hide to 1                                                          *)
(***************************************************************************)
\* Each hit ends in the element that it begins in.
Within == \A t \in Searches : \A k \in DOMAIN t : t[k].end_el = t[k].start_el

\* The last hit ended in e; the next one begins in e; it begins where the last
\* one ended.
Prev(e) == done >= 1 /\ texts[done].end_el = e
Ahead(e) == done < Len(texts) /\ texts[done + 1].start_el = e
Between == done >= 1 /\ done < Len(texts) /\ texts[done].end_el = texts[done + 1].start_el

\* A span is being formatted.
Formats == \E k \in DOMAIN stack : IsSpan(stack[k])

\* The search is suspended while a span is formatted, and was in all spans but
\* the outermost.
Quiet ==
  /\ Formats => ~in_search
  /\ \A j, k \in DOMAIN stack :
       j < k /\ IsSpan(stack[j]) /\ IsSpan(stack[k]) => ~stack[k].saved.in_search

\* Two hits of a text come one after the other, with no span between them; and
\* the output is in a hit only if that is the one that begins here.
InHitPlaces == {"begins", "found", "ends"}
HitByHit ==
  /\ Formats => ~Between
  /\ Between /\ ~told_to_stop /\ stack # <<>> => AtHits /\ Prev(Top.el)
  /\ AtHits => /\ Kind[Top.el] = "PCDATA"
               /\ Prev(Top.el) \/ (~Formats /\ Ahead(Top.el))
               /\ Top.at \in InHitPlaces => hit.start_el = Top.el

OnNext == IF done < Len(texts) THEN hit = texts[done + 1] ELSE hit.start_el \in {-1, 0}

\* No procedure for found text has formatted a span.
NoneInFound ==
  \A k \in DOMAIN stack : k > 1 /\ IsSpan(stack[k]) => stack[k - 1].at \notin FoundPlaces

HitInv ==
  /\ done <= Len(texts)
  /\ page = "begin" => done = 0 /\ hit.start_el = 0 /\ (texts # <<>> => in_search)
  /\ page = "output" => OnNext /\ ~AtHidden /\ Quiet /\ HitByHit /\ NoneInFound

\* What is found are hits.
LEMMA FoundAreHits ==
  ASSUME texts = <<>> \/ texts \in Searches, NEW k \in 1 .. Len(texts)
  PROVE  /\ texts \in Searches /\ k \in DOMAIN texts
         /\ texts[k] \in [start_el : Els, start_off : Nat, end_el : Els, end_off : Nat]
<1>1. texts # <<>>
  OBVIOUS
<1>2. PICK R : R = [start_el : Els, start_off : Nat, end_el : Els, end_off : Nat]
  OBVIOUS
<1>3. texts \in Searches /\ texts \in Seq(R)
  BY <1>1, <1>2, SearchesAssumption
<1>4. k \in DOMAIN texts /\ texts[k] \in R
  BY <1>3
<1>5. QED  BY <1>2, <1>3, <1>4

\* Also while the cursor is where it should be.
LEMMA HitsFound ==
  ASSUME CursorInv, NEW k \in 1 .. Len(texts)
  PROVE  /\ texts \in Searches /\ k \in DOMAIN texts
         /\ texts[k] \in [start_el : Els, start_off : Nat, end_el : Els, end_off : Nat]
<1>1. texts = <<>> \/ texts \in Searches
  BY DEF CursorInv
<1>2. QED  BY <1>1, FoundAreHits

\* A hit that was passed ended in an element.
LEMMA PrevIsElement == ASSUME CursorInv, HitInv, NEW e, Prev(e) PROVE e \in Els
<1>1. Len(texts) \in Nat /\ done \in Nat /\ done >= 1 /\ done <= Len(texts)
  BY TextsLength DEF CursorInv, HitInv, Prev
<1>2. texts[done] \in [start_el : Els, start_off : Nat, end_el : Els, end_off : Nat]
  BY <1>1, HitsFound
<1>3. QED  BY <1>2 DEF Prev

\* The hit in whose element the output is, is the next one, and no span is
\* formatted.
LEMMA HitIsAhead ==
  ASSUME CursorInv, HitInv, page = "output", AtHits, hit.start_el = Top.el
  PROVE  Ahead(Top.el) /\ ~Formats
<1>1. OnNext /\ HitByHit
  BY DEF HitInv
<1>2. Len(texts) \in Nat /\ done \in Nat /\ done <= Len(texts)
  BY TextsLength DEF CursorInv, HitInv
<1>3. CASE done < Len(texts)
  <2>1. Ahead(Top.el)
    BY <1>1, <1>3 DEF OnNext, Ahead
  <2>2. ASSUME Formats PROVE FALSE
    <3>1. Prev(Top.el)
      BY <1>1, <2>2 DEF HitByHit
    <3>2. Between
      BY <2>1, <3>1 DEF Prev, Ahead, Between
    <3>3. QED  BY <1>1, <2>2, <3>2 DEF HitByHit
  <2>3. QED  BY <2>1, <2>2
<1>4. CASE ~(done < Len(texts))
  <2>1. Prev(Top.el)
    BY <1>1, <1>4 DEF HitByHit, Ahead
  <2>2. Top.el \in Els
    BY <2>1, PrevIsElement
  <2>3. Top.el \in {-1, 0}
    BY <1>1, <1>4 DEF OnNext
  <2>4. Top.el = 0
    BY <2>2, <2>3, BookAssumption
  <2>5. Kind[0] = "PCDATA"
    BY <1>1, <2>4 DEF HitByHit
  <2>6. QED  BY <2>5, BookAssumption
<1>5. QED  BY <1>3, <1>4

\* No span is formatted that was not.
LEMMA FormatsKept == ASSUME SpansKept, Formats' PROVE Formats
BY DEF SpansKept, Formats

\* A step that leaves the cursor alone.
LEMMA HitStays ==
  ASSUME CursorInv, HitInv, page = "output", UNCHANGED cursor, SpansKept,
         page' = "output" => /\ ~AtHidden'
                             /\ AtHits' => /\ Kind[Top'.el] = "PCDATA"
                                           /\ Prev(Top'.el) \/ (~Formats /\ Ahead(Top'.el))
                                           /\ Top'.at \in InHitPlaces => hit.start_el = Top'.el
                             /\ Between /\ ~told_to_stop' /\ stack' # <<>> =>
                                  AtHits' /\ Prev(Top'.el),
         page' # "begin"
  PROVE  HitInv'
<1>1. UNCHANGED <<in_search, texts, done, hit>>
  BY DEF cursor
<1>2. done' <= Len(texts')
  BY <1>1 DEF HitInv
<1>3. ASSUME page' = "output"
      PROVE  OnNext' /\ ~AtHidden' /\ Quiet' /\ HitByHit' /\ NoneInFound'
  <2>1. OnNext /\ Quiet /\ HitByHit /\ NoneInFound
    BY DEF HitInv
  <2>2. OnNext'
    BY <1>1, <2>1 DEF OnNext
  <2>3. Formats' => Formats
    BY FormatsKept
  <2>4. Quiet'
    <3>1. Formats' => ~in_search'
      BY <1>1, <2>1, <2>3 DEF Quiet
    <3>2. ASSUME NEW j \in DOMAIN stack', NEW k \in DOMAIN stack', j < k,
                 IsSpan(stack'[j]), IsSpan(stack'[k])
          PROVE  ~stack'[k].saved.in_search
      <4>1. /\ j \in DOMAIN stack /\ IsSpan(stack[j])
            /\ k \in DOMAIN stack /\ IsSpan(stack[k]) /\ stack'[k].saved = stack[k].saved
        BY <3>2 DEF SpansKept
      <4>2. QED  BY <2>1, <3>2, <4>1 DEF Quiet
    <3>3. QED  BY <3>1, <3>2 DEF Quiet
  <2>5. HitByHit'
    <3>1. (Between' <=> Between)
      BY <1>1 DEF Between
    <3>2. Prev(Top'.el) <=> Prev(Top.el)'
      BY <1>1 DEF Prev
    <3>3. Ahead(Top'.el) <=> Ahead(Top.el)'
      BY <1>1 DEF Ahead
    <3>4. Formats' => ~Between'
      BY <2>1, <2>3, <3>1 DEF HitByHit
    <3>5. Between' /\ ~told_to_stop' /\ stack' # <<>> => AtHits' /\ Prev(Top.el)'
      BY <1>3, <3>1, <3>2
    <3>6. AtHits' => /\ Kind[Top'.el] = "PCDATA"
                     /\ Prev(Top.el)' \/ (~Formats' /\ Ahead(Top.el)')
                     /\ Top'.at \in InHitPlaces => hit'.start_el = Top'.el
      BY <1>1, <1>3, <2>3, <3>2, <3>3
    <3>7. QED  BY <3>4, <3>5, <3>6 DEF HitByHit
  <2>6. NoneInFound'
    BY <2>1 DEF NoneInFound, SpansKept
  <2>7. QED  BY <1>3, <2>2, <2>4, <2>5, <2>6
<1>4. QED  BY <1>2, <1>3 DEF HitInv

\* It goes on elsewhere than in a text.
LEMMA HitElsewhere ==
  ASSUME CursorInv, HitInv, page = "output", stack # <<>>, page' # "begin",
         UNCHANGED cursor, SpansKept, ~InText',
         \/ Formats
         \/ told_to_stop'
         \/ ~told_to_stop /\ (~AtHits \/ hit.start_el # Top.el)
  PROVE  HitInv'
<1>1. ~AtHits' /\ ~AtHidden'
  BY DEF InText
<1>2. HitByHit /\ OnNext
  BY DEF HitInv
<1>3. ASSUME Between, ~told_to_stop', stack' # <<>> PROVE FALSE
  <2>1. ~told_to_stop
    BY <1>2, <1>3 DEF HitByHit
  <2>2. AtHits /\ Prev(Top.el)
    BY <1>2, <1>3, <2>1 DEF HitByHit
  <2>3. hit.start_el = Top.el
    BY <1>2, <1>3, <2>2 DEF OnNext, Between, Prev
  <2>4. QED  BY <1>2, <1>3, <2>2, <2>3 DEF HitByHit
<1>4. QED  BY <1>1, <1>3, HitStays

\* The steps of output_element.
LEMMA HitElement == ASSUME IInv, CursorInv, HitInv, output_element PROVE HitInv'
<1>1. SpansKept /\ ~InText'
  BY ElementKept
<1>2. PICK at : At("element", at)
  BY DEF output_element, ElementFails, Begin, EndSkipped, EndFails, End,
     NextElement, ClimbFails, Climb, GoOn, Jump, CloneRefused
<1>3. page = "output" /\ stack # <<>> /\ ~AtHits
  BY <1>2 DEF At, AtHits
<1>4. UNCHANGED cursor /\ page' # "begin"
  BY <1>3 DEF output_element, ElementFails, Begin, EndSkipped, EndFails, End,
     NextElement, ClimbFails, Climb, GoOn, Jump, CloneRefused
<1>5. told_to_stop => told_to_stop'
  BY DEF output_element, ElementFails, Begin, EndSkipped, EndFails, End,
     NextElement, ClimbFails, Climb, GoOn, Jump, CloneRefused
<1>6. told_to_stop' \/ ~told_to_stop
  BY <1>5
<1>7. QED  BY <1>1, <1>3, <1>4, <1>6, HitElsewhere

\* Hide is never set to 1.
LEMMA NeverHides ==
  ASSUME Hides \subseteq {0, 2}, NEW el, NEW param, NEW s \in process_style(el, param)
  PROVE  s.r # 2
<1>1. HideCode(0) = 1 /\ HideCode(2) = 5
  BY DEF HideCode
<1>2. CASE el \in Styled
  <2>1. \/ \E g \in Hides : \E m : s = Reply(HideCode(g), g, m)
        \/ \E m : s = Reply(4, hide, m)
        \/ \E m : s = Reply(0, hide, m)
    BY <1>2 DEF process_style, ProcedureReplies
  <2>2. QED  BY <1>1, <2>1 DEF Reply
<1>3. CASE el \notin Styled
  <2>1. s = Reply(1, hide, len)
    BY <1>3 DEF process_style
  <2>2. QED  BY <2>1 DEF Reply
<1>4. QED  BY <1>2, <1>3

\* The steps of output_content that neither are between hits nor get there.
LEMMA HitOtherContent ==
  ASSUME IInv, CursorInv, HitInv, Hides \subseteq {0, 2},
         \/ ContentFails \/ Content \/ StopAtBounds \/ ReturnHidden \/ PlainText
         \/ PlainTextFails \/ Children \/ ChildrenDone
  PROVE  HitInv'
<1>1. PICK at \in {"top", "bounds", "children"} : At("content", at)
  BY DEF ContentFails, Content, StopAtBounds, ReturnHidden, PlainText, PlainTextFails,
     Children, ChildrenDone
<1>2. page = "output" /\ stack # <<>> /\ ~AtHits /\ Top.el = Top.el
  BY <1>1 DEF At, AtHits, HitPlaces
<1>3. SpansKept
  BY ContentKept DEF output_content
<1>4. UNCHANGED cursor /\ page' = page
  BY DEF ContentFails, Content, StopAtBounds, ReturnHidden, PlainText, PlainTextFails,
     Children, ChildrenDone
<1>5. told_to_stop => told_to_stop'
  BY DEF ContentFails, Content, StopAtBounds, ReturnHidden, PlainText, PlainTextFails,
     Children, ChildrenDone
<1>6. ~InText'
  <2>1. CASE stack' = Front(stack)
    BY <1>1, <2>1, KeptFront
  <2>2. CASE Content
    <3>1. PICK s \in process_style(Top.el, "content") :
            \/ stack' = Front(stack)
            \/ stack' = Replace([Top EXCEPT !.at = IF s.r = 2 THEN "hidden" ELSE "bounds",
                                            !.holds = TRUE])
      BY <2>2 DEF Content, Return
    <3>2. s.r # 2
      BY <3>1, NeverHides
    <3>3. PICK yes \in BOOLEAN : yes = TRUE
      OBVIOUS
    <3>4. CASE stack' = Replace(Holding(Top, "bounds", yes))
      <4>1. stack' # <<>> /\ Top'.at = "bounds"
        BY <1>1, <3>4, KeptHolding
      <4>2. QED  BY <4>1 DEF InText, AtHits, AtHidden, HitPlaces, HiddenPlaces
    <3>5. QED  BY <2>1, <3>1, <3>2, <3>3, <3>4 DEF Holding
  <2>3. CASE Children
    <3>1. At("content", "bounds") /\ IsFrame(Top) /\ Top.fn = "content"
      BY <2>3, AtIs DEF Children
    <3>2. CASE Child[Top.el] = 0
      BY <2>1, <2>3, <3>2 DEF Children, Return
    <3>3. CASE Child[Top.el] # 0
      <4>1. PICK f : f = [Top EXCEPT !.at = "children"]
        OBVIOUS
      <4>2. IsFrame(f) /\ f.fn = "content" /\ f.at = "children"
        BY <3>1, <4>1, FrameAt
      <4>3. PICK yes, no : yes = TRUE /\ no = FALSE
        OBVIOUS
      <4>4. PICK g : g = Frame("element", Child[Top.el], yes, no)
        OBVIOUS
      <4>5. IsFrame(g) /\ ~g.holds /\ g.fn = "element"
        BY <4>4, FrameMade
      <4>6. stack' = Call(f, g)
        BY <2>3, <3>3, <4>1, <4>3, <4>4 DEF Children
      <4>7. Calls(f, g)
        BY <4>2, <4>5 DEF Calls
      <4>8. Top' = g
        BY <3>1, <4>2, <4>5, <4>6, <4>7, KeptCall
      <4>9. QED  BY <4>5, <4>8 DEF InText, AtHits, AtHidden
    <3>4. QED  BY <3>2, <3>3
  <2>4. QED  BY <2>1, <2>2, <2>3
             DEF ContentFails, StopAtBounds, ReturnHidden, PlainText, PlainTextFails,
                 ChildrenDone, Return
<1>7. told_to_stop' \/ ~told_to_stop
  BY <1>5
<1>8. QED  BY <1>2, <1>3, <1>4, <1>6, <1>7, HitElsewhere

\* The text before the first hit, or the end of a hit from before.
LEMMA HitBeforeText ==
  ASSUME IInv, CursorInv, HitInv, HitFromBefore \/ TextBeforeHit
  PROVE  HitInv'
<1>1. /\ At("content", "bounds") /\ Shows /\ InHit /\ UNCHANGED cursor /\ page' = page
      /\ UNCHANGED told_to_stop
  BY DEF HitFromBefore, TextBeforeHit, InTextWithHits
<1>2. page = "output" /\ stack # <<>> /\ ~AtHits /\ HitByHit /\ Quiet /\ OnNext
  BY <1>1 DEF At, AtHits, HitPlaces, HitInv
<1>3. SpansKept
  BY ContentKept DEF output_content
<1>4. PICK to \in {"ended", "hit"} : stack' = Go(to)
  BY DEF HitFromBefore, TextBeforeHit
<1>5. QED
  <2>1. stack' # <<>> /\ Top'.at = to /\ Top'.el = Top.el
    BY <1>1, <1>4, KeptGo
  <2>2. ~AtHidden' /\ Top'.at \notin InHitPlaces
    BY <2>1 DEF AtHidden, HiddenPlaces, InHitPlaces
  <2>3. Kind[Top.el] = "PCDATA"
    BY <1>1 DEF Shows
  <2>4. Prev(Top.el) \/ (~Formats /\ Ahead(Top.el))
    <3>1. CASE in_search /\ hit.start_el = Top.el
      <4>1. OnHit /\ ~Formats
        BY <1>2, <3>1 DEF CursorInv, Quiet
      <4>2. QED  BY <3>1, <4>1 DEF OnHit, Ahead
    <3>2. CASE previous_search.end_el = Top.el
      <4>1. CASE done = 0
        <5>1. Top.el = 0
          BY <3>2, <4>1 DEF previous_search, NoHit
        <5>2. QED  BY <2>3, <5>1, BookAssumption
      <4>2. CASE done # 0
        <5>1. done >= 1
          BY <4>2 DEF CursorInv
        <5>2. QED  BY <3>2, <4>2, <5>1 DEF previous_search, Prev
      <4>3. QED  BY <4>1, <4>2
    <3>3. QED  BY <1>1, <3>1, <3>2 DEF InHit
  <2>5. ~(Between /\ ~told_to_stop')
    BY <1>1, <1>2 DEF HitByHit
  <2>6. page' # "begin"
    BY <1>1, <1>2
  <2>7. QED  BY <1>1, <1>2, <1>3, <2>1, <2>2, <2>3, <2>4, <2>5, <2>6, HitStays

\* In a hit, as long as the cursor stays.
LEMMA HitGoesWithin ==
  ASSUME IInv, CursorInv, HitInv, HitEnded \/ HitBegins \/ HitBegun \/ HitText
  PROVE  HitInv'
<1>1. PICK at \in HitPlaces :
        At("content", at) /\ (at \in InHitPlaces \/ HitBegins => hit.start_el = Top.el)
  <2>1. PICK at \in HitPlaces : At("content", at)
    BY DEF HitEnded, HitBegins, HitBegun, HitText, HitPlaces
  <2>2. page = "output" /\ AtHits /\ Top.at = at
    BY <2>1 DEF At, AtHits
  <2>3. at \in InHitPlaces => hit.start_el = Top.el
    BY <2>2 DEF HitInv, HitByHit
  <2>4. HitBegins => hit.start_el = Top.el
    BY DEF HitBegins
  <2>5. QED  BY <2>1, <2>3, <2>4
<1>2. /\ page = "output" /\ stack # <<>> /\ AtHits /\ HitByHit
  BY <1>1 DEF At, AtHits, HitInv
<1>3. UNCHANGED cursor /\ page' = page /\ (told_to_stop => told_to_stop')
  <2>1. CASE HitBegins \/ HitText
    BY <2>1 DEF HitBegins, HitText
  <2>2. CASE HitEnded
    <3>1. UNCHANGED cursor /\ page' = page
      BY <2>2 DEF HitEnded, FoundProcedure, FoundFails, BeforeNextHit
    <3>2. told_to_stop => told_to_stop'
      BY <2>2 DEF HitEnded, FoundProcedure
    <3>3. QED  BY <3>1, <3>2
  <2>3. CASE HitBegun
    <3>1. UNCHANGED cursor /\ page' = page
      BY <2>3 DEF HitBegun, FoundProcedure, FoundFails, Marked
    <3>2. told_to_stop => told_to_stop'
      BY <2>3 DEF HitBegun, FoundProcedure
    <3>3. QED  BY <3>1, <3>2
  <2>4. QED  BY <2>1, <2>2, <2>3
<1>4. SpansKept
  BY ContentKept DEF output_content
<1>5. \/ stack' = Front(stack) /\ told_to_stop' = TRUE
      \/ stack' = Go("hit")
      \/ /\ HitBegins \/ HitBegun \/ HitText
         /\ \E to \in InHitPlaces : stack' = Go(to)
  <2>1. CASE HitEnded
    BY <2>1 DEF HitEnded, FoundProcedure, FoundFails, BeforeNextHit, Return
  <2>2. CASE HitBegun
    BY <2>2 DEF HitBegun, FoundProcedure, FoundFails, Marked, Return, InHitPlaces
  <2>3. CASE HitBegins \/ HitText
    BY <2>3 DEF HitBegins, HitText, InHitPlaces
  <2>4. QED  BY <2>1, <2>2, <2>3
<1>6. CASE stack' = Front(stack) /\ told_to_stop' = TRUE
  <2>1. ~InText'
    BY <1>1, <1>6, KeptFront
  <2>2. page' # "begin"
    BY <1>2, <1>3
  <2>3. QED  BY <1>2, <1>3, <1>4, <1>6, <2>1, <2>2, HitElsewhere
<1>7. ASSUME NEW to \in HitPlaces, stack' = Go(to),
             to \in InHitPlaces => hit.start_el = Top.el
      PROVE  HitInv'
  <2>1. to # "top"
    BY DEF HitPlaces
  <2>2. stack' # <<>> /\ Top'.at = to /\ Top'.el = Top.el /\ Top'.fn = "content"
    BY <1>1, <1>7, <2>1, KeptGo
  <2>3. ~AtHidden' /\ AtHits'
    BY <2>2 DEF AtHidden, AtHits, HiddenPlaces, HitPlaces
  <2>4. /\ Kind[Top'.el] = "PCDATA"
        /\ Prev(Top'.el) \/ (~Formats /\ Ahead(Top'.el))
        /\ Top'.at \in InHitPlaces => hit.start_el = Top'.el
    BY <1>2, <1>7, <2>2 DEF HitByHit
  <2>5. Between /\ ~told_to_stop' => Prev(Top'.el)
    BY <1>2, <1>3, <2>2 DEF HitByHit
  <2>6. page' # "begin"
    BY <1>2, <1>3
  <2>7. QED  BY <1>2, <1>3, <1>4, <2>3, <2>4, <2>5, <2>6, HitStays
<1>8. CASE stack' = Go("hit")
  <2>1. "hit" \in HitPlaces /\ "hit" \notin InHitPlaces
    BY DEF HitPlaces, InHitPlaces
  <2>2. QED  BY <1>7, <1>8, <2>1
<1>9. CASE /\ HitBegins \/ HitBegun \/ HitText
           /\ \E to \in InHitPlaces : stack' = Go(to)
  <2>1. hit.start_el = Top.el
    <3>1. HitBegun \/ HitText => at \in InHitPlaces
      BY <1>1 DEF HitBegun, HitText, At, InHitPlaces
    <3>2. QED  BY <1>1, <1>9, <3>1
  <2>2. PICK to \in InHitPlaces : stack' = Go(to)
    BY <1>9
  <2>3. to \in HitPlaces
    BY DEF HitPlaces, InHitPlaces
  <2>4. QED  BY <1>7, <2>1, <2>2, <2>3
<1>10. QED  BY <1>5, <1>6, <1>8, <1>9

\* A hit: the next one of the text, if there is one, comes after it.
LEMMA HitPassed ==
  ASSUME IInv, CursorInv, HitInv, Within, HitGoesOn \/ HitEnds
  PROVE  HitInv' /\ ~Formats
<1>1. PICK at \in InHitPlaces : At("content", at)
  BY DEF HitGoesOn, HitEnds, InHitPlaces
<1>2. /\ page = "output" /\ stack # <<>> /\ AtHits /\ HitByHit /\ Quiet /\ OnNext
      /\ done <= Len(texts) /\ NoneInFound
  BY <1>1 DEF At, AtHits, InHitPlaces, HitPlaces, HitInv
<1>7. hit.start_el = Top.el
  BY <1>1, <1>2 DEF HitByHit, At
<1>3. Ahead(Top.el) /\ ~Formats
  BY <1>2, <1>7, HitIsAhead
<1>8. SpansKept
  BY ContentKept DEF output_content
<1>4. \/ stack' = Front(stack) /\ UNCHANGED <<cursor, page>> /\ told_to_stop' = TRUE
      \/ stack' = Go("hit") /\ increment_curr_search /\ page' = page
  <2>1. HitsLeft
    BY <1>3 DEF Ahead, HitsLeft
  <2>2. ASSUME NEW l, PassHit(l)
        PROVE  stack' = Go("hit") /\ increment_curr_search /\ page' = page
    BY <2>1, <2>2 DEF PassHit
  <2>3. CASE HitGoesOn
    BY <2>2, <2>3 DEF HitGoesOn
  <2>4. CASE HitEnds
    BY <2>2, <2>4 DEF HitEnds, FoundProcedure, FoundFails, Unmarked, Return
  <2>5. QED  BY <2>3, <2>4
<1>5. CASE stack' = Front(stack) /\ UNCHANGED <<cursor, page>> /\ told_to_stop' = TRUE
  <2>1. ~InText'
    BY <1>1, <1>5, KeptFront
  <2>2. page' # "begin" /\ UNCHANGED cursor
    BY <1>2, <1>5
  <2>3. QED  BY <1>2, <1>3, <1>5, <1>8, <2>1, <2>2, HitElsewhere
<1>6. CASE stack' = Go("hit") /\ increment_curr_search /\ page' = page
  <2>1. Len(texts) \in Nat /\ done \in Nat
    BY TextsLength DEF CursorInv
  <2>2. PICK d \in Nat : d = done
    BY <2>1
  <2>3. d < Len(texts) /\ texts[d + 1].start_el = Top.el
    BY <1>3, <2>2 DEF Ahead
  <2>4. /\ done' = d + 1 /\ texts' = texts
        /\ hit' = IF d + 1 = Len(texts) THEN [hit EXCEPT !.start_el = -1] ELSE texts[d + 2]
    BY <1>6, <2>2 DEF increment_curr_search
  <2>5. texts[d + 1].end_el = Top.el
    <3>1. d + 1 \in 1 .. Len(texts)
      BY <2>1, <2>3
    <3>2. texts \in Searches /\ d + 1 \in DOMAIN texts
      BY <3>1, HitsFound
    <3>3. QED  BY <2>3, <3>2 DEF Within
  <2>6. /\ stack' # <<>> /\ Top'.at = "hit" /\ Top'.el = Top.el /\ ~Formats'
    BY <1>1, <1>3, <1>6, <1>8, KeptGo, FormatsKept
  <2>7. done' <= Len(texts')
    BY <2>1, <2>3, <2>4
  <2>8. OnNext'
    <3>1. CASE d + 1 = Len(texts)
      <4>1. hit.start_el = Top.el /\ hit = texts[d + 1]
        BY <1>2, <1>7, <2>2, <2>3 DEF OnNext
      <4>2. hit \in [start_el : Els, start_off : Nat, end_el : Els, end_off : Nat]
        <5>1. d + 1 \in 1 .. Len(texts)
          BY <2>1, <2>3
        <5>2. QED  BY <4>1, <5>1, HitsFound
      <4>3. hit'.start_el = -1
        BY <2>4, <3>1, <4>2
      <4>4. ~(done' < Len(texts'))
        BY <2>4, <2>1, <3>1
      <4>5. QED  BY <4>3, <4>4 DEF OnNext
    <3>2. CASE d + 1 # Len(texts)
      <4>1. hit' = texts'[done' + 1]
        BY <2>4, <3>2
      <4>2. done' < Len(texts')
        BY <2>1, <2>3, <2>4, <3>2
      <4>3. QED  BY <4>1, <4>2 DEF OnNext
    <3>3. QED  BY <3>1, <3>2
  <2>9. ~AtHidden'
    BY <2>6 DEF AtHidden, HiddenPlaces
  <2>10. Quiet'
    BY <2>6 DEF Quiet, Formats
  <2>11. Prev(Top.el)'
    BY <2>4, <2>5, <2>6 DEF Prev
  <2>12. HitByHit'
    <3>1. AtHits' /\ Top'.at \notin InHitPlaces
      <4>1. Top'.fn = "content"
        BY <1>1, <1>6, KeptGo
      <4>2. QED  BY <2>6, <4>1 DEF AtHits, HitPlaces, InHitPlaces
    <3>2. Kind[Top'.el] = "PCDATA"
      BY <1>2, <2>6 DEF HitByHit
    <3>3. QED  BY <2>6, <2>11, <3>1, <3>2 DEF HitByHit
  <2>13. NoneInFound'
    BY <1>2, <1>8 DEF NoneInFound, SpansKept
  <2>14. page' = "output"
    BY <1>2, <1>6
  <2>15. QED  BY <1>3, <2>7, <2>8, <2>9, <2>10, <2>12, <2>13, <2>14 DEF HitInv
<1>9. QED  BY <1>3, <1>4, <1>5, <1>6

\* The steps of output_content.
LEMMA HitContent ==
  ASSUME IInv, CursorInv, HitInv, Within, Hides \subseteq {0, 2}, output_content
  PROVE  HitInv' /\ (done' # done => ~Formats)
<1>1. CASE \/ ContentFails \/ Content \/ StopAtBounds \/ ReturnHidden \/ PlainText
           \/ PlainTextFails \/ Children \/ ChildrenDone
  <2>1. done' = done
    BY <1>1 DEF ContentFails, Content, StopAtBounds, ReturnHidden, PlainText,
       PlainTextFails, Children, ChildrenDone, cursor
  <2>2. QED  BY <1>1, <2>1, HitOtherContent
<1>2. CASE HitFromBefore \/ TextBeforeHit
  <2>1. done' = done
    BY <1>2 DEF HitFromBefore, TextBeforeHit, cursor
  <2>2. QED  BY <1>2, <2>1, HitBeforeText
<1>3. CASE HitGoesOn \/ HitEnds
  BY <1>3, HitPassed
<1>7. CASE HitEnded \/ HitBegins \/ HitBegun \/ HitText
  <2>1. done' = done
    BY <1>7 DEF HitEnded, HitBegins, HitBegun, HitText, FoundProcedure, FoundFails,
         BeforeNextHit, Marked, cursor
  <2>2. QED  BY <1>7, <2>1, HitGoesWithin
<1>4. ~Hidden /\ ~HiddenHit /\ ~HiddenHitEnded /\ ~At("content", "hidden")
  <2>1. \A at \in HiddenPlaces : ~At("content", at)
    BY DEF HitInv, AtHidden, At
  <2>2. QED  BY <2>1 DEF Hidden, HiddenHit, HiddenHitEnded, HiddenPlaces
<1>5. CASE FoundCloneFails \/ HitsDone
  <2>1. /\ \E at : At("content", at)
        /\ stack' = Front(stack) /\ UNCHANGED cursor /\ page' = page
        /\ told_to_stop => told_to_stop'
        /\ told_to_stop' = TRUE \/ hit.start_el # Top.el
    BY <1>4, <1>5 DEF FoundCloneFails, InTextWithHits, HitsDone, Return
  <2>2. page = "output" /\ stack # <<>> /\ page' # "begin" /\ done' = done
    BY <2>1 DEF At, cursor
  <2>3. SpansKept /\ ~InText'
    BY <2>1, KeptFront
  <2>4. told_to_stop' \/ ~told_to_stop
    BY <2>1
  <2>5. QED  BY <2>1, <2>2, <2>3, <2>4, HitElsewhere
<1>6. QED  BY <1>1, <1>2, <1>3, <1>4, <1>5, <1>7 DEF output_content

\* A span begins, and not between two hits.
LEMMA HitFormatSpan ==
  ASSUME IInv, CursorInv, HitInv, FormatSpan, ~InFound
  PROVE  HitInv'
<1>1. PICK fn, at : /\ At(fn, at) /\ (fn = "content" => at = "top")
                    /\ at \in {"top", "content", "climb", "down", "up"}
  BY DEF FormatSpan, InElement
<1>2. /\ ~told_to_stop /\ page = "output" /\ IsStack(stack) /\ stack # <<>>
      /\ Top.fn = fn /\ Top.at = at /\ Top = Last(stack)
  BY <1>1, ProcedureRuns, AtIs DEF FormatSpan
<1>3. ~AtHits /\ Top.at \notin FoundPlaces
  BY <1>1, <1>2 DEF AtHits, HitPlaces, FoundPlaces
<1>4. OnNext /\ Quiet /\ HitByHit /\ done <= Len(texts) /\ NoneInFound
  BY <1>2 DEF HitInv
<1>5. ~Between
  BY <1>2, <1>3, <1>4 DEF HitByHit
<1>6. PICK b \in Spans, c \in DOMAIN Commands :
        stack' = Append(stack,
          SpanFrame(b.start_el, IF Commands[c].down THEN "down" ELSE "output", Saved(c)))
  BY DEF FormatSpan, SpanFrame, Saved
<1>7. PICK v : v = Saved(c)
  OBVIOUS
<1>8. PICK at2 : at2 = IF Commands[c].down THEN "down" ELSE "output"
  OBVIOUS
<1>9. PICK g : g = SpanFrame(b.start_el, at2, v)
  OBVIOUS
<1>10. v.in_search = in_search /\ g.saved = v /\ g.fn = "span"
  BY <1>7, <1>9 DEF SpanFrame, Frame, Saved
<1>11. stack' = Append(stack, g)
  BY <1>6, <1>7, <1>8, <1>9
<1>12. PICK n \in Nat :
         /\ DOMAIN stack = 1 .. n /\ DOMAIN stack' = 1 .. n + 1 /\ stack' # <<>>
         /\ Len(stack') = n + 1
         /\ \A k \in 1 .. n : stack'[k] = stack[k]
         /\ stack'[n + 1] = g
  BY <1>2, <1>11, Pushed DEF IsStack
<1>13. UNCHANGED <<page, texts, done, hit>> /\ in_search' = FALSE
  BY DEF FormatSpan, Suspended
<1>14. Top' = g
  BY <1>12 DEF Top, Last
<1>15. ~AtHits' /\ ~AtHidden'
  BY <1>10, <1>14 DEF AtHits, AtHidden
<1>16. OnNext' /\ ~Between' /\ done' <= Len(texts')
  BY <1>4, <1>5, <1>13 DEF OnNext, Between
<1>17. Quiet'
  <2>1. ASSUME NEW j \in 1 .. n + 1, NEW k \in 1 .. n + 1, j < k,
               IsSpan(stack'[j]), IsSpan(stack'[k])
        PROVE  ~stack'[k].saved.in_search
    <3>1. j \in 1 .. n /\ (k \in 1 .. n \/ k = n + 1)
      BY <2>1
    <3>2. stack'[j] = stack[j]
      BY <1>12, <3>1
    <3>3. CASE k \in 1 .. n
      BY <1>4, <1>12, <2>1, <3>1, <3>2, <3>3 DEF Quiet
    <3>4. CASE k = n + 1
      <4>1. Formats
        BY <1>12, <2>1, <3>1, <3>2 DEF Formats
      <4>2. ~in_search
        BY <1>4, <4>1 DEF Quiet
      <4>3. QED  BY <1>10, <1>12, <3>4, <4>2
    <3>5. QED  BY <3>1, <3>3, <3>4
  <2>2. QED  BY <1>12, <1>13, <2>1 DEF Quiet
<1>18. HitByHit'
  BY <1>15, <1>16 DEF HitByHit
<1>19. page' = "output"
  BY <1>2, <1>13
<1>20. NoneInFound'
  <2>1. n >= 1 => stack[n] = Top
    BY <1>2, <1>12 DEF Last
  <2>2. ASSUME NEW k \in 1 .. n + 1, k > 1, IsSpan(stack'[k])
        PROVE  stack'[k - 1].at \notin FoundPlaces
    <3>1. k - 1 \in 1 .. n /\ stack'[k - 1] = stack[k - 1]
      BY <1>12, <2>2
    <3>2. CASE k = n + 1
      <4>1. n >= 1 /\ k - 1 = n
        BY <2>2, <3>2
      <4>2. QED  BY <1>3, <2>1, <3>1, <4>1
    <3>3. CASE k # n + 1
      <4>1. k \in 1 .. n
        BY <3>3
      <4>2. QED  BY <1>4, <1>12, <2>2, <3>1, <4>1 DEF NoneInFound
    <3>4. QED  BY <3>2, <3>3
  <2>3. QED  BY <1>12, <2>2 DEF NoneInFound
<1>21. QED  BY <1>15, <1>16, <1>17, <1>18, <1>19, <1>20 DEF HitInv

\* A span ends.
LEMMA HitEndSpan ==
  ASSUME IInv, CursorInv, HitInv, NEW at, At("span", at), NEW b, EndSpan(b)
  PROVE  HitInv'
<1>1. /\ page = "output" /\ stack # <<>> /\ Top = Last(stack) /\ IsStack(stack)
      /\ Top.fn = "span"
  BY AtIs
<1>2. PICK m \in Nat :
        /\ DOMAIN stack = 1 .. m + 1 /\ Last(stack) = stack[m + 1]
        /\ DOMAIN Front(stack) = 1 .. m
        /\ \A k \in 1 .. m : Front(stack)[k] = stack[k]
  BY <1>1, Popped DEF IsStack
<1>3. OnNext /\ Quiet /\ HitByHit /\ done <= Len(texts) /\ NoneInFound
  BY <1>1 DEF HitInv
<1>4. m + 1 \in DOMAIN stack /\ IsSpan(stack[m + 1]) /\ stack[m + 1] = Top
  BY <1>1, <1>2 DEF IsSpan
<1>5. Formats /\ ~Between
  BY <1>3, <1>4 DEF Formats, HitByHit
<1>6. /\ in_search' = Top.saved.in_search \/ in_search' = FALSE
      /\ UNCHANGED <<page, texts, done, hit>> /\ stack' = Front(stack)
  BY DEF EndSpan
<1>7. SpansKept
  BY <1>6, KeptFront
<1>8. ~AtHits' /\ ~AtHidden'
  <2>1. CASE stack' = <<>>
    BY <2>1 DEF AtHits, AtHidden
  <2>2. CASE stack' # <<>>
    <3>1. Calls(Last(stack'), Top)
      BY <1>1, <1>6, <2>2, StackPopped
    <3>2. m >= 1 /\ m + 1 > 1 /\ Last(stack') = stack[m]
      <4>1. PICK q \in Nat : DOMAIN stack' = 1 .. q + 1 /\ Last(stack') = stack'[q + 1]
        <5>1. IsStack(stack')
          BY <1>1, <1>6, StackPopped
        <5>2. QED  BY <2>2, <5>1, Popped DEF IsStack
      <4>2. 1 .. q + 1 = 1 .. m
        BY <1>2, <1>6, <4>1
      <4>3. q + 1 = m
        <5>1. q + 1 \in 1 .. m
          BY <4>2
        <5>2. m \in 1 .. q + 1
          BY <4>2, <5>1
        <5>3. QED  BY <5>1, <5>2
      <4>4. QED  BY <1>2, <1>6, <4>1, <4>3
    <3>3. stack[m].at \notin FoundPlaces
      <4>1. (m + 1) - 1 = m
        OBVIOUS
      <4>2. QED  BY <1>3, <1>4, <3>2, <4>1 DEF NoneInFound
    <3>4. Last(stack').fn = "content" => Last(stack').at = "top"
      BY <1>1, <3>1, <3>2, <3>3 DEF Calls
    <3>5. QED  BY <3>4 DEF AtHits, AtHidden, HitPlaces, HiddenPlaces, Top
  <2>3. QED  BY <2>1, <2>2
<1>9. OnNext' /\ ~Between' /\ done' <= Len(texts')
  BY <1>3, <1>5, <1>6 DEF OnNext, Between
<1>10. Formats' => ~in_search'
  <2>1. ASSUME NEW j \in 1 .. m, IsSpan(stack[j]) PROVE ~Top.saved.in_search
    <3>1. j < m + 1 /\ j \in DOMAIN stack
      BY <1>2
    <3>2. QED  BY <1>3, <1>4, <2>1, <3>1 DEF Quiet
  <2>2. ASSUME Formats' PROVE \E j \in 1 .. m : IsSpan(stack[j])
    BY <1>2, <1>6, <2>2 DEF Formats
  <2>3. QED  BY <1>6, <2>1, <2>2
<1>11. Quiet'
  <2>1. ASSUME NEW j \in DOMAIN stack', NEW k \in DOMAIN stack', j < k,
               IsSpan(stack'[j]), IsSpan(stack'[k])
        PROVE  ~stack'[k].saved.in_search
    <3>1. /\ j \in DOMAIN stack /\ IsSpan(stack[j])
          /\ k \in DOMAIN stack /\ IsSpan(stack[k]) /\ stack'[k].saved = stack[k].saved
      BY <1>7, <2>1 DEF SpansKept
    <3>2. QED  BY <1>3, <2>1, <3>1 DEF Quiet
  <2>2. QED  BY <1>10, <2>1 DEF Quiet
<1>12. HitByHit'
  BY <1>8, <1>9 DEF HitByHit
<1>13. page' = "output"
  BY <1>1, <1>6
<1>14. NoneInFound'
  BY <1>3, <1>7 DEF NoneInFound, SpansKept
<1>15. QED  BY <1>8, <1>9, <1>11, <1>12, <1>13, <1>14 DEF HitInv

\* The spans.
LEMMA HitSpan ==
  ASSUME IInv, CursorInv, HitInv, span, FormatSpan => ~InFound
  PROVE  HitInv'
<1>1. ASSUME NEW at, At("span", at), NEW b, EndSpan(b) PROVE HitInv'
  BY <1>1, HitEndSpan
<1>2. ASSUME NEW at, At("span", at), UNCHANGED cursor, page' = page, SpansKept, ~InText'
      PROVE  HitInv'
  <2>1. page = "output" /\ stack # <<>> /\ page' # "begin"
    BY <1>2 DEF At
  <2>2. Formats
    <3>1. /\ stack # <<>> /\ Top = Last(stack) /\ IsStack(stack) /\ Top.fn = "span"
      BY <1>2, AtIs
    <3>2. PICK m \in Nat : DOMAIN stack = 1 .. m + 1 /\ Last(stack) = stack[m + 1]
      BY <3>1, Popped DEF IsStack
    <3>3. m + 1 \in DOMAIN stack
      BY <3>2
    <3>4. QED  BY <3>1, <3>2, <3>3 DEF Formats, IsSpan
  <2>3. QED  BY <1>2, <2>1, <2>2, HitElsewhere
<1>3. CASE FormatSpan
  BY <1>3, HitFormatSpan
<1>4. CASE SpanFails \/ WalkUpDone
  BY <1>1, <1>4 DEF SpanFails, WalkUpDone
<1>5. CASE WalkDown \/ WalkUp
  <2>1. PICK at : At("span", at) /\ stack' = stack /\ UNCHANGED cursor /\ page' = page
    BY <1>5 DEF WalkDown, WalkUp
  <2>2. ~InText'
    BY <2>1 DEF InText, AtHits, AtHidden, At, Top
  <2>3. QED  BY <1>2, <2>1, <2>2, KeptStack
<1>6. ASSUME NEW at, At("span", at), NEW to, to # "top", stack' = Go(to)
      PROVE  SpansKept /\ ~InText'
  <2>1. SpansKept /\ stack' # <<>> /\ Top'.fn = "span"
    BY <1>6, KeptGo
  <2>2. QED  BY <2>1 DEF InText, AtHits, AtHidden
<1>7. CASE WalkDownDone
  <2>1. At("span", "down") /\ stack' = Go("output") /\ UNCHANGED cursor /\ page' = page
    BY <1>7 DEF WalkDownDone
  <2>2. SpansKept /\ ~InText'
    BY <1>6, <2>1
  <2>3. QED  BY <1>2, <2>1, <2>2
<1>8. CASE OutputSpan
  <2>1. At("span", "output") /\ IsStack(stack)
    BY <1>8, AtIs DEF OutputSpan
  <2>2. PICK yes : yes = TRUE
    OBVIOUS
  <2>3. PICK g : g = Frame("element", bounds.start_el, yes, yes)
    OBVIOUS
  <2>4. g.fn = "element"
    BY <2>3, FrameMade
  <2>5. stack' = Append(stack, g) /\ UNCHANGED cursor /\ page' = page
    BY <1>8, <2>2, <2>3 DEF OutputSpan
  <2>6. \A k \in DOMAIN stack' :
          \/ stack'[k] = g
          \/ /\ k \in DOMAIN stack /\ stack'[k] = stack[k]
             /\ k > 1 => stack'[k - 1] = stack[k - 1]
    BY <2>1, <2>5, PushedAt
  <2>7. SpansKept
    BY <2>4, <2>6 DEF SpansKept, IsSpan
  <2>8. Top' = g
    <3>1. PICK n \in Nat : Len(stack') = n + 1 /\ stack'[n + 1] = g
      BY <2>1, <2>5, Pushed DEF IsStack
    <3>2. QED  BY <3>1 DEF Top, Last
  <2>9. ~InText'
    BY <2>4, <2>8 DEF InText, AtHits, AtHidden
  <2>10. QED  BY <1>2, <2>1, <2>5, <2>7, <2>9
<1>9. CASE SpanOutput
  <2>1. At("span", "output")
    BY <1>9 DEF SpanOutput
  <2>2. CASE ret = 0 \/ ~Commands[Top.saved.command].up
    BY <1>1, <1>9, <2>1, <2>2 DEF SpanOutput
  <2>3. CASE ~(ret = 0 \/ ~Commands[Top.saved.command].up)
    <3>1. stack' = Go("up") /\ UNCHANGED cursor /\ page' = page
      BY <1>9, <2>3 DEF SpanOutput
    <3>2. SpansKept /\ ~InText'
      BY <1>6, <2>1, <3>1
    <3>3. QED  BY <1>2, <2>1, <3>1, <3>2
  <2>4. QED  BY <2>2, <2>3
<1>10. QED  BY <1>3, <1>4, <1>5, <1>7, <1>8, <1>9 DEF span

\* The hits that begin before the first element are skipped: what is next, if
\* there is one, begins at that element or after it, and what was skipped last
\* before it.
LEMMA SkipsTo ==
  ASSUME texts = <<>> \/ texts \in Searches, done = 0, NEW el \in Nat
  PROVE  /\ Skipped(el) \in Nat /\ Skipped(el) <= Len(texts)
         /\ Skipped(el) < Len(texts) => texts[Skipped(el) + 1].start_el >= el
         /\ Skipped(el) >= 1 => ~(texts[Skipped(el)].start_el >= el)
<1>1. Len(texts) \in Nat
  BY FoundLength
<1>2. PICK S : S = {c \in 0 .. Len(texts) - 1 : texts[c + 1].start_el >= el}
  OBVIOUS
<1>3. Skipped(el) = IF S = {} THEN Len(texts) ELSE CHOOSE c \in S : \A d \in S : c <= d
  BY <1>2 DEF Skipped
<1>4. S \in SUBSET Nat
  BY <1>1, <1>2
<1>5. CASE S = {}
  <2>1. PICK n \in Nat : n = Skipped(el) /\ n = Len(texts)
    BY <1>1, <1>3, <1>5
  <2>2. ASSUME n >= 1, texts[n].start_el >= el PROVE FALSE
    <3>1. PICK d \in Nat : n = d + 1
      <4>1. n - 1 \in Nat /\ n = (n - 1) + 1
        BY <2>2
      <4>2. QED  BY <4>1
    <3>2. d \in 0 .. Len(texts) - 1 /\ texts[d + 1].start_el >= el
      BY <2>1, <2>2, <3>1
    <3>3. QED  BY <1>2, <1>5, <3>2
  <2>3. QED  BY <2>1, <2>2
<1>6. CASE S # {}
  <2>1. \E c \in S : \A d \in S : c <= d
    BY <1>4, <1>6, MinIsLeast
  <2>2. PICK n : n = Skipped(el)
    OBVIOUS
  <2>3. n \in S /\ \A d \in S : n <= d
    BY <1>3, <1>6, <2>1, <2>2
  <2>4. n \in 0 .. Len(texts) - 1 /\ texts[n + 1].start_el >= el
    BY <1>2, <2>3
  <2>5. ASSUME n >= 1, texts[n].start_el >= el PROVE FALSE
    <3>1. PICK d \in Nat : n = d + 1
      <4>1. n - 1 \in Nat /\ n = (n - 1) + 1
        BY <2>4, <2>5
      <4>2. QED  BY <4>1
    <3>2. d \in 0 .. Len(texts) - 1 /\ texts[d + 1].start_el >= el
      BY <1>1, <2>4, <2>5, <3>1
    <3>3. d \in S
      BY <1>2, <3>2
    <3>4. QED  BY <2>3, <3>1, <3>3
  <2>6. QED  BY <1>1, <2>2, <2>4, <2>5
<1>7. QED  BY <1>5, <1>6

\* Before and after the output.
LEMMA HitPage ==
  ASSUME IInv, CursorInv, HitInv, Within, make_reader_file
  PROVE  HitInv' /\ (done' # done => ~Formats)
<1>1. Len(texts) \in Nat
  BY TextsLength
<1>2. CASE get_find_sg_text
  <2>1. /\ page = "begin" /\ page' = "begin" /\ done' = done /\ hit' = hit
        /\ in_search' = TRUE /\ texts' \in Searches
    BY <1>2 DEF get_find_sg_text
  <2>2. done' = 0 /\ hit'.start_el = 0
    BY <2>1 DEF HitInv
  <2>3. Len(texts') \in Nat
    BY <2>1, SearchesAssumption
  <2>4. QED  BY <2>1, <2>2, <2>3 DEF HitInv
<1>3. CASE NoPage \/ EndPage
  <2>1. UNCHANGED <<texts, done>> /\ page' = "closed"
    BY <1>3 DEF NoPage, EndPage, cursor
  <2>2. QED  BY <2>1 DEF HitInv
<1>4. CASE StartPage
  <2>1. PICK el \in Starts :
          /\ IF in_search THEN update_curr_search(el) ELSE UNCHANGED cursor
          /\ stack' = <<[Frame("element", el, outputSiblings, outputRight)
                           EXCEPT !.hide = hide']>>
    BY <1>4 DEF StartPage
  <2>2. /\ page = "begin" /\ page' = "output" /\ stack = <<>>
        /\ done = 0 /\ hit.start_el = 0 /\ (texts # <<>> => in_search)
    BY <1>4 DEF StartPage, HitInv, IInv
  <2>3. PICK h : h = hide'
    OBVIOUS
  <2>4. PICK g : g = FrameOf(el, outputSiblings, outputRight, h)
    OBVIOUS
  <2>5. stack' = <<g>> /\ g.fn = "element"
    <3>1. stack' = <<g>>
      BY <2>1, <2>3, <2>4 DEF FrameOf
    <3>2. g.fn = "element"
      BY <2>4, FirstFrame
    <3>3. QED  BY <3>1, <3>2
  <2>6. ~Formats' /\ ~AtHits' /\ ~AtHidden'
    BY <2>5 DEF Formats, IsSpan, AtHits, AtHidden, Top, Last
  <2>7. ~Formats
    BY <2>2 DEF Formats
  <2>8. el \in Nat
    BY BookAssumption
  <2>9. PICK n \in Nat :
          /\ n <= Len(texts) /\ done' = n /\ texts' = texts
          /\ n < Len(texts) => texts[n + 1].start_el >= el /\ hit' = texts[n + 1]
          /\ n >= 1 /\ n < Len(texts) => ~(texts[n].start_el >= el)
          /\ ~(n < Len(texts)) => hit' = hit
    <3>1. CASE in_search
      <4>1. PICK n \in Nat : /\ n = Skipped(el) /\ n <= Len(texts)
                             /\ n < Len(texts) => texts[n + 1].start_el >= el
                             /\ n >= 1 /\ n < Len(texts) => ~(texts[n].start_el >= el)
        BY <2>2, <2>8, SkipsTo DEF CursorInv
      <4>2. done' = n /\ texts' = texts /\ hit' = IF n < Len(texts) THEN texts[n + 1] ELSE hit
        BY <2>1, <3>1, <4>1 DEF update_curr_search
      <4>3. QED  BY <4>1, <4>2
    <3>2. CASE ~in_search
      <4>1. texts = <<>> /\ UNCHANGED <<texts, done, hit>>
        BY <2>1, <2>2, <3>2 DEF cursor
      <4>2. Len(texts) = 0
        BY <4>1
      <4>3. QED  BY <2>2, <4>1, <4>2
    <3>3. QED  BY <3>1, <3>2
  <2>10. OnNext'
    BY <1>1, <2>2, <2>9 DEF OnNext
  <2>11. ~Between'
    <3>1. SUFFICES ASSUME n >= 1, n < Len(texts), texts[n].end_el = texts[n + 1].start_el
                   PROVE  FALSE
      BY <2>9 DEF Between
    <3>2. texts \in Searches /\ n \in DOMAIN texts
      <4>1. n \in 1 .. Len(texts)
        BY <1>1, <3>1
      <4>2. QED  BY <4>1, HitsFound
    <3>3. texts[n].end_el = texts[n].start_el
      BY <3>2 DEF Within
    <3>4. QED  BY <2>9, <3>1, <3>3
  <2>12. Quiet'
    BY <2>6 DEF Quiet, Formats
  <2>13. HitByHit'
    BY <2>6, <2>11 DEF HitByHit
  <2>14. NoneInFound'
    BY <2>6 DEF NoneInFound, Formats
  <2>15. QED  BY <2>2, <2>6, <2>7, <2>9, <2>10, <2>12, <2>13, <2>14 DEF HitInv
<1>5. QED  BY <1>2, <1>3, <1>4 DEF make_reader_file

\* No step passes a hit in a span.
LEMMA NextHitInv ==
  ASSUME IInv, CursorInv, HitInv, Within, Hides \subseteq {0, 2}, [Next]_vars
  PROVE  (~spans.found' => HitInv') /\ (Depth > 0 /\ Depth' > 0 => done' = done)
<1>1. ~Formats => Depth = 0
  <2>1. ASSUME ~Formats PROVE {k \in DOMAIN stack : stack[k].fn = "span"} = {}
    BY <2>1 DEF Formats, IsSpan
  <2>2. QED  BY <2>1, FS_EmptySet DEF Depth
<1>2. CASE UNCHANGED vars
  <2>1. UNCHANGED <<page, stack, in_search, texts, done, hit, told_to_stop>>
    BY <1>2 DEF vars, cursor
  <2>2. HitInv'
    BY <2>1 DEF HitInv, OnNext, Quiet, HitByHit, Top, AtHits, AtHidden, Prev, Ahead,
       Between, Formats, NoneInFound
  <2>3. QED  BY <2>1, <2>2
<1>3. CASE output_element
  <2>1. done' = done
    BY <1>3 DEF output_element, ElementFails, Begin, EndSkipped, EndFails, End,
       NextElement, ClimbFails, Climb, GoOn, Jump, CloneRefused, cursor
  <2>2. QED  BY <1>3, <2>1, HitElement
<1>4. CASE span
  <2>1. done' = done
    BY <1>4 DEF span, FormatSpan, SpanFails, WalkDown, WalkDownDone, OutputSpan,
       SpanOutput, WalkUp, WalkUpDone, EndSpan, cursor
  <2>2. ~spans.found' => (FormatSpan => ~InFound)
    BY FoundStays
  <2>3. QED  BY <1>4, <2>1, <2>2, HitSpan
<1>5. CASE output_content \/ make_reader_file
  <2>1. HitInv' /\ (done' # done => ~Formats)
    BY <1>5, HitContent, HitPage
  <2>2. ASSUME Depth > 0 PROVE done' = done
    <3>1. Formats
      BY <1>1, <2>2
    <3>2. QED  BY <2>1, <3>1
  <2>3. QED  BY <2>1, <2>2
<1>6. QED  BY <1>2, <1>3, <1>4, <1>5 DEF Next

\* Until a procedure for found text formats a span.
UntilFound(P) == ~spans.found => P

\* What is known of the cursor: where it is, and that no span moves it.
LEMMA Cursor ==
  ASSUME Within, Hides \subseteq {0, 2}
  PROVE  Spec => [](IInv /\ UntilFound(CursorInv) /\ UntilFound(HitInv))
<1>1. Init => CursorInv /\ HitInv
  <2>1. ASSUME Init PROVE CursorInv /\ HitInv
    <3>1. in_search \in BOOLEAN
      BY <2>1 DEF Init
    <3>2. done = 0 /\ texts = <<>> /\ page = "begin" /\ hit.start_el = 0 /\ Len(texts) = 0
      BY <2>1 DEF Init, NoHit
    <3>3. QED  BY <3>1, <3>2 DEF CursorInv, HitInv
  <2>2. QED  BY <2>1
<1>2. IInv /\ IInv' /\ UntilFound(CursorInv) /\ UntilFound(HitInv) /\ [Next]_vars
        => UntilFound(CursorInv)' /\ UntilFound(HitInv)'
  <2>1. SUFFICES ASSUME IInv, IInv', UntilFound(CursorInv), UntilFound(HitInv),
                        [Next]_vars, ~spans.found'
                 PROVE  CursorInv' /\ HitInv'
    BY DEF UntilFound
  <2>2. CursorInv /\ HitInv
    BY <2>1, FoundStays DEF UntilFound
  <2>3. HitInv' /\ (Depth > 0 /\ Depth' > 0 => done' = done)
    BY <2>1, <2>2, NextHitInv
  <2>4. QED  BY <2>1, <2>2, <2>3, NextCursorInv
<1>3. Init => UntilFound(CursorInv) /\ UntilFound(HitInv)
  BY <1>1 DEF UntilFound
<1>4. QED  BY <1>2, <1>3, Invariance, PTL DEF Spec

\* If each hit lies within one text and no procedure sets hide to 1, no span
\* takes the cursor past a hit until a procedure for found text formats one,
\* although the end of the last hit is looked for in spans too: the other
\* procedures, of elements as of what is above a span or climbed to, do not run
\* between two hits of one text.
THEOREM SpansPassNoHit == Within /\ Hides \subseteq {0, 2} => (Spec => SpanPassesNoHit)
<1>1. SUFFICES ASSUME Within, Hides \subseteq {0, 2} PROVE Spec => SpanPassesNoHit
  OBVIOUS
<1>2. IInv /\ UntilFound(CursorInv) /\ UntilFound(HitInv) /\ [Next]_vars
        => [Depth > 0 /\ Depth' > 0 /\ ~spans.found => done' = done]_vars
  BY <1>1, NextHitInv DEF UntilFound
<1>3. Spec => [](IInv /\ UntilFound(CursorInv) /\ UntilFound(HitInv))
  BY <1>1, Cursor
<1>4. QED  BY <1>2, <1>3, PTL DEF Spec, SpanPassesNoHit

\* So the cursor is on the next hit while hits are to come, whatever spans the
\* other procedures format, one within the other too, and however they fail.
THEOREM CursorStaysOnHit == Within /\ Hides \subseteq {0, 2} => (Spec => []CursorOnHit)
<1>1. SUFFICES ASSUME Within, Hides \subseteq {0, 2} PROVE Spec => []CursorOnHit
  OBVIOUS
<1>2. UntilFound(CursorInv) => CursorOnHit
  BY DEF UntilFound, CursorInv, CursorOnHit, OnHit
<1>3. Spec => [](IInv /\ UntilFound(CursorInv) /\ UntilFound(HitInv))
  BY <1>1, Cursor
<1>4. QED  BY <1>2, <1>3, PTL
=============================================================================
