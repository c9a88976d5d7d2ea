--------------------------- MODULE HashLiloProofs ---------------------------
(***************************************************************************)
(* Proofs about HashLilo: that the table and the list agree, that what is  *)
(* counted is what is held, that a cached object has its own path, and     *)
(* that make_element_path reads of an ancestor that is there. First the    *)
(* facts about its operators: what the operations on the list do to the    *)
(* sequence of its cells, what PathTo is, and what each piece of           *)
(* make_element_path does to what a call has noted.  At the end, that the  *)
(* cache implements LruCache.                                              *)
(***************************************************************************)
EXTENDS HashLilo, CollectionLemmas

Links == [first : Cells \cup {NULL}, last : Cells \cup {NULL},
          next : [Cells -> Cells \cup {NULL}],
          prev : [Cells -> Cells \cup {NULL}]]

\* The links l are those of the list q, and of no other cell.
Linked(l, q) ==
  /\ l.first = IF q = <<>> THEN NULL ELSE q[1]
  /\ l.last = IF q = <<>> THEN NULL ELSE q[Len(q)]
  /\ \A k \in 1 .. Len(q) :
       /\ l.next[q[k]] = IF k = Len(q) THEN NULL ELSE q[k + 1]
       /\ l.prev[q[k]] = IF k = 1 THEN NULL ELSE q[k - 1]
  /\ \A c \in Cells \ Range(q) : l.next[c] = NULL /\ l.prev[c] = NULL

\* A list of cells, each once.
Lists == {q \in Seq(Cells) : IsInjective(q)}

(***************************************************************************)
(* The operations on the list, as what they do to the sequence of cells    *)
(***************************************************************************)
\* A cell that is on no list, put in front, is the head of the list.
LEMMA AtFrontLinked ==
  ASSUME NEW l \in Links, NEW q \in Lists, Linked(l, q), NEW c \in Cells \ Range(q)
  PROVE  /\ AtFront(l, c) \in Links
         /\ Linked(AtFront(l, c), Cons(c, q))
         /\ Cons(c, q) \in Lists
         /\ Range(Cons(c, q)) = Range(q) \cup {c}
<1> DEFINE t == Cons(c, q)
           m == AtFront(l, c)
<1>1. t \in Lists /\ Range(t) = Range(q) \cup {c}
  BY ConsList DEF Lists
<1>2. PICK n \in Nat : n = Len(q)
  BY DEF Lists
<1>3. /\ Len(t) = n + 1
      /\ \A k \in 1 .. n + 1 : t[k] = IF k = 1 THEN c ELSE q[k - 1]
  <2>1. q \in Seq(Cells) /\ c \in Cells
    BY DEF Lists
  <2>2. /\ Len(t) = Len(q) + 1
        /\ \A k \in 1 .. Len(q) + 1 : t[k] = IF k = 1 THEN c ELSE q[k - 1]
    BY <2>1, ConsShape
  <2> HIDE DEF t
  <2>3. QED  BY <1>2, <2>2
<1>4. DOMAIN q = 1 .. n /\ q \in Seq(Cells) /\ DOMAIN t = 1 .. n + 1 /\ t # <<>>
  BY <1>1, <1>2, <1>3 DEF Lists
<1>5. \A k \in 1 .. n : q[k] \in Cells /\ q[k] # c
  BY <1>4 DEF Range
<1>6. NULL \notin Cells
  BY CellsAssumption
<1> HIDE DEF t
<1>7. CASE q = <<>>
  <2>1. l.first = NULL /\ l.last = NULL /\ n = 0
    BY <1>2, <1>7 DEF Linked
  <2>2. /\ m \in Links
        /\ m.first = c /\ m.last = c /\ m.next = l.next /\ m.prev = l.prev
    BY <2>1 DEF AtFront, Links
  <2>3. Range(q) = {}
    BY <1>7 DEF Range
  <2>4. \A d \in Cells : l.next[d] = NULL /\ l.prev[d] = NULL
    BY <2>3 DEF Linked
  <2>5. \A k \in 1 .. Len(t) : k = 1 /\ t[k] = c
    BY <1>3, <2>1
  <2> HIDE DEF m
  <2>6. Linked(m, t)
    BY <1>3, <1>4, <2>1, <2>2, <2>4, <2>5 DEF Linked
  <2>7. QED  BY <1>1, <2>2, <2>6 DEF m, t
<1>8. CASE q # <<>>
  <2>1. l.first = q[1] /\ l.last = q[n] /\ n >= 1
    BY <1>2, <1>4, <1>8, EmptySeq DEF Linked
  <2>2. q[1] \in Cells /\ q[n] \in Cells /\ q[1] # c
    BY <1>5, <2>1
  <2>3. /\ m \in Links
        /\ m.first = c /\ m.last = l.last
        /\ m.next = [l.next EXCEPT ![c] = l.first]
        /\ m.prev = [l.prev EXCEPT ![l.first] = c]
    BY <1>6, <2>1, <2>2 DEF AtFront, Links
  <2>4. l.next \in [Cells -> Cells \cup {NULL}] /\ l.prev \in [Cells -> Cells \cup {NULL}]
    BY DEF Links
  <2>5. /\ \A d \in Cells : m.next[d] = IF d = c THEN q[1] ELSE l.next[d]
        /\ \A d \in Cells : m.prev[d] = IF d = q[1] THEN c ELSE l.prev[d]
    BY <2>1, <2>2, <2>3, <2>4
  <2>6. l.prev[c] = NULL
    BY DEF Linked
  <2>7. \A j, k \in 1 .. n : q[j] = q[k] => j = k
    BY <1>4 DEF Lists, IsInjective
  <2>8. \A k \in 1 .. n : /\ l.next[q[k]] = IF k = n THEN NULL ELSE q[k + 1]
                          /\ l.prev[q[k]] = IF k = 1 THEN NULL ELSE q[k - 1]
    BY <1>2 DEF Linked
  <2> HIDE DEF m
  <2>9. ASSUME NEW k \in 1 .. n + 1
        PROVE  /\ m.next[t[k]] = IF k = n + 1 THEN NULL ELSE t[k + 1]
               /\ m.prev[t[k]] = IF k = 1 THEN NULL ELSE t[k - 1]
    <3>1. CASE k = 1
      BY <1>3, <2>1, <2>2, <2>5, <2>6, <3>1
    <3>2. CASE k # 1
      <4>1. k - 1 \in 1 .. n /\ t[k] = q[k - 1] /\ (k - 1) + 1 = k
        BY <1>3, <3>2
      <4>2. m.next[t[k]] = l.next[q[k - 1]]
        BY <1>5, <2>5, <4>1
      <4>3. m.next[t[k]] = IF k - 1 = n THEN NULL ELSE q[k]
        BY <2>8, <4>1, <4>2
      <4>4. k # n + 1 => t[k + 1] = q[k]
        BY <1>3, <3>2
      <4>5. m.prev[t[k]] = IF q[k - 1] = q[1] THEN c ELSE l.prev[q[k - 1]]
        BY <1>5, <2>5, <4>1
      <4>6. k = 2 => t[k - 1] = c /\ q[k - 1] = q[1]
        BY <1>3
      <4>7. k # 2 => /\ t[k - 1] = q[k - 2] /\ q[k - 1] # q[1]
                     /\ l.prev[q[k - 1]] = q[k - 2]
        BY <1>3, <2>1, <2>7, <2>8, <3>2, <4>1
      <4>8. QED  BY <3>2, <4>3, <4>4, <4>5, <4>6, <4>7
    <3>3. QED  BY <3>1, <3>2
  <2>10. ASSUME NEW d \in Cells \ Range(t)
         PROVE  m.next[d] = NULL /\ m.prev[d] = NULL
    <3>1. q[1] \in Range(q)
      BY <1>4, <2>1 DEF Range
    <3>2. d # c /\ d \in Cells \ Range(q) /\ d # q[1]
      BY <1>1, <3>1 DEF t
    <3>3. QED  BY <2>5, <3>2 DEF Linked
  <2>11. t[1] = c /\ t[n + 1] = q[n]
    BY <1>3, <2>1
  <2>12. Linked(m, t)
    BY <1>3, <1>4, <2>1, <2>3, <2>9, <2>10, <2>11 DEF Linked
  <2>13. QED  BY <1>1, <2>3, <2>12 DEF m, t
<1>9. QED  BY <1>7, <1>8

\* A cell taken out of the list leaves the rest linked as it was.
LEMMA UnlinkedLinked ==
  ASSUME NEW l \in Links, NEW q \in Lists, Linked(l, q), NEW c \in Range(q)
  PROVE  /\ Unlinked(l, c) \in Links
         /\ Linked(Unlinked(l, c), RemoveFirst(q, c))
         /\ RemoveFirst(q, c) \in Lists
         /\ Range(RemoveFirst(q, c)) = Range(q) \ {c}
<1> DEFINE t == RemoveFirst(q, c)
           m == Unlinked(l, c)
<1>1. t \in Lists /\ Range(t) = Range(q) \ {c}
  BY RemoveFirstList DEF Lists
<1>2. PICK n \in Nat : n = Len(q)
  BY DEF Lists
<1>3. DOMAIN q = 1 .. n /\ q \in Seq(Cells)
  BY <1>2 DEF Lists
<1>4. PICK p \in 1 .. n : q[p] = c
  BY <1>3 DEF Range
<1>5. /\ Len(t) = n - 1
      /\ \A k \in 1 .. n - 1 : t[k] = IF k < p THEN q[k] ELSE q[k + 1]
  <2>1. IsInjective(q) /\ p \in 1 .. Len(q)
    BY <1>2 DEF Lists
  <2>2. t = RemoveAt(q, p)
    BY <1>3, <1>4, <2>1, RemoveFirstIs
  <2> HIDE DEF t
  <2>3. QED  BY <1>2, <1>3, <2>1, <2>2, RemoveAtShape
<1>6. DOMAIN t = 1 .. n - 1
  BY <1>1, <1>5 DEF Lists
<1> HIDE DEF t
<1>7. \A k \in 1 .. n : q[k] \in Cells /\ q[k] # NULL
  BY <1>3, CellsAssumption
<1>8. \A j, k \in 1 .. n : q[j] = q[k] => j = k
  BY <1>3 DEF Lists, IsInjective
<1>9. /\ \A k \in 1 .. n : l.next[q[k]] = IF k = n THEN NULL ELSE q[k + 1]
      /\ \A k \in 1 .. n : l.prev[q[k]] = IF k = 1 THEN NULL ELSE q[k - 1]
      /\ l.first = q[1] /\ l.last = q[n]
  <2>1. q # <<>>
    BY <1>2, <1>4
  <2>2. QED  BY <1>2, <2>1 DEF Linked
<1>10. /\ l.next \in [Cells -> Cells \cup {NULL}]
       /\ l.prev \in [Cells -> Cells \cup {NULL}]
       /\ c \in Cells
  BY <1>4, <1>7 DEF Links
<1>11. /\ m \in Links
       /\ m.next = [x \in Cells |-> IF x = l.prev[c] THEN l.next[c]
                                    ELSE IF x = c THEN NULL ELSE l.next[x]]
       /\ m.prev = [x \in Cells |-> IF x = l.next[c] THEN l.prev[c]
                                    ELSE IF x = c THEN NULL ELSE l.prev[x]]
       /\ m.first = IF c = l.first THEN l.next[c] ELSE l.first
       /\ m.last = IF c = l.last THEN l.prev[c] ELSE l.last
  <2> DEFINE u == UnlinkedButLast(l, c)
  <2>1. /\ u.next = [x \in Cells |-> IF x = l.prev[c] THEN l.next[c]
                                    ELSE IF x = c THEN NULL ELSE l.next[x]]
        /\ u.prev = [x \in Cells |-> IF x = l.next[c] THEN l.prev[c]
                                    ELSE IF x = c THEN NULL ELSE l.prev[x]]
        /\ u.first = IF c = l.first THEN l.next[c] ELSE l.first
        /\ u.last = l.last
        /\ u \in Links
    BY <1>10 DEF UnlinkedButLast, Links
  <2>2. m = [u EXCEPT !.last = IF c = @ THEN l.prev[c] ELSE @]
    BY DEF Unlinked
  <2> HIDE DEF u, m
  <2>3. QED  BY <1>10, <2>1, <2>2 DEF Links
<1> HIDE DEF m
<1>12. ASSUME NEW k \in 1 .. n, k # p
       PROVE  /\ m.next[q[k]] = IF k + 1 = p THEN l.next[c] ELSE l.next[q[k]]
              /\ m.prev[q[k]] = IF k - 1 = p THEN l.prev[c] ELSE l.prev[q[k]]
  <2>1. q[k] # c
    BY <1>4, <1>8, <1>12
  <2>2. q[k] = l.prev[c] <=> k + 1 = p
    BY <1>4, <1>7, <1>8, <1>9
  <2>3. q[k] = l.next[c] <=> k - 1 = p
    BY <1>4, <1>7, <1>8, <1>9
  <2>4. q[k] \in Cells
    BY <1>7
  <2>5. QED  BY <1>11, <2>1, <2>2, <2>3, <2>4
<1>13. ASSUME NEW k \in 1 .. n - 1
       PROVE  /\ m.next[t[k]] = IF k = n - 1 THEN NULL ELSE t[k + 1]
              /\ m.prev[t[k]] = IF k = 1 THEN NULL ELSE t[k - 1]
  <2>1. CASE k < p
    <3>1. k \in 1 .. n /\ k # p /\ k # n /\ k - 1 # p /\ t[k] = q[k]
      BY <1>5, <2>1
    <3>2. k + 1 = p => m.next[t[k]] = IF p = n THEN NULL ELSE q[p + 1]
      BY <1>4, <1>9, <1>12, <3>1
    <3>3. k + 1 = p /\ k # n - 1 => p # n /\ t[k + 1] = q[p + 1]
      BY <1>5
    <3>4. k + 1 # p => /\ m.next[t[k]] = q[k + 1]
                       /\ k # n - 1 /\ t[k + 1] = q[k + 1]
      BY <1>5, <1>9, <1>12, <2>1, <3>1
    <3>5. m.prev[t[k]] = IF k = 1 THEN NULL ELSE q[k - 1]
      BY <1>9, <1>12, <3>1
    <3>6. k # 1 => t[k - 1] = q[k - 1]
      BY <1>5, <2>1
    <3>7. QED  BY <3>2, <3>3, <3>4, <3>5, <3>6
  <2>2. CASE k >= p
    <3>1. k + 1 \in 1 .. n /\ k + 1 # p /\ (k + 1) + 1 # p /\ (k + 1) - 1 = k
      BY <2>2
    <3>2. t[k] = q[k + 1]
      BY <1>5, <2>2
    <3>3. m.next[t[k]] = IF k + 1 = n THEN NULL ELSE q[(k + 1) + 1]
      BY <1>9, <1>12, <3>1, <3>2
    <3>4. k # n - 1 => t[k + 1] = q[(k + 1) + 1]
      BY <1>5, <2>2
    <3>5. k = p => m.prev[t[k]] = IF p = 1 THEN NULL ELSE q[p - 1]
      BY <1>4, <1>9, <1>12, <3>1, <3>2
    <3>6. k # p => m.prev[t[k]] = q[k]
      BY <1>9, <1>12, <3>1, <3>2
    <3>7. k # 1 => t[k - 1] = IF k = p THEN q[p - 1] ELSE q[k]
      <4>1. k # 1 => k - 1 \in 1 .. n - 1 /\ (k - 1) + 1 = k
        OBVIOUS
      <4>2. k = p => k - 1 < p
        OBVIOUS
      <4>3. k # p => ~(k - 1 < p)
        BY <2>2
      <4>4. QED  BY <1>5, <4>1, <4>2, <4>3
    <3>8. k # p => k # 1
      BY <2>2
    <3>9. k = n - 1 <=> k + 1 = n
      OBVIOUS
    <3>10. QED  BY <3>3, <3>4, <3>5, <3>6, <3>7, <3>8, <3>9
  <2>3. QED  BY <2>1, <2>2
<1>14. ASSUME NEW d \in Cells \ Range(t)
       PROVE  m.next[d] = NULL /\ m.prev[d] = NULL
  <2>1. CASE d = c
    <3>1. c # l.prev[c] /\ c # l.next[c]
      BY <1>4, <1>7, <1>8, <1>9
    <3>2. QED  BY <1>11, <1>10, <2>1, <3>1
  <2>2. CASE d # c
    <3>1. d \in Cells \ Range(q)
      BY <1>1, <2>2 DEF t
    <3>2. l.next[d] = NULL /\ l.prev[d] = NULL
      BY <3>1 DEF Linked
    <3>3. d # l.prev[c] /\ d # l.next[c]
      <4>1. \A k \in 1 .. n : q[k] \in Range(q)
        BY <1>3 DEF Range
      <4>2. d # NULL
        BY CellsAssumption
      <4>3. p # 1 => l.prev[c] \in Range(q)
        BY <1>4, <1>9, <4>1
      <4>4. p # n => l.next[c] \in Range(q)
        BY <1>4, <1>9, <4>1
      <4>5. (p = 1 => l.prev[c] = NULL) /\ (p = n => l.next[c] = NULL)
        BY <1>4, <1>9
      <4>6. QED  BY <3>1, <4>2, <4>3, <4>4, <4>5
    <3>4. QED  BY <1>11, <2>2, <3>2, <3>3
  <2>3. QED  BY <2>1, <2>2
<1>15. m.first = IF n = 1 THEN NULL ELSE t[1]
  <2>1. c = l.first <=> p = 1
    BY <1>4, <1>8, <1>9
  <2>2. p = 1 => l.next[c] = IF n = 1 THEN NULL ELSE q[2]
    BY <1>4, <1>9
  <2>3. n # 1 => t[1] = IF p = 1 THEN q[2] ELSE q[1]
    BY <1>5
  <2>4. n = 1 => p = 1
    OBVIOUS
  <2>5. QED  BY <1>9, <1>11, <2>1, <2>2, <2>3, <2>4
<1>16. m.last = IF n = 1 THEN NULL ELSE t[n - 1]
  <2>1. c = l.last <=> p = n
    BY <1>4, <1>8, <1>9
  <2>2. p = n => l.prev[c] = IF n = 1 THEN NULL ELSE q[n - 1]
    BY <1>4, <1>9
  <2>3. n # 1 => t[n - 1] = IF p = n THEN q[n - 1] ELSE q[n]
    <3>1. n # 1 => n - 1 \in 1 .. n - 1 /\ (n - 1) + 1 = n
      OBVIOUS
    <3>2. p = n <=> n - 1 < p
      OBVIOUS
    <3>3. QED  BY <1>5, <3>1, <3>2
  <2>4. n = 1 => p = n
    OBVIOUS
  <2>5. QED  BY <1>9, <1>11, <2>1, <2>2, <2>3, <2>4
<1>17. t = <<>> <=> n = 1
  <2>1. t = <<>> <=> Len(t) = 0
    BY <1>1, EmptySeq DEF Lists
  <2>2. QED  BY <1>5, <2>1
<1>18. Linked(m, t)
  BY <1>5, <1>13, <1>14, <1>15, <1>16, <1>17 DEF Linked
<1>19. QED  BY <1>1, <1>11, <1>18 DEF m, t

\* The list without its last cell: that cell, taken out.
LEMMA WithoutLastLinked ==
  ASSUME NEW l \in Links, NEW q \in Lists, Linked(l, q), q # <<>>
  PROVE  /\ l.last = q[Len(q)] /\ l.last \in Range(q)
         /\ Front(q) = RemoveFirst(q, l.last)
         /\ WithoutLast(l) = Unlinked(l, l.last)
<1>1. PICK n \in Nat : n = Len(q)
  BY DEF Lists
<1>2. n >= 1 /\ DOMAIN q = 1 .. n /\ q \in Seq(Cells) /\ IsInjective(q)
  <2>1. q \in Seq(Cells) /\ IsInjective(q) /\ DOMAIN q = 1 .. n
    BY <1>1 DEF Lists
  <2>2. Len(q) \in Nat \ {0}
    BY <2>1, EmptySeq
  <2>3. QED  BY <1>1, <2>1, <2>2
<1> DEFINE c == q[n]
<1>3. l.last = c /\ l.first = q[1] /\ c \in Range(q) /\ c \in Cells
  BY <1>1, <1>2 DEF Linked, Range
<1>4. Front(q) = RemoveFirst(q, c)
  <2>1. RemoveFirst(q, c) = RemoveAt(q, n)
    BY <1>1, <1>2, RemoveFirstIs
  <2>2. /\ RemoveAt(q, n) \in Seq(Cells)
        /\ Len(RemoveAt(q, n)) = n - 1
        /\ \A k \in 1 .. n - 1 : RemoveAt(q, n)[k] = q[k]
    <3>1. /\ RemoveAt(q, n) \in Seq(Cells)
          /\ Len(RemoveAt(q, n)) = n - 1
          /\ \A k \in 1 .. n - 1 :
               RemoveAt(q, n)[k] = IF k < n THEN q[k] ELSE q[k + 1]
      <4>1. n \in 1 .. Len(q)
        BY <1>1, <1>2
      <4>2. QED  BY <1>1, <1>2, <4>1, RemoveAtShape
    <3>2. QED  BY <3>1
  <2>3. /\ Front(q) \in Seq(Cells)
        /\ Len(Front(q)) = n - 1
        /\ \A k \in 1 .. n - 1 : Front(q)[k] = q[k]
    BY <1>1, <1>2, FrontList
  <2>4. QED  BY <2>1, <2>2, <2>3, SeqEqual
<1>5. WithoutLast(l) = Unlinked(l, c)
  <2>1. /\ l.next[c] = NULL
        /\ l.prev[c] = IF n = 1 THEN NULL ELSE q[n - 1]
    BY <1>1, <1>2 DEF Linked
  <2>2. \A k \in 1 .. n : q[k] \in Cells /\ q[k] # NULL
    BY <1>2, CellsAssumption
  <2>3. l.first = c <=> n = 1
    BY <1>2, <1>3 DEF IsInjective
  <2> DEFINE p == l.prev[c]
             w == WithoutLast(l)
             m == Unlinked(l, c)
  <2>4. p = NULL <=> n = 1
    BY <1>2, <2>1, <2>2
  <2>5. p # NULL => p \in Cells /\ p # c
    BY <1>2, <2>1, <2>2 DEF IsInjective
  <2>6. /\ w \in Links
        /\ w.first = IF p = NULL THEN NULL ELSE l.first
        /\ w.last = p
        /\ w.next = IF p = NULL THEN l.next ELSE [l.next EXCEPT ![p] = NULL]
        /\ w.prev = [l.prev EXCEPT ![c] = NULL]
    BY <1>3, <2>5 DEF WithoutLast, Links
  <2>7. /\ m \in Links
        /\ m.first = IF c = l.first THEN l.next[c] ELSE l.first
        /\ m.last = p
        /\ m.next = [x \in Cells |-> IF x = p THEN l.next[c]
                                     ELSE IF x = c THEN NULL ELSE l.next[x]]
        /\ m.prev = [x \in Cells |-> IF x = l.next[c] THEN p
                                     ELSE IF x = c THEN NULL ELSE l.prev[x]]
    BY <1>3, <2>1, <2>5 DEF Unlinked, UnlinkedButLast, Links
  <2> HIDE DEF w, m
  <2>8. /\ l.next \in [Cells -> Cells \cup {NULL}]
        /\ l.prev \in [Cells -> Cells \cup {NULL}]
    BY DEF Links
  <2>9. w.first = m.first /\ w.last = m.last
    BY <2>1, <2>3, <2>4, <2>6, <2>7
  <2>10. w.next = m.next
    <3>1. CASE p = NULL
      BY <2>1, <2>6, <2>7, <2>8, <3>1, CellsAssumption
    <3>2. CASE p # NULL
      BY <2>1, <2>5, <2>6, <2>7, <2>8, <3>2
    <3>3. QED  BY <3>1, <3>2
  <2>11. w.prev = m.prev
    BY <1>3, <2>1, <2>6, <2>7, <2>8, CellsAssumption
  <2>12. w = m
    BY <2>6, <2>7, <2>9, <2>10, <2>11 DEF Links
  <2>13. QED  BY <2>12 DEF w, m
<1>6. QED  BY <1>1, <1>3, <1>4, <1>5

(***************************************************************************)
(* What the links of a list say of its cells                               *)
(***************************************************************************)
\* The list has a first and a last cell unless it is empty, and its links agree.
LEMMA LinksAgree ==
  ASSUME NEW l \in Links, NEW q \in Lists, Linked(l, q)
  PROVE  /\ l.first = NULL <=> Range(q) = {}
         /\ l.last = NULL <=> Range(q) = {}
         /\ \A c \in Range(q) :
              /\ l.prev[c] = NULL <=> c = l.first
              /\ l.next[c] = NULL <=> c = l.last
              /\ l.next[c] # NULL => l.next[c] \in Range(q) /\ l.prev[l.next[c]] = c
              /\ l.prev[c] # NULL => l.prev[c] \in Range(q) /\ l.next[l.prev[c]] = c
<1>1. PICK n \in Nat : n = Len(q)
  BY DEF Lists
<1>2. DOMAIN q = 1 .. n /\ q \in Seq(Cells) /\ IsInjective(q)
  BY <1>1 DEF Lists
<1>3. \A k \in 1 .. n : q[k] \in Range(q) /\ q[k] # NULL
  BY <1>2, CellsAssumption DEF Range
<1>4. CASE q = <<>>
  BY <1>4 DEF Linked, Range
<1>5. CASE q # <<>>
  <2>1. Len(q) \in Nat \ {0}
    BY <1>2, <1>5, EmptySeq
  <2>2. n >= 1
    BY <1>1, <2>1
  <2>3. l.first = q[1] /\ l.last = q[n]
    BY <1>1, <1>5 DEF Linked
  <2>4. Range(q) # {} /\ l.first # NULL /\ l.last # NULL
    BY <1>3, <2>2, <2>3
  <2>5. ASSUME NEW c \in Range(q)
        PROVE  /\ l.prev[c] = NULL <=> c = l.first
               /\ l.next[c] = NULL <=> c = l.last
               /\ l.next[c] # NULL => l.next[c] \in Range(q) /\ l.prev[l.next[c]] = c
               /\ l.prev[c] # NULL => l.prev[c] \in Range(q) /\ l.next[l.prev[c]] = c
    <3>1. PICK k \in 1 .. n : q[k] = c
      BY <1>2 DEF Range
    <3>2. \A j \in 1 .. n : /\ l.next[q[j]] = IF j = n THEN NULL ELSE q[j + 1]
                            /\ l.prev[q[j]] = IF j = 1 THEN NULL ELSE q[j - 1]
      BY <1>1 DEF Linked
    <3>3. (c = l.first <=> k = 1) /\ (c = l.last <=> k = n)
      BY <1>2, <2>2, <2>3, <3>1 DEF IsInjective
    <3>4. k # n => k + 1 \in 1 .. n /\ k + 1 # 1 /\ (k + 1) - 1 = k
      OBVIOUS
    <3>5. k # 1 => k - 1 \in 1 .. n /\ k - 1 # n /\ (k - 1) + 1 = k
      OBVIOUS
    <3>6. QED  BY <1>3, <3>1, <3>2, <3>3, <3>4, <3>5
  <2>6. QED  BY <2>4, <2>5
<1>6. QED  BY <1>4, <1>5

(***************************************************************************)
(* Paths                                                                   *)
(***************************************************************************)
\* An ancestor is an element of the book, with a smaller number.
LEMMA AncestorOfElement ==
  ASSUME NEW e \in Elements
  PROVE  /\ e \in Nat /\ ancestor[e] \in Elements /\ ancestor[e] \in Nat
         /\ e # 0 => ancestor[e] < e
BY BookAssumption

\* PathTo is what its definition says: the path of the ancestor, and the element.
LEMMA PathToIs ==
  \A n \in Elements :
    PathTo[n] = IF n = 0 THEN <<0>> ELSE Append(PathTo[ancestor[n]], n)
<1>1. Tree(Elements, ancestor)
  BY AncestorOfElement DEF Tree
<1>2. PICK up : up = CHOOSE f :
        f = [k \in Elements |-> IF k = 0 THEN <<0>> ELSE Append(f[ancestor[k]], k)]
  OBVIOUS
<1>3. \A n \in Elements : up[n] = IF n = 0 THEN <<0>> ELSE Append(up[ancestor[n]], n)
  BY <1>1, <1>2, PathsAre
<1>4. PathTo = [n \in Elements |-> up[n]]
  BY <1>2 DEF PathTo
<1>5. QED  BY <1>3, <1>4, AncestorOfElement

(***************************************************************************)
(* The calls that are making an object                                     *)
(***************************************************************************)
\* The path of the elements above n.
Above(n) == IF n = 0 THEN <<>> ELSE PathTo[ancestor[n]]

\* The element that a call has asked for.
Asked(f) == IF f.phase = "up" THEN f.num ELSE Last(f.levels)

\* What make_element_path has noted and built in call f: going up the levels
\* begin with the element itself, each is the ancestor of the one before, and
\* num is the next; coming down, the path is that of the elements above the
\* last level left.
Climbs(f) ==
  /\ f.levels # <<>> => f.levels[1] = f.el
  /\ \A k \in 1 .. Len(f.levels) - 1 :
       /\ f.levels[k] # 0
       /\ f.levels[k + 1] = ancestor[f.levels[k]]
       /\ f.levels[k + 1] < f.el
  /\ f.phase = "up" =>
       /\ f.path = <<>>
       /\ f.levels = <<>> => f.num = f.el
       /\ f.levels # <<>> => /\ Last(f.levels) # 0
                            /\ f.num = ancestor[Last(f.levels)]
                            /\ f.num < f.el
  /\ f.phase # "up" => f.levels # <<>> /\ f.path = Above(Last(f.levels))
  /\ f.phase = "gi" => Len(f.levels) > 1
  /\ f.phase = "room" => Len(f.levels) = 1

Waits(f) == f.phase \in {"up", "gi"} /\ f.levels # <<>>

\* Each call but the last waits for the element of the next, which lies above.
Pile(fs) ==
  /\ \A i \in 1 .. Len(fs) : Climbs(fs[i])
  /\ \A i \in 1 .. Len(fs) - 1 : Waits(fs[i]) /\ fs[i + 1].el = Asked(fs[i])
  /\ \A i, j \in 1 .. Len(fs) : i < j => fs[j].el < fs[i].el

\* A call that waits asks for an element above its own.
LEMMA AsksAbove ==
  ASSUME NEW f \in Frame, Climbs(f), Waits(f)
  PROVE  Asked(f) \in Elements /\ Asked(f) < f.el
<1>1. PICK n \in Nat : n = Len(f.levels)
  BY DEF Frame
<1>2. f.levels \in Seq(Levels) /\ f.num \in Elements /\ f.el \in Elements
  BY DEF Frame
<1>3. Levels = Elements
  BY BookAssumption DEF Levels
<1>4. n >= 1
  <2>1. Len(f.levels) \in Nat \ {0}
    BY <1>2, EmptySeq DEF Waits
  <2>2. QED  BY <1>1, <2>1
<1>5. Last(f.levels) = f.levels[n] /\ f.levels[n] \in Elements
  BY <1>1, <1>2, <1>3, <1>4 DEF Last
<1>6. CASE f.phase = "up"
  BY <1>2, <1>6 DEF Climbs, Waits, Asked
<1>7. CASE f.phase = "gi"
  <2>1. n > 1
    BY <1>1, <1>7 DEF Climbs
  <2>2. n - 1 \in 1 .. Len(f.levels) - 1 /\ (n - 1) + 1 = n
    BY <1>1, <2>1
  <2>3. f.levels[n] < f.el
    BY <2>2 DEF Climbs
  <2>4. QED  BY <1>5, <1>7, <2>3 DEF Asked
<1>8. QED  BY <1>6, <1>7 DEF Waits

\* A call that has just begun.
LEMMA NewFrameClimbs ==
  ASSUME NEW n \in Elements
  PROVE  NewFrame(n) \in Frame /\ Climbs(NewFrame(n))
<1> DEFINE f == NewFrame(n)
<1>1. f \in Frame
  BY DEF NewFrame, Frame
<1>2. /\ f.levels = <<>> /\ f.phase = "up" /\ f.path = <<>>
      /\ f.num = n /\ f.el = n
  BY DEF NewFrame
<1>3. Len(<<>>) = 0
  OBVIOUS
<1> HIDE DEF f
<1>4. Climbs(f)
  BY <1>2, <1>3 DEF Climbs
<1>5. QED  BY <1>1, <1>4 DEF f

\* One level up.
LEMMA UpClimbs ==
  ASSUME NEW f \in Frame, Climbs(f), f.phase = "up", f.num # 0
  PROVE  LET g == [f EXCEPT !.levels = Append(@, f.num), !.num = ancestor[f.num]]
         IN  /\ g \in Frame /\ Climbs(g) /\ Waits(g)
             /\ g.el = f.el /\ g.phase = "up" /\ Asked(g) = ancestor[f.num]
<1> DEFINE g == [f EXCEPT !.levels = Append(@, f.num), !.num = ancestor[f.num]]
<1>1. /\ f.levels \in Seq(Elements) /\ f.num \in Elements /\ f.el \in Elements
      /\ f.levels \in Seq(Levels) /\ Levels = Elements
  BY BookAssumption DEF Frame, Levels
<1>2. /\ g \in Frame
      /\ g.levels = Append(f.levels, f.num) /\ g.num = ancestor[f.num]
      /\ g.el = f.el /\ g.phase = "up" /\ g.path = f.path
  <2>1. Append(f.levels, f.num) \in Seq(Levels) /\ ancestor[f.num] \in Elements
    BY <1>1, AncestorOfElement
  <2>2. QED  BY <2>1 DEF Frame
<1> HIDE DEF g
<1>3. PICK n \in Nat : n = Len(f.levels)
  BY <1>1
<1>4. /\ Len(g.levels) = n + 1
      /\ \A k \in 1 .. n : g.levels[k] = f.levels[k]
      /\ g.levels[n + 1] = f.num
      /\ g.levels # <<>>
  BY <1>1, <1>2, <1>3, AppendProperties
<1>5. Last(g.levels) = f.num
  BY <1>4 DEF Last
<1>6. f.num <= f.el /\ ancestor[f.num] < f.num
  <2>1. /\ f.num \in Nat /\ f.el \in Nat /\ ancestor[f.num] \in Nat
        /\ ancestor[f.num] < f.num
    BY <1>1, AncestorOfElement
  <2>2. f.num = f.el \/ f.num < f.el
    BY DEF Climbs
  <2>3. QED  BY <2>1, <2>2
<1>7. n = 0 <=> f.levels = <<>>
  BY <1>1, <1>3, EmptySeq
<1>8. g.levels[1] = f.el
  BY <1>3, <1>4, <1>7 DEF Climbs
<1>9. ASSUME NEW k \in 1 .. n
      PROVE  /\ g.levels[k] # 0
             /\ g.levels[k + 1] = ancestor[g.levels[k]]
             /\ g.levels[k + 1] < f.el
  <2>1. CASE k < n
    BY <1>3, <1>4, <2>1 DEF Climbs
  <2>2. CASE k = n
    <3>1. f.levels # <<>> /\ Last(f.levels) = f.levels[n]
      BY <1>3, <1>7, <2>2 DEF Last
    <3>2. QED  BY <1>4, <2>2, <3>1 DEF Climbs
  <2>3. QED  BY <2>1, <2>2
<1>10. g.num < g.el
  <2>1. f.num \in Nat /\ f.el \in Nat /\ ancestor[f.num] \in Nat
    BY <1>1, AncestorOfElement
  <2>2. \A a, b, c \in Nat : a < b /\ b <= c => a < c
    OBVIOUS
  <2>3. ancestor[f.num] < f.el
    BY <1>6, <2>1, <2>2
  <2>4. QED  BY <1>2, <2>3
<1>11. Len(g.levels) - 1 = n
  BY <1>4
<1>12. Climbs(g)
  BY <1>2, <1>4, <1>5, <1>8, <1>9, <1>10, <1>11 DEF Climbs
<1>13. Waits(g) /\ Asked(g) = ancestor[f.num]
  BY <1>2, <1>4 DEF Waits, Asked
<1>14. QED  BY <1>2, <1>12, <1>13 DEF g

\* The top: the outermost element is noted as well.
LEMMA UpDoneClimbs ==
  ASSUME NEW f \in Frame, Climbs(f), f.phase = "up", f.num = 0
  PROVE  Climbs([f EXCEPT !.levels = Append(@, 0), !.phase = "down"])
<1> DEFINE g == [f EXCEPT !.levels = Append(@, 0), !.phase = "down"]
<1>1. /\ f.levels \in Seq(Levels) /\ f.num \in Elements /\ f.el \in Elements
      /\ 0 \in Levels
  BY DEF Frame, Levels
<1>2. /\ g.levels = Append(f.levels, 0) /\ g.el = f.el /\ g.phase = "down"
      /\ g.path = f.path
  BY DEF Frame
<1> HIDE DEF g
<1>3. PICK n \in Nat : n = Len(f.levels)
  BY <1>1
<1>4. /\ Len(g.levels) = n + 1
      /\ \A k \in 1 .. n : g.levels[k] = f.levels[k]
      /\ g.levels[n + 1] = 0
      /\ g.levels # <<>>
  BY <1>1, <1>2, <1>3, AppendProperties
<1>5. Last(g.levels) = 0
  BY <1>4 DEF Last
<1>6. n = 0 <=> f.levels = <<>>
  BY <1>1, <1>3, EmptySeq
<1>7. g.levels[1] = f.el
  BY <1>3, <1>4, <1>6 DEF Climbs
<1>8. ASSUME NEW k \in 1 .. n
      PROVE  /\ g.levels[k] # 0
             /\ g.levels[k + 1] = ancestor[g.levels[k]]
             /\ g.levels[k + 1] < f.el
  <2>1. CASE k < n
    BY <1>3, <1>4, <2>1 DEF Climbs
  <2>2. CASE k = n
    <3>1. f.levels # <<>> /\ Last(f.levels) = f.levels[n]
      BY <1>3, <1>6, <2>2 DEF Last
    <3>2. QED  BY <1>4, <2>2, <3>1 DEF Climbs
  <2>3. QED  BY <2>1, <2>2
<1>9. Len(g.levels) - 1 = n
  BY <1>4
<1>10. g.path = Above(Last(g.levels))
  BY <1>2, <1>5 DEF Climbs, Above
<1>11. Climbs(g)
  BY <1>2, <1>4, <1>7, <1>8, <1>9, <1>10 DEF Climbs
<1>12. QED  BY <1>11 DEF g

\* One level of the way down is asked for.
LEMMA DownClimbs ==
  ASSUME NEW f \in Frame, Climbs(f), f.phase = "down", Len(f.levels) > 1
  PROVE  LET g == [f EXCEPT !.phase = "gi"]
         IN  /\ g \in Frame /\ Climbs(g) /\ Waits(g)
             /\ g.el = f.el /\ g.phase = "gi" /\ Asked(g) = Last(f.levels)
<1> DEFINE g == [f EXCEPT !.phase = "gi"]
<1>1. /\ g \in Frame /\ g.levels = f.levels /\ g.el = f.el /\ g.phase = "gi"
      /\ g.path = f.path
  BY DEF Frame
<1> HIDE DEF g
<1>2. Climbs(g)
  BY <1>1 DEF Climbs
<1>3. QED  BY <1>1, <1>2 DEF g, Climbs, Waits, Asked

\* Its name joins the path, and the level is done.
LEMMA AddGiClimbs ==
  ASSUME NEW f \in Frame, Climbs(f), f.phase = "gi"
  PROVE  LET m == Last(f.levels)
             g == [f EXCEPT !.path = Append(f.path, m), !.levels = Front(@),
                            !.phase = "down"]
         IN  g \in Frame /\ Climbs(g)
<1> DEFINE m == Last(f.levels)
           g == [f EXCEPT !.path = Append(f.path, m), !.levels = Front(@),
                          !.phase = "down"]
<1>1. /\ f.levels \in Seq(Levels) /\ Levels = Elements /\ f.path \in Seq(Elements)
  BY BookAssumption DEF Frame, Levels
<1>2. PICK n \in Nat : n = Len(f.levels) /\ n > 1
  BY <1>1 DEF Climbs
<1>3. m = f.levels[n] /\ m \in Elements
  BY <1>1, <1>2 DEF Last
<1>4. /\ Front(f.levels) \in Seq(Levels)
      /\ Len(Front(f.levels)) = n - 1
      /\ \A k \in 1 .. n - 1 : Front(f.levels)[k] = f.levels[k]
  <2>1. f.levels # <<>>
    BY <1>2
  <2>2. PICK k \in Nat : k = n - 1 /\ k >= 1
    BY <1>2
  <2>3. \A i \in 1 .. k : f.levels[i] \in Levels
    BY <1>1, <1>2, <2>2
  <2>4. Front(f.levels) = SubSeq(f.levels, 1, k)
    BY <1>2, <2>2 DEF Front
  <2>5. 1 <= k /\ k - 1 + 1 = k
    BY <2>2
  <2>6. /\ SubSeq(f.levels, 1, k) \in Seq(Levels)
        /\ Len(SubSeq(f.levels, 1, k)) = IF 1 <= k THEN k - 1 + 1 ELSE 0
        /\ \A i \in 1 .. k - 1 + 1 : SubSeq(f.levels, 1, k)[i] = f.levels[1 + i - 1]
    BY <2>3, SubSeqProperties
  <2>7. \A i \in 1 .. k : 1 + i - 1 = i
    OBVIOUS
  <2>8. QED  BY <2>2, <2>4, <2>5, <2>6, <2>7
<1>5. Append(f.path, m) \in Seq(Elements)
  BY <1>1, <1>3
<1>6. /\ g \in Frame
      /\ g.levels = Front(f.levels) /\ g.el = f.el /\ g.phase = "down"
      /\ g.path = Append(f.path, m)
  <2> HIDE DEF m
  <2>1. QED  BY <1>4, <1>5 DEF Frame
<1> HIDE DEF g, m
<1>7. PICK k \in 1 .. Len(f.levels) - 1 : k = n - 1 /\ k + 1 = n
  BY <1>2
<1> DEFINE l == f.levels[k]
<1>8. l # 0 /\ m = ancestor[l] /\ l \in Elements
  BY <1>1, <1>2, <1>3, <1>7 DEF Climbs
<1>9. Last(g.levels) = l /\ g.levels # <<>> /\ g.levels[1] = f.el
  <2>1. Len(g.levels) = k /\ \A i \in 1 .. k : g.levels[i] = f.levels[i]
    BY <1>4, <1>6, <1>7
  <2>2. f.levels[1] = f.el
    BY <1>2 DEF Climbs
  <2>3. QED  BY <1>2, <1>7, <2>1, <2>2 DEF Last
<1>10. g.path = PathTo[m]
  <2>1. f.path = Above(m)
    BY <1>3 DEF Climbs, m
  <2>2. PathTo[m] = IF m = 0 THEN <<0>> ELSE Append(PathTo[ancestor[m]], m)
    BY <1>3, PathToIs
  <2>3. Append(<<>>, 0) = <<0>>
    OBVIOUS
  <2>4. QED  BY <1>6, <2>1, <2>2, <2>3 DEF Above
<1>11. g.path = Above(Last(g.levels))
  BY <1>8, <1>9, <1>10 DEF Above
<1>12. ASSUME NEW i \in 1 .. Len(g.levels) - 1
       PROVE  /\ g.levels[i] # 0
              /\ g.levels[i + 1] = ancestor[g.levels[i]]
              /\ g.levels[i + 1] < f.el
  <2>1. /\ i \in 1 .. Len(f.levels) - 1
        /\ g.levels[i] = f.levels[i] /\ g.levels[i + 1] = f.levels[i + 1]
    BY <1>2, <1>4, <1>6
  <2>2. QED  BY <2>1 DEF Climbs
<1>13. Climbs(g)
  BY <1>6, <1>9, <1>11, <1>12 DEF Climbs
<1>14. QED  BY <1>6, <1>13 DEF g, m

\* The object of the call gets its cell.
LEMMA RoomClimbs ==
  ASSUME NEW f \in Frame, Climbs(f), f.phase = "down", Len(f.levels) = 1,
         NEW c \in Cells
  PROVE  LET g == [f EXCEPT !.check = c, !.phase = "room"]
         IN  g \in Frame /\ Climbs(g) /\ g.el = f.el
<1> DEFINE g == [f EXCEPT !.check = c, !.phase = "room"]
<1>1. /\ g \in Frame /\ g.levels = f.levels /\ g.el = f.el /\ g.phase = "room"
      /\ g.path = f.path
  BY DEF Frame
<1> HIDE DEF g
<1>2. Climbs(g)
  BY <1>1 DEF Climbs
<1>3. QED  BY <1>1, <1>2 DEF g

\* What a call returns does not touch what the caller has noted.
LEMMA ReturnClimbs ==
  ASSUME NEW f \in Frame, Climbs(f), NEW c \in Cells
  PROVE  LET g == [f EXCEPT !.check = c]
         IN  /\ g \in Frame /\ Climbs(g) /\ g.el = f.el /\ g.phase = f.phase
             /\ g.levels = f.levels /\ Asked(g) = Asked(f) /\ g.check = c
<1> DEFINE g == [f EXCEPT !.check = c]
<1>1. /\ g \in Frame /\ g.levels = f.levels /\ g.el = f.el /\ g.phase = f.phase
      /\ g.path = f.path /\ g.num = f.num /\ g.check = c
  BY DEF Frame
<1> HIDE DEF g
<1>2. Climbs(g)
  BY <1>1 DEF Climbs
<1>3. Asked(g) = Asked(f)
  BY <1>1 DEF Asked
<1>4. QED  BY <1>1, <1>2, <1>3 DEF g

\* The innermost call goes on.
LEMMA PileTop ==
  ASSUME NEW fs \in Seq(Frame), fs # <<>>, Pile(fs),
         NEW g \in Frame, Climbs(g), g.el = fs[Len(fs)].el
  PROVE  LET gs == [fs EXCEPT ![Len(fs)] = g]
         IN  /\ gs \in Seq(Frame) /\ Len(gs) = Len(fs) /\ gs # <<>>
             /\ gs[Len(gs)] = g
             /\ \A i \in 1 .. Len(fs) : /\ i # Len(fs) => gs[i] = fs[i]
                                        /\ gs[i].el = fs[i].el
             /\ Pile(gs)
<1>1. PICK n \in Nat : n = Len(fs) /\ n >= 1
  <2>1. Len(fs) \in Nat \ {0}
    BY EmptySeq
  <2>2. \A m \in Nat \ {0} : m >= 1
    OBVIOUS
  <2>3. QED  BY <2>1, <2>2
<1> DEFINE gs == [fs EXCEPT ![n] = g]
<1>2. /\ gs \in Seq(Frame) /\ Len(gs) = n
      /\ \A i \in 1 .. n : gs[i] = IF i = n THEN g ELSE fs[i]
  BY <1>1
<1> HIDE DEF gs
<1>3. gs # <<>>
  BY <1>1, <1>2
<1>4. \A i \in 1 .. n : gs[i].el = fs[i].el
  BY <1>1, <1>2
<1>5. \A i \in 1 .. n : Climbs(gs[i])
  BY <1>1, <1>2 DEF Pile
<1>6. ASSUME NEW i \in 1 .. n - 1
      PROVE  Waits(gs[i]) /\ gs[i + 1].el = Asked(gs[i])
  <2>1. Waits(fs[i]) /\ fs[i + 1].el = Asked(fs[i])
    BY <1>1 DEF Pile
  <2>2. gs[i] = fs[i] /\ gs[i + 1].el = fs[i + 1].el
    BY <1>2, <1>4
  <2>3. QED  BY <2>1, <2>2
<1>7. \A i, j \in 1 .. n : i < j => gs[j].el < gs[i].el
  BY <1>1, <1>4 DEF Pile
<1>8. Pile(gs)
  BY <1>2, <1>5, <1>6, <1>7 DEF Pile
<1>9. QED  BY <1>1, <1>2, <1>3, <1>4, <1>8 DEF gs

\* A call begins, for the element the innermost waits for.
LEMMA PilePush ==
  ASSUME NEW fs \in Seq(Frame), Pile(fs), NEW n \in Elements,
         fs # <<>> => Waits(fs[Len(fs)]) /\ Asked(fs[Len(fs)]) = n
  PROVE  LET gs == Append(fs, NewFrame(n))
         IN  /\ gs \in Seq(Frame) /\ Len(gs) = Len(fs) + 1 /\ gs # <<>>
             /\ gs[Len(gs)] = NewFrame(n)
             /\ \A i \in 1 .. Len(fs) : gs[i] = fs[i]
             /\ Pile(gs)
<1>1. PICK k \in Nat : k = Len(fs)
  OBVIOUS
<1> DEFINE gs == Append(fs, NewFrame(n))
<1>2. NewFrame(n) \in Frame /\ Climbs(NewFrame(n)) /\ NewFrame(n).el = n
  BY NewFrameClimbs DEF NewFrame
<1>3. /\ gs \in Seq(Frame) /\ Len(gs) = k + 1 /\ gs # <<>>
      /\ gs[k + 1] = NewFrame(n)
      /\ \A i \in 1 .. k : gs[i] = fs[i]
  BY <1>1, <1>2, AppendProperties
<1> HIDE DEF gs
<1>4. k # 0 => Waits(fs[k]) /\ Asked(fs[k]) = n /\ fs[k] \in Frame /\ Climbs(fs[k])
  BY <1>1 DEF Pile
<1>5. k # 0 => n < fs[k].el
  BY <1>4, AsksAbove
<1>6. \A i \in 1 .. k + 1 : Climbs(gs[i])
  BY <1>1, <1>2, <1>3 DEF Pile
<1>7. ASSUME NEW i \in 1 .. k
      PROVE  Waits(gs[i]) /\ gs[i + 1].el = Asked(gs[i])
  <2>1. CASE i = k
    BY <1>2, <1>3, <1>4, <2>1
  <2>2. CASE i # k
    BY <1>1, <1>3, <2>2 DEF Pile
  <2>3. QED  BY <2>1, <2>2
<1>8. ASSUME NEW i \in 1 .. k + 1, NEW j \in 1 .. k + 1, i < j
      PROVE  gs[j].el < gs[i].el
  <2>1. CASE j = k + 1
    <3>1. i \in 1 .. k /\ gs[j].el = n /\ gs[i].el = fs[i].el /\ n < fs[k].el
      BY <1>2, <1>3, <1>5, <1>8, <2>1
    <3>2. i # k => fs[k].el < fs[i].el
      BY <1>1, <3>1 DEF Pile
    <3>3. n \in Nat /\ fs[k].el \in Nat /\ fs[i].el \in Nat
      <4>1. fs[k] \in Frame /\ fs[i] \in Frame
        BY <1>1, <1>4, <3>1
      <4>2. fs[k].el \in Elements /\ fs[i].el \in Elements
        BY <4>1 DEF Frame
      <4>3. QED  BY <4>2, AncestorOfElement
    <3>4. QED  BY <3>1, <3>2, <3>3
  <2>2. CASE j # k + 1
    BY <1>1, <1>3, <1>8, <2>2 DEF Pile
  <2>3. QED  BY <2>1, <2>2
<1>9. Len(gs) - 1 = k
  BY <1>3
<1>10. Pile(gs)
  BY <1>3, <1>6, <1>7, <1>8, <1>9 DEF Pile
<1>11. QED  BY <1>1, <1>3, <1>10 DEF gs

\* The innermost call returns.
LEMMA PilePop ==
  ASSUME NEW fs \in Seq(Frame), fs # <<>>, Pile(fs)
  PROVE  LET gs == Front(fs)
         IN  /\ gs \in Seq(Frame) /\ Len(gs) = Len(fs) - 1
             /\ \A i \in 1 .. Len(fs) - 1 : gs[i] = fs[i]
             /\ gs # <<>> => /\ Waits(gs[Len(gs)])
                            /\ Asked(gs[Len(gs)]) = fs[Len(fs)].el
             /\ Pile(gs)
<1>1. PICK n \in Nat, k \in Nat : n = Len(fs) /\ n = k + 1 /\ k = n - 1
  <2>1. Len(fs) \in Nat \ {0}
    BY EmptySeq
  <2>2. \A m \in Nat \ {0} : m - 1 \in Nat /\ m = (m - 1) + 1
    OBVIOUS
  <2>3. QED  BY <2>1, <2>2
<1>0. /\ Len(fs) - 1 = k
      /\ \A i \in 1 .. k : /\ i \in 1 .. Len(fs) - 1
                            /\ i \in 1 .. Len(fs) /\ fs[i] \in Frame
  <2>1. \A i \in 1 .. k : i \in 1 .. n /\ i \in 1 .. n - 1
    BY <1>1
  <2>2. Len(fs) - 1 = k
    BY <1>1
  <2>3. \A i \in 1 .. Len(fs) : fs[i] \in Frame
    OBVIOUS
  <2>4. \A i \in 1 .. n : fs[i] \in Frame
    BY <1>1, <2>3
  <2>5. QED  BY <1>1, <2>1, <2>2, <2>4
<1> DEFINE gs == Front(fs)
<1>2. /\ gs \in Seq(Frame) /\ Len(gs) = k
      /\ \A i \in 1 .. k : gs[i] = fs[i]
  <2>1. gs = SubSeq(fs, 1, k)
    BY <1>1 DEF Front
  <2>2. \A i \in 1 .. k : fs[i] \in Frame
    BY <1>0
  <2>3. /\ SubSeq(fs, 1, k) \in Seq(Frame)
        /\ Len(SubSeq(fs, 1, k)) = IF 1 <= k THEN k - 1 + 1 ELSE 0
        /\ \A i \in 1 .. k - 1 + 1 : SubSeq(fs, 1, k)[i] = fs[1 + i - 1]
    BY <2>2, SubSeqProperties
  <2>4. (IF 1 <= k THEN k - 1 + 1 ELSE 0) = k /\ k - 1 + 1 = k
    OBVIOUS
  <2>5. \A i \in 1 .. k : 1 + i - 1 = i
    OBVIOUS
  <2> HIDE DEF gs
  <2>6. QED  BY <2>1, <2>3, <2>4, <2>5
<1> HIDE DEF gs
<1>3. \A i \in 1 .. k : Climbs(gs[i]) /\ Waits(gs[i]) /\ fs[i + 1].el = Asked(gs[i])
  BY <1>0, <1>2 DEF Pile
<1>4. \A i \in 1 .. k - 1 : gs[i + 1] = fs[i + 1]
  BY <1>2
<1>5. \A i, j \in 1 .. k : i < j => gs[j].el < gs[i].el
  BY <1>0, <1>2 DEF Pile
<1>6. Pile(gs)
  <2>1. \A i \in 1 .. k - 1 : Waits(gs[i]) /\ gs[i + 1].el = Asked(gs[i])
    BY <1>3, <1>4
  <2>2. QED  BY <1>2, <1>3, <1>5, <2>1 DEF Pile
<1>7. gs # <<>> => Waits(gs[k]) /\ Asked(gs[k]) = fs[n].el
  <2>1. gs # <<>> => k # 0
    BY <1>2, EmptySeq
  <2>2. QED  BY <1>1, <1>3, <2>1
<1>8. QED  BY <1>1, <1>2, <1>6, <1>7 DEF gs

(***************************************************************************)
(* The inductive invariant                                                 *)
(***************************************************************************)
\* Every cell in use is on the chain of its number, once, and no number has two.
Chained ==
  /\ \A a \in 0 .. HtableSize - 1 :
       /\ IsInjective(htable[a])
       /\ Range(htable[a]) = {c \in cells : Index(comp_int[c]) = a}
  /\ \A c, d \in cells : comp_int[c] = comp_int[d] => c = d

\* What the cells hold: the part of the state that only new and freed cells change.
Store == Chained /\ PathsRight /\ IsFiniteSet(cells)

\* The links are those of one list, with no cell outside it.
Threaded == \E q \in Lists : Range(q) = Listed /\ Linked(lilo, q)

\* The element a call is making is not there, until it has its cell.
Pending ==
  \A i \in 1 .. Len(frames) :
    i < Len(frames) \/ frames[i].phase # "room" =>
      \A c \in cells : comp_int[c] # frames[i].el

\* What the innermost call was given last.
Given(f) ==
  /\ f.phase = "room" => f.check \in cells /\ comp_int[f.check] = f.el
  /\ f.phase = "up" /\ f.levels = <<>> => f.check = NULL
  /\ Waits(f) => f.check \in cells /\ comp_int[f.check] = Asked(f)

Making ==
  /\ state = "open" => Pile(frames) /\ Pending /\ (Calls(frames) => Given(Top))
  /\ state = "overrun" => Calls(frames) /\ Top.phase = "down"
  /\ state \in {"closing", "closed"} => frames = <<>>

IInv == TypeOK /\ Store /\ Threaded /\ Counted /\ Making

\* Every element has a chain of the hash table.
LEMMA IndexType == \A n \in Elements : Index(n) \in 0 .. HtableSize - 1
BY BookAssumption, SizesAssumption DEF Index

\* The search of a chain finds the cell of the number, if there is one.
LEMMA LookupFinds ==
  ASSUME TypeOK, Chained, NEW n \in Elements
  PROVE  \/ Lookup(n) = NULL /\ \A c \in cells : comp_int[c] # n
         \/ Lookup(n) \in cells /\ comp_int[Lookup(n)] = n
<1> DEFINE chain == htable[Index(n)]
           I == {i \in 1 .. Len(chain) : comp_int[chain[i]] = n}
<1>1. /\ Index(n) \in 0 .. HtableSize - 1
      /\ chain \in Seq(Cells)
      /\ Range(chain) = {c \in cells : Index(comp_int[c]) = Index(n)}
  BY IndexType DEF TypeOK, Chained
<1>2. SelectInSeq(chain, LAMBDA c : comp_int[c] = n) = IF I # {} THEN Min(I) ELSE 0
  BY DEF SelectInSeq
<1>3. CASE I = {}
  <2>1. Lookup(n) = NULL
    BY <1>2, <1>3 DEF Lookup
  <2>2. ASSUME NEW c \in cells, comp_int[c] = n
        PROVE  FALSE
    <3>1. c \in Range(chain)
      BY <1>1, <2>2
    <3>2. PICK i \in 1 .. Len(chain) : chain[i] = c
      BY <1>1, <3>1 DEF Range
    <3>3. QED  BY <1>3, <2>2, <3>2
  <2>3. QED  BY <2>1, <2>2
<1>4. CASE I # {}
  <2> DEFINE k == Min(I)
  <2>1. k \in I
    <3>1. I \in SUBSET Nat
      BY <1>1
    <3> HIDE DEF I
    <3>2. QED  BY <1>4, <3>1, MinIsLeast
  <2> HIDE DEF k
  <2>2. k \in 1 .. Len(chain) /\ k # 0 /\ comp_int[chain[k]] = n
    BY <1>1, <2>1
  <2>3. Lookup(n) = chain[k]
    BY <1>2, <1>4, <2>2 DEF Lookup, k
  <2>4. chain[k] \in cells
    BY <1>1, <2>2 DEF Range
  <2>5. QED  BY <2>2, <2>3, <2>4
<1>5. QED  BY <1>3, <1>4

\* Only the innermost call in phase "room" has a cell that is not on the list.
LEMMA NoIncoming ==
  /\ (~Calls(frames) \/ Top.phase # "room") => Incoming = {} /\ Listed = cells
  /\ (~Calls(frames) \/ Top.phase # "room")' => Incoming' = {} /\ Listed' = cells'
BY DEF Listed, Incoming

\* A step that changes neither the cells nor what they hold.
LEMMA StoreSame ==
  ASSUME Store, UNCHANGED <<cells, comp_int, path, htable>>
  PROVE  Store'
BY DEF Store, Chained, PathsRight, Index

\* A cell that is fetched again goes to the front.
LEMMA FoundThreaded ==
  ASSUME TypeOK, Threaded, Listed = cells, Listed' = cells, NEW c \in cells,
         lilo' = IF c = lilo.first THEN lilo ELSE AtFront(Unlinked(lilo, c), c)
  PROVE  Threaded' /\ lilo' \in Links
<1>1. PICK q \in Lists : Range(q) = cells /\ Linked(lilo, q)
  BY DEF Threaded
<1>2. lilo \in Links /\ c \in Cells
  BY DEF TypeOK, Links
<1>3. CASE c = lilo.first
  BY <1>1, <1>2, <1>3 DEF Threaded
<1>4. CASE c # lilo.first
  <2> DEFINE t == RemoveFirst(q, c)
             m == Unlinked(lilo, c)
  <2>1. m \in Links /\ Linked(m, t) /\ t \in Lists /\ Range(t) = cells \ {c}
    BY <1>1, <1>2, UnlinkedLinked
  <2> HIDE DEF t, m
  <2>2. /\ AtFront(m, c) \in Links
        /\ Linked(AtFront(m, c), Cons(c, t))
        /\ Cons(c, t) \in Lists
        /\ Range(Cons(c, t)) = (cells \ {c}) \cup {c}
    BY <1>2, <2>1, AtFrontLinked
  <2>3. lilo' = AtFront(m, c) /\ (cells \ {c}) \cup {c} = cells
    BY <1>4 DEF m
  <2>4. QED  BY <2>2, <2>3 DEF Threaded
<1>5. QED  BY <1>3, <1>4

\* A step that moves neither bytes nor cells.
LEMMA CountedSame ==
  ASSUME Counted, UNCHANGED <<comp_int, current, number, failed>>,
         Listed' = Listed, state' = "open" => state = "open"
  PROVE  Counted'
<1>1. Bytes(Listed)' = Bytes(Listed)
  BY DEF Bytes, Takes
<1>2. QED  BY <1>1 DEF Counted

\* The innermost of the calls that are left gets its object, cell c.
LEMMA ReturnIs ==
  ASSUME NEW fs \in Seq(Frame), Pile(fs), NEW n \in Elements, NEW c \in Cells,
         fs # <<>> => Waits(fs[Len(fs)]) /\ Asked(fs[Len(fs)]) = n
  PROVE  LET gs == Return(fs, c)
         IN  /\ gs \in Seq(Frame) /\ Len(gs) = Len(fs) /\ Pile(gs)
             /\ \A i \in 1 .. Len(fs) : gs[i].el = fs[i].el
             /\ gs # <<>> => \E g \in Frame :
                  /\ g = gs[Len(gs)] /\ Waits(g) /\ Asked(g) = n /\ g.check = c
<1>1. CASE fs = <<>>
  BY <1>1 DEF Return
<1>2. CASE fs # <<>>
  <2>1. PICK k \in Nat : k = Len(fs) /\ k >= 1
    <3>1. Len(fs) \in Nat \ {0}
      BY <1>2, EmptySeq
    <3>2. QED  BY <3>1
  <2> DEFINE f == fs[k]
             g == [f EXCEPT !.check = c]
             gs == Return(fs, c)
  <2>2. f \in Frame /\ Climbs(f) /\ Waits(f) /\ Asked(f) = n
    BY <1>2, <2>1 DEF Pile
  <2>3. /\ g \in Frame /\ Climbs(g) /\ g.el = f.el /\ g.phase = f.phase
        /\ g.levels = f.levels /\ Asked(g) = Asked(f) /\ g.check = c
    BY <2>2, ReturnClimbs
  <2>4. gs = [fs EXCEPT ![Len(fs)] = g]
    BY <1>2, <2>1 DEF Return
  <2> HIDE DEF f, g, gs
  <2>5. g \in Frame /\ Climbs(g) /\ g.el = fs[Len(fs)].el
    BY <2>1, <2>3 DEF f
  <2>6. /\ gs \in Seq(Frame) /\ Len(gs) = Len(fs) /\ gs # <<>>
        /\ gs[Len(gs)] = g
        /\ \A i \in 1 .. Len(fs) : gs[i].el = fs[i].el
        /\ Pile(gs)
    <3> DEFINE hs == [fs EXCEPT ![Len(fs)] = g]
    <3>1. /\ hs \in Seq(Frame) /\ Len(hs) = Len(fs) /\ hs # <<>>
          /\ hs[Len(hs)] = g
          /\ \A i \in 1 .. Len(fs) : hs[i].el = fs[i].el
          /\ Pile(hs)
      BY <1>2, <2>5, PileTop
    <3>2. gs = hs
      BY <2>4
    <3> HIDE DEF hs
    <3>3. QED  BY <3>1, <3>2
  <2>7. Waits(g) /\ Asked(g) = n
    BY <2>2, <2>3 DEF Waits
  <2>8. QED  BY <2>3, <2>6, <2>7 DEF gs
<1>3. QED  BY <1>1, <1>2

\* What every fetch does to the calls: the innermost gets its object, or a
\* further call begins.
LEMMA GetPiles ==
  ASSUME TypeOK, Chained, Pile(frames), Pending,
         ~(Calls(frames) /\ Top.phase = "room"),
         NEW fs \in Seq(Frame), Pile(fs), Len(fs) = Len(frames),
         \A i \in 1 .. Len(fs) : fs[i].el = frames[i].el,
         NEW n \in Elements,
         fs # <<>> => Waits(fs[Len(fs)]) /\ Asked(fs[Len(fs)]) = n,
         UNCHANGED <<cells, comp_int>>,
         frames' = IF Lookup(n) # NULL THEN Return(fs, Lookup(n))
                   ELSE Append(fs, NewFrame(n))
  PROVE  /\ frames' \in Seq(Frame)
         /\ Pile(frames') /\ Pending'
         /\ Calls(frames)' => Given(Top)' /\ Top'.phase # "room"
<1>1. PICK k \in Nat : k = Len(fs) /\ k = Len(frames)
  OBVIOUS
<1>2. \A i \in 1 .. k : \A c \in cells : comp_int[c] # fs[i].el
  <2>1. frames # <<>> => Top.phase # "room"
    BY DEF Calls
  <2>2. frames \in Seq(Frame)
    BY DEF TypeOK
  <2>3. k # 0 => frames # <<>>
    BY <1>1
  <2>4. QED  BY <1>1, <2>1, <2>3 DEF Pending, Top
<1>3. k = 0 <=> fs = <<>>
  BY <1>1, EmptySeq
<1>4. CASE Lookup(n) # NULL
  <2>1. PICK c \in Cells : c = Lookup(n) /\ c \in cells /\ comp_int[c] = n
    BY <1>4, LookupFinds DEF TypeOK
  <2>2. frames' = Return(fs, c)
    BY <1>4, <2>1
  <2> DEFINE gs == Return(fs, c)
  <2>3. /\ gs \in Seq(Frame) /\ Len(gs) = Len(fs) /\ Pile(gs)
        /\ \A i \in 1 .. Len(fs) : gs[i].el = fs[i].el
        /\ gs # <<>> => \E g \in Frame :
             /\ g = gs[Len(gs)] /\ Waits(g) /\ Asked(g) = n /\ g.check = c
    BY ReturnIs
  <2>4. frames' = gs
    BY <2>2
  <2> HIDE DEF gs
  <2>5. Pending'
    BY <1>1, <1>2, <2>3, <2>4 DEF Pending
  <2>6. Calls(frames)' => Given(Top)' /\ Top'.phase # "room"
    <3>1. SUFFICES ASSUME gs # <<>>
                   PROVE  Given(Top)' /\ Top'.phase # "room"
      BY <2>4 DEF Calls
    <3>2. PICK g \in Frame :
            g = gs[Len(gs)] /\ Waits(g) /\ Asked(g) = n /\ g.check = c
      BY <2>3, <3>1
    <3>3. Top' = g
      BY <2>4, <3>2 DEF Top
    <3>4. QED  BY <2>1, <3>2, <3>3 DEF Given, Waits
  <2>7. QED  BY <2>3, <2>4, <2>5, <2>6
<1>5. CASE Lookup(n) = NULL
  <2>1. \A c \in cells : comp_int[c] # n
    BY <1>5, LookupFinds, CellsAssumption DEF TypeOK
  <2>2. frames' = Append(fs, NewFrame(n))
    BY <1>5
  <2>3. /\ frames' \in Seq(Frame) /\ Len(frames') = k + 1
        /\ frames'[k + 1] = NewFrame(n)
        /\ \A i \in 1 .. k : frames'[i] = fs[i]
        /\ Pile(frames')
    <3> DEFINE gs == Append(fs, NewFrame(n))
    <3>1. /\ gs \in Seq(Frame) /\ Len(gs) = Len(fs) + 1
          /\ gs[Len(gs)] = NewFrame(n)
          /\ \A i \in 1 .. Len(fs) : gs[i] = fs[i]
          /\ Pile(gs)
      BY PilePush
    <3> HIDE DEF gs
    <3>2. frames' = gs
      BY <2>2 DEF gs
    <3>3. QED  BY <1>1, <3>1, <3>2
  <2>4. NewFrame(n).el = n
    BY DEF NewFrame
  <2>5. Pending'
    <3>1. \A i \in 1 .. k + 1 : i \in 1 .. k \/ i = k + 1
      OBVIOUS
    <3>2. QED  BY <1>2, <2>1, <2>3, <2>4, <3>1, SMTT(20) DEF Pending
  <2>6. Top' = NewFrame(n)
    BY <2>3 DEF Top
  <2>7. /\ NewFrame(n).phase = "up" /\ NewFrame(n).levels = <<>>
        /\ NewFrame(n).check = NULL
    BY DEF NewFrame
  <2>8. QED  BY <2>3, <2>5, <2>6, <2>7 DEF Given, Waits
<1>6. QED  BY <1>4, <1>5

\* A fetch keeps the invariant.
LEMMA GetStep ==
  ASSUME IInv, state = "open",
         ~(Calls(frames) /\ Top.phase = "room"),
         NEW fs \in Seq(Frame), Pile(fs), Len(fs) = Len(frames),
         \A i \in 1 .. Len(fs) : fs[i].el = frames[i].el,
         NEW n \in Elements,
         fs # <<>> => Waits(fs[Len(fs)]) /\ Asked(fs[Len(fs)]) = n,
         Get(n, fs)
  PROVE  IInv' /\ Incoming = {} /\ Incoming' = {}
<1>1. /\ TypeOK /\ Chained /\ Store /\ Threaded /\ Counted
      /\ Pile(frames) /\ Pending
  BY DEF IInv, Making, Store
<1>2. /\ UNCHANGED <<cells, comp_int, path, htable, current, number, state, failed>>
      /\ lilo' = IF Lookup(n) = NULL \/ Lookup(n) = lilo.first THEN lilo
                 ELSE AtFront(Unlinked(lilo, Lookup(n)), Lookup(n))
      /\ frames' = IF Lookup(n) # NULL THEN Return(fs, Lookup(n))
                   ELSE Append(fs, NewFrame(n))
  BY DEF Get
<1>3. /\ frames' \in Seq(Frame)
      /\ Pile(frames') /\ Pending'
      /\ Calls(frames)' => Given(Top)' /\ Top'.phase # "room"
  BY <1>1, <1>2, GetPiles
<1>4. Listed = cells /\ Listed' = cells /\ Incoming = {} /\ Incoming' = {}
  BY <1>2, <1>3, NoIncoming
<1>5. Threaded' /\ lilo' \in Links
  <2>1. CASE Lookup(n) = NULL
    BY <1>1, <1>2, <1>4, <2>1 DEF Threaded, TypeOK, Links
  <2>2. CASE Lookup(n) # NULL
    <3>1. Lookup(n) \in cells
      BY <1>1, <2>2, LookupFinds
    <3> DEFINE c == Lookup(n)
    <3>2. lilo' = IF c = lilo.first THEN lilo ELSE AtFront(Unlinked(lilo, c), c)
      BY <1>2, <2>2
    <3> HIDE DEF c
    <3>3. QED  BY <1>1, <1>4, <3>1, <3>2, FoundThreaded DEF c
  <2>3. QED  BY <2>1, <2>2
<1>6. TypeOK'
  BY <1>1, <1>2, <1>3, <1>5 DEF TypeOK, Links
<1>7. Store' /\ Counted'
  BY <1>1, <1>2, <1>4, StoreSame, CountedSame
<1>8. Making'
  BY <1>2, <1>3 DEF Making
<1>9. QED  BY <1>4, <1>5, <1>6, <1>7, <1>8 DEF IInv

(***************************************************************************)
(* The steps                                                               *)
(***************************************************************************)
\* What the invariant says of the innermost call.
LEMMA TopIs ==
  ASSUME IInv, state = "open", Calls(frames)
  PROVE  /\ frames \in Seq(Frame) /\ frames # <<>> /\ Pile(frames) /\ Pending
         /\ Len(frames) \in Nat /\ Len(frames) >= 1
         /\ Top \in Frame /\ Climbs(Top) /\ Given(Top)
<1>1. frames \in Seq(Frame) /\ frames # <<>> /\ Pile(frames) /\ Pending /\ Given(Top)
  BY DEF IInv, TypeOK, Making, Calls
<1>2. PICK n \in Nat : n = Len(frames) /\ n >= 1
  <2>1. Len(frames) \in Nat \ {0}
    BY <1>1, EmptySeq
  <2>2. QED  BY <2>1
<1>3. QED  BY <1>1, <1>2 DEF Pile, Top

\* The innermost call goes on with f: the calls below it are as they were.
LEMMA WithTopIs ==
  ASSUME NEW f \in Frame, frames \in Seq(Frame), frames # <<>>, Pile(frames),
         Climbs(f), f.el = Top.el
  PROVE  /\ WithTop(f) \in Seq(Frame) /\ Len(WithTop(f)) = Len(frames)
         /\ WithTop(f) # <<>> /\ WithTop(f)[Len(frames)] = f
         /\ \A i \in 1 .. Len(frames) :
              /\ i # Len(frames) => WithTop(f)[i] = frames[i]
              /\ WithTop(f)[i].el = frames[i].el
         /\ Pile(WithTop(f))
<1> DEFINE gs == [frames EXCEPT ![Len(frames)] = f]
<1>1. f.el = frames[Len(frames)].el
  BY DEF Top
<1>2. /\ gs \in Seq(Frame) /\ Len(gs) = Len(frames) /\ gs # <<>>
      /\ gs[Len(gs)] = f
      /\ \A i \in 1 .. Len(frames) : /\ i # Len(frames) => gs[i] = frames[i]
                                     /\ gs[i].el = frames[i].el
      /\ Pile(gs)
  BY <1>1, PileTop
<1>3. WithTop(f) = gs
  BY DEF WithTop
<1> HIDE DEF gs
<1>4. QED  BY <1>2, <1>3

\* The fetches: from outside, going up and going down.
LEMMA FetchStep ==
  ASSUME IInv, get_next_sgml_obj \/ Up \/ Down
  PROVE  /\ IInv' /\ Incoming = {} /\ Incoming' = {}
         /\ \E n \in Elements : \E fs : Get(n, fs)
<1>1. CASE get_next_sgml_obj
  <2>1. PICK n \in Elements : Get(n, <<>>)
    BY <1>1 DEF get_next_sgml_obj
  <2>2. state = "open" /\ frames = <<>>
    BY <1>1 DEF get_next_sgml_obj
  <2>3. <<>> \in Seq(Frame) /\ Len(<<>>) = 0 /\ Len(<<>>) = Len(frames)
    BY <2>2
  <2>4. Pile(<<>>) /\ ~Calls(frames)
    BY <2>2, <2>3 DEF Pile, Calls
  <2>5. QED  BY <2>1, <2>2, <2>3, <2>4, GetStep
<1>2. CASE Up
  <2> DEFINE m == ancestor[Top.num]
             f == [Top EXCEPT !.levels = Append(@, Top.num), !.num = m]
  <2>1. /\ state = "open" /\ Calls(frames) /\ Top.phase = "up" /\ Top.num # 0
        /\ Get(ancestor[IF Top.check = NULL THEN Top.el ELSE comp_int[Top.check]],
               WithTop([Top EXCEPT !.levels = Append(@, Top.num),
                 !.num = ancestor[IF Top.check = NULL THEN Top.el
                                  ELSE comp_int[Top.check]]]))
    BY <1>2 DEF Up
  <2>2. /\ frames \in Seq(Frame) /\ frames # <<>> /\ Pile(frames)
        /\ Top \in Frame /\ Climbs(Top) /\ Given(Top)
    BY <2>1, TopIs
  <2>3. (IF Top.check = NULL THEN Top.el ELSE comp_int[Top.check]) = Top.num
    <3>1. CASE Top.levels = <<>>
      BY <2>1, <2>2, <3>1 DEF Given, Climbs
    <3>2. CASE Top.levels # <<>>
      <4>1. Top.check \in cells /\ comp_int[Top.check] = Top.num
        BY <2>1, <2>2, <3>2 DEF Given, Waits, Asked
      <4>2. Top.check # NULL
        BY <4>1, CellsAssumption DEF IInv, TypeOK
      <4>3. QED  BY <4>1, <4>2
    <3>3. QED  BY <3>1, <3>2
  <2>4. Get(m, WithTop(f))
    BY <2>1, <2>3
  <2>5. /\ f \in Frame /\ Climbs(f) /\ Waits(f) /\ f.el = Top.el /\ Asked(f) = m
    BY <2>1, <2>2, UpClimbs
  <2>6. m \in Elements
    BY <2>2, AncestorOfElement DEF Frame
  <2> HIDE DEF f, m
  <2>7. /\ WithTop(f) \in Seq(Frame) /\ Len(WithTop(f)) = Len(frames)
        /\ WithTop(f)[Len(frames)] = f
        /\ \A i \in 1 .. Len(frames) : WithTop(f)[i].el = frames[i].el
        /\ Pile(WithTop(f))
    BY <2>2, <2>5, WithTopIs
  <2>8. QED  BY <2>1, <2>4, <2>5, <2>6, <2>7, GetStep
<1>3. CASE Down
  <2> DEFINE m == Last(Top.levels)
             f == [Top EXCEPT !.phase = "gi"]
  <2>1. /\ state = "open" /\ Calls(frames) /\ Top.phase = "down"
        /\ Len(Top.levels) > 1
        /\ Get(m, WithTop(f))
    BY <1>3 DEF Down
  <2>2. /\ frames \in Seq(Frame) /\ frames # <<>> /\ Pile(frames)
        /\ Top \in Frame /\ Climbs(Top) /\ Given(Top)
    BY <2>1, TopIs
  <2>3. /\ f \in Frame /\ Climbs(f) /\ Waits(f) /\ f.el = Top.el /\ Asked(f) = m
    BY <2>1, <2>2, DownClimbs
  <2> HIDE DEF f, m
  <2>4. m \in Elements
    BY <2>3, AsksAbove
  <2>5. /\ WithTop(f) \in Seq(Frame) /\ Len(WithTop(f)) = Len(frames)
        /\ WithTop(f)[Len(frames)] = f
        /\ \A i \in 1 .. Len(frames) : WithTop(f)[i].el = frames[i].el
        /\ Pile(WithTop(f))
    BY <2>2, <2>3, WithTopIs
  <2>6. QED  BY <2>1, <2>3, <2>4, <2>5, GetStep
<1>4. QED  BY <1>1, <1>2, <1>3

\* The innermost call goes on with f, and the cache is left alone.
LEMMA TopStep ==
  ASSUME IInv, state = "open", Calls(frames), Top.phase # "room",
         NEW f \in Frame, Climbs(f), f.el = Top.el, f.phase # "room", Given(f),
         frames' = WithTop(f),
         UNCHANGED <<cells, comp_int, path, htable, lilo, current, number,
                     failed>>,
         state' \in {"open", "overrun"}, state' = "overrun" => f.phase = "down"
  PROVE  IInv' /\ Incoming = {} /\ Incoming' = {}
<1>1. /\ frames \in Seq(Frame) /\ frames # <<>> /\ Pile(frames) /\ Pending
      /\ Len(frames) \in Nat /\ Len(frames) >= 1
  BY TopIs
<1>2. /\ frames' \in Seq(Frame) /\ Len(frames') = Len(frames)
      /\ frames' # <<>> /\ frames'[Len(frames')] = f
      /\ \A i \in 1 .. Len(frames) :
           /\ i # Len(frames) => frames'[i] = frames[i]
           /\ frames'[i].el = frames[i].el
      /\ Pile(frames')
  BY <1>1, WithTopIs
<1>3. Top' = f
  BY <1>2 DEF Top
<1>4. Listed = cells /\ Listed' = cells /\ Incoming = {} /\ Incoming' = {}
  BY <1>3, NoIncoming
<1>5. TypeOK'
  BY <1>2 DEF IInv, TypeOK
<1>6. Store' /\ Counted' /\ Threaded'
  BY <1>4, StoreSame, CountedSame DEF IInv, Threaded
<1>7. Pending'
  BY <1>1, <1>2 DEF Pending, Top
<1>8. Given(f)'
  BY DEF Given, Waits
<1>9. Making'
  BY <1>2, <1>3, <1>7, <1>8 DEF Making, Calls, Given
<1>10. QED  BY <1>4, <1>5, <1>6, <1>9 DEF IInv

\* The top of the levels is reached, or the end of these_levels; a name joins.
LEMMA WalkStep ==
  ASSUME IInv, UpDone \/ AddGi
  PROVE  IInv' /\ Incoming = {} /\ Incoming' = {}
<1>1. CASE UpDone
  <2> DEFINE f == [Top EXCEPT !.levels = Append(@, 0), !.phase = "down"]
  <2>1. /\ state = "open" /\ Calls(frames) /\ Top.phase = "up"
        /\ Top.num = 0 \/ Len(Top.levels) = n_levels
        /\ frames' = WithTop(f)
        /\ state' = IF Len(Top.levels) = n_levels THEN "overrun" ELSE state
        /\ UNCHANGED <<cells, comp_int, path, htable, lilo, current, number, failed>>
    BY <1>1 DEF UpDone
  <2>2. Top \in Frame /\ Climbs(Top)
    BY <2>1, TopIs
  <2>3. f \in Frame /\ f.el = Top.el /\ f.phase = "down"
    <3>1. Append(Top.levels, 0) \in Seq(Levels)
      <4>1. Top.levels \in Seq(Levels) /\ 0 \in Levels
        BY <2>2 DEF Frame, Levels
      <4>2. QED  BY <4>1
    <3>2. QED  BY <2>2, <3>1 DEF Frame
  <2>4. Given(f)
    BY <2>3 DEF Given, Waits
  <2>5. CASE Top.num = 0
    <3>1. Climbs(f)
      BY <2>1, <2>2, <2>5, UpDoneClimbs
    <3> HIDE DEF f
    <3>2. QED  BY <2>1, <2>3, <2>4, <3>1, TopStep
  <2>6. CASE Top.num # 0
    <3> HIDE DEF f
    <3>1. state' = "overrun"
      BY <2>1, <2>6
    <3>2. frames \in Seq(Frame) /\ frames # <<>> /\ Len(frames) \in Nat /\ Len(frames) >= 1
      BY <2>1, TopIs
    <3>3. /\ frames' \in Seq(Frame) /\ frames' # <<>> /\ Len(frames') = Len(frames)
          /\ frames'[Len(frames)] = f
      <4>1. frames' = [frames EXCEPT ![Len(frames)] = f]
        BY <2>1 DEF WithTop
      <4>2. frames' \in Seq(Frame) /\ Len(frames') = Len(frames) /\ frames'[Len(frames)] = f
        BY <2>3, <3>2, <4>1
      <4>3. QED  BY <3>2, <4>2
    <3>4. Top' = f
      BY <3>3 DEF Top
    <3>5. Listed = cells /\ Listed' = cells /\ Incoming = {} /\ Incoming' = {}
      BY <2>1, <2>3, <3>4, NoIncoming
    <3>6. TypeOK'
      BY <2>1, <3>1, <3>3 DEF IInv, TypeOK
    <3>7. Store' /\ Counted' /\ Threaded'
      BY <2>1, <3>1, <3>5, StoreSame, CountedSame DEF IInv, Threaded
    <3>8. Making'
      BY <2>3, <3>1, <3>3, <3>4 DEF Making, Calls
    <3>9. QED  BY <3>5, <3>6, <3>7, <3>8 DEF IInv
  <2>7. QED  BY <2>5, <2>6
<1>2. CASE AddGi
  <2>1. /\ state = "open" /\ Calls(frames) /\ Top.phase = "gi"
        /\ frames' = WithTop([Top EXCEPT !.path = Append(Top.path, comp_int[Top.check]),
                                         !.levels = Front(@), !.phase = "down"])
        /\ UNCHANGED <<cells, comp_int, path, htable, lilo, current, number,
                       state, failed>>
    BY <1>2 DEF AddGi, Named
  <2>2. Top \in Frame /\ Climbs(Top) /\ Given(Top)
    BY <2>1, TopIs
  <2>3. comp_int[Top.check] = Last(Top.levels)
    <3>1. Top.levels # <<>>
      BY <2>1, <2>2 DEF Climbs
    <3>2. QED  BY <2>1, <2>2, <3>1 DEF Given, Waits, Asked
  <2> DEFINE m == Last(Top.levels)
             f == [Top EXCEPT !.path = Append(Top.path, m), !.levels = Front(@),
                              !.phase = "down"]
  <2>4. frames' = WithTop(f)
    BY <2>1, <2>3
  <2>5. f \in Frame /\ Climbs(f)
    BY <2>1, <2>2, AddGiClimbs
  <2>6. f.el = Top.el /\ f.phase = "down"
    BY <2>2 DEF Frame
  <2> HIDE DEF f
  <2>7. Given(f)
    BY <2>6 DEF Given, Waits
  <2>8. QED  BY <2>1, <2>2, <2>4, <2>5, <2>6, <2>7, TopStep
<1>3. QED  BY <1>1, <1>2

\* The book gives up the calls, is closed, or is left alone.
LEMMA EndStep ==
  ASSUME IInv,
         ReadFails \/ CellRefused \/ clear_hash_lilo \/ ClearDone \/ UNCHANGED vars
  PROVE  IInv'
<1>1. CASE ReadFails \/ CellRefused
  <2>1. /\ UNCHANGED <<cells, comp_int, path, htable, lilo, number, state>>
        /\ state = "open" /\ Calls(frames) /\ Top.phase # "room"
        /\ frames' = <<>>
        /\ failed' = TRUE \/ UNCHANGED <<current, failed>>
    BY <1>1 DEF ReadFails, CellRefused
  <2>2. current' \in Int /\ failed' \in BOOLEAN
    <3>1. CASE ReadFails
      BY <3>1 DEF ReadFails, IInv, TypeOK
    <3>2. CASE CellRefused
      <4>1. PICK junk \in Junk : current' = current - (junk + Charge[Top.el])
        BY <3>2 DEF CellRefused
      <4>2. Top \in Frame
        BY <2>1, TopIs
      <4>3. Charge[Top.el] \in Int /\ junk \in Int /\ current \in Int
        BY <4>2, SizesAssumption DEF Frame, IInv, TypeOK
      <4>4. QED  BY <3>2, <4>1, <4>3 DEF CellRefused
    <3>3. QED  BY <1>1, <3>1, <3>2
  <2>3. frames' \in Seq(Frame) /\ Len(frames') = 0 /\ ~Calls(frames)'
    BY <2>1 DEF Calls
  <2>4. Listed = cells /\ Listed' = cells
    BY <2>1, <2>3, NoIncoming
  <2>5. TypeOK'
    BY <2>1, <2>2, <2>3 DEF IInv, TypeOK
  <2>6. Store' /\ Threaded'
    BY <2>1, <2>4, StoreSame DEF IInv, Threaded
  <2>7. Counted'
    <3>1. CASE failed' = TRUE
      BY <2>1, <2>4, <3>1 DEF IInv, Counted
    <3>2. CASE UNCHANGED <<current, failed>>
      BY <2>1, <2>4, <3>2, CountedSame DEF IInv
    <3>3. QED  BY <2>1, <3>1, <3>2
  <2>8. Making'
    BY <2>1, <2>3 DEF IInv, Making, Pending, Pile
  <2>9. QED  BY <2>5, <2>6, <2>7, <2>8 DEF IInv
<1>2. CASE clear_hash_lilo \/ ClearDone
  <2>1. /\ UNCHANGED <<cells, comp_int, path, htable, lilo, current, number,
                       frames, failed>>
        /\ frames = <<>> /\ state' \in {"closing", "closed"}
    BY <1>2 DEF clear_hash_lilo, ClearDone, IInv, Making
  <2>2. Listed = cells /\ Listed' = cells
    BY <2>1, NoIncoming DEF Calls
  <2>3. TypeOK'
    BY <2>1 DEF IInv, TypeOK
  <2>4. Store' /\ Counted' /\ Threaded'
    BY <2>1, <2>2, StoreSame, CountedSame DEF IInv, Threaded
  <2>5. Making'
    BY <2>1 DEF Making
  <2>6. QED  BY <2>3, <2>4, <2>5 DEF IInv
<1>3. CASE UNCHANGED vars
  <2>1. TypeOK'
    BY <1>3 DEF IInv, TypeOK, vars
  <2>2. Listed' = Listed
    BY <1>3 DEF Listed, Incoming, Calls, Top, vars
  <2>3. Store' /\ Counted' /\ Threaded'
    BY <1>3, <2>2, StoreSame, CountedSame DEF IInv, Threaded, vars
  <2>4. Pile(frames)' = Pile(frames) /\ Pending' = Pending
    BY <1>3 DEF Pending, vars
  <2>5. Given(Top)' = Given(Top) /\ Top' = Top /\ Calls(frames)' = Calls(frames)
    BY <1>3 DEF Given, Calls, Top, vars
  <2>6. Making'
    BY <1>3, <2>4, <2>5 DEF IInv, Making, vars
  <2>7. QED  BY <2>1, <2>3, <2>6 DEF IInv
<1>4. QED  BY <1>1, <1>2, <1>3

\* What the cells take: a number for each, and their sum.
LEMMA TakesNat ==
  ASSUME TypeOK
  PROVE  /\ \A c \in Cells : Takes[c] = Charge[comp_int[c]] /\ Takes[c] \in Nat
         /\ \A c \in Cells : Takes[c] >= 1
<1>1. \A e \in Elements : Charge[e] \in Nat /\ Charge[e] >= 1
  BY SizesAssumption
<1>2. QED  BY <1>1 DEF TypeOK, Takes

\* The object that has been made gets its cell, which goes on its chain.
LEMMA NewCellStep ==
  ASSUME IInv, NewCell
  PROVE  /\ IInv' /\ Incoming = {} /\ Incoming' # {} /\ Top'.el = Top.el
         /\ Listed = cells /\ Listed' = cells /\ Top.el \in Elements
         /\ \A d \in cells : comp_int'[d] = comp_int[d] /\ comp_int[d] # Top.el
<1>1. PICK c \in Cells \ cells :
        /\ cells' = cells \cup {c}
        /\ comp_int' = [comp_int EXCEPT ![c] = Top.el]
        /\ path' = [path EXCEPT ![c] = Append(Top.path, Top.el)]
        /\ htable' = [htable EXCEPT ![Index(Top.el)] = Append(@, c)]
        /\ frames' = WithTop([Top EXCEPT !.check = c, !.phase = "room"])
  BY DEF NewCell
<1>2. /\ state = "open" /\ Calls(frames) /\ Top.phase = "down" /\ Len(Top.levels) = 1
      /\ UNCHANGED <<lilo, current, number, state, failed>>
  BY DEF NewCell
<1>3. /\ frames \in Seq(Frame) /\ frames # <<>> /\ Pile(frames) /\ Pending
      /\ Len(frames) \in Nat /\ Len(frames) >= 1
      /\ Top \in Frame /\ Climbs(Top)
  BY <1>2, TopIs
<1>4. TypeOK /\ Chained /\ PathsRight /\ IsFiniteSet(cells) /\ Threaded /\ Counted
  BY DEF IInv, Store
<1>5. PICK f \in Frame :
        /\ f = [Top EXCEPT !.check = c, !.phase = "room"]
        /\ Climbs(f) /\ f.el = Top.el /\ f.phase = "room" /\ f.check = c
  <2> DEFINE g == [Top EXCEPT !.check = c, !.phase = "room"]
  <2>1. g \in Frame /\ Climbs(g) /\ g.el = Top.el
    BY <1>2, <1>3, RoomClimbs
  <2>2. g.phase = "room" /\ g.check = c
    BY <1>3 DEF Frame
  <2> HIDE DEF g
  <2>3. QED  BY <2>1, <2>2 DEF g
<1>6. /\ frames' \in Seq(Frame) /\ Len(frames') = Len(frames)
      /\ frames' # <<>> /\ frames'[Len(frames')] = f
      /\ \A i \in 1 .. Len(frames) :
           /\ i # Len(frames) => frames'[i] = frames[i]
           /\ frames'[i].el = frames[i].el
      /\ Pile(frames')
  <2>1. frames' = WithTop(f)
    BY <1>1, <1>5
  <2>2. QED  BY <1>3, <1>5, <2>1, WithTopIs
<1>7. Top' = f
  BY <1>6 DEF Top
<1>8. Listed = cells /\ Listed' = cells /\ Incoming = {} /\ Incoming' # {}
  <2>1. Incoming = {}
    BY <1>2 DEF Incoming
  <2>2. Incoming' = {c}
    BY <1>5, <1>6, <1>7 DEF Incoming, Calls
  <2>3. QED  BY <1>1, <2>1, <2>2 DEF Listed
<1>9. PICK e \in Elements : e = Top.el /\ e \in Nat
  BY <1>3, AncestorOfElement DEF Frame
<1>10. PICK p \in Seq(Elements) : p = Append(Top.path, e)
  <2>1. Top.path \in Seq(Elements)
    BY <1>3 DEF Frame
  <2>2. Append(Top.path, e) \in Seq(Elements)
    BY <2>1
  <2>3. QED  BY <2>2
<1>11. /\ comp_int' \in [Cells -> Elements] /\ comp_int'[c] = e
       /\ path' \in [Cells -> Seq(Elements)] /\ path'[c] = p
       /\ \A d \in cells : d # c /\ comp_int'[d] = comp_int[d] /\ path'[d] = path[d]
  BY <1>1, <1>4, <1>9, <1>10 DEF TypeOK
<1>12. \A d \in cells : comp_int[d] # e
  <2>1. \A d \in cells : comp_int[d] # frames[Len(frames)].el
    BY <1>2, <1>3 DEF Pending, Top
  <2>2. QED  BY <1>9, <2>1 DEF Top
<1>13. Chained' /\ htable' \in [0 .. HtableSize - 1 -> Seq(Cells)]
  <2> DEFINE b == Index(e)
             s == Append(htable[b], c)
  <2>1. b \in 0 .. HtableSize - 1 /\ htable \in [0 .. HtableSize - 1 -> Seq(Cells)]
    BY <1>4, <1>9, IndexType DEF TypeOK
  <2>2. htable' = [htable EXCEPT ![b] = s]
    BY <1>1, <1>9
  <2>3. /\ htable[b] \in Seq(Cells) /\ IsInjective(htable[b])
        /\ Range(htable[b]) = {d \in cells : Index(comp_int[d]) = b}
    BY <1>4, <2>1 DEF Chained
  <2>4. s \in Seq(Cells) /\ IsInjective(s) /\ Range(s) = Range(htable[b]) \cup {c}
    <3>1. c \in Cells /\ c \notin Range(htable[b])
      BY <2>3
    <3>2. QED  BY <2>3, <3>1, AppendList
  <2> HIDE DEF s
  <2>5. ASSUME NEW a \in 0 .. HtableSize - 1
        PROVE  /\ IsInjective(htable'[a])
               /\ Range(htable'[a]) = {d \in cells' : Index(comp_int'[d]) = a}
    <3>1. {d \in cells' : Index(comp_int'[d]) = a}
            = {d \in cells : Index(comp_int[d]) = a}
              \cup (IF a = b THEN {c} ELSE {})
      BY <1>1, <1>11
    <3>2. CASE a = b
      BY <2>1, <2>2, <2>3, <2>4, <3>1, <3>2
    <3>3. CASE a # b
      <4>1. htable'[a] = htable[a]
        BY <2>1, <2>2, <3>3
      <4>2. QED  BY <1>4, <3>1, <3>3, <4>1 DEF Chained
    <3>4. QED  BY <3>2, <3>3
  <2>6. \A d1, d2 \in cells' : comp_int'[d1] = comp_int'[d2] => d1 = d2
    BY <1>1, <1>4, <1>11, <1>12 DEF Chained
  <2>7. htable' \in [0 .. HtableSize - 1 -> Seq(Cells)]
    BY <2>1, <2>2, <2>4
  <2>8. QED  BY <2>5, <2>6, <2>7 DEF Chained, Index
<1>14. PathsRight'
  <2>1. p = PathTo[e]
    <3>1. Last(Top.levels) = e
      BY <1>2, <1>3, <1>9 DEF Climbs, Last
    <3>2. Top.path = Above(e)
      BY <1>2, <1>3, <3>1 DEF Climbs
    <3>3. Append(<<>>, 0) = <<0>>
      OBVIOUS
    <3>4. QED  BY <1>9, <1>10, <3>2, <3>3, PathToIs DEF Above
  <2>2. QED  BY <1>1, <1>4, <1>11, <2>1 DEF PathsRight
<1>15. IsFiniteSet(cells')
  BY <1>1, <1>4, FS_AddElement
<1>16. TypeOK'
  BY <1>1, <1>2, <1>4, <1>6, <1>11, <1>13 DEF TypeOK
<1>17. Threaded'
  BY <1>2, <1>4, <1>8 DEF Threaded
<1>18. Counted'
  <2>1. /\ \A d \in cells : Takes[d] \in Nat
        /\ \A d \in cells : Takes'[d] = Takes[d]
    <3>1. cells \subseteq Cells
      BY <1>4 DEF TypeOK
    <3>2. QED  BY <1>4, <1>11, <3>1, TakesNat DEF Takes
  <2>2. SumFunctionOnSet(Takes', cells) = SumFunctionOnSet(Takes, cells)
    BY <1>4, <2>1, SumSame
  <2>3. Bytes(Listed)' = Bytes(Listed)
    BY <1>8, <2>2 DEF Bytes
  <2>4. QED  BY <1>2, <1>4, <1>8, <2>3 DEF Counted
<1>19. Pending'
  <2>1. ASSUME NEW i \in 1 .. Len(frames), i # Len(frames)
        PROVE  \A d \in cells \cup {c} : comp_int'[d] # frames[i].el
    <3>1. \A d \in cells : comp_int[d] # frames[i].el
      BY <1>3, <2>1 DEF Pending
    <3>2. e < frames[i].el
      BY <1>3, <1>9, <2>1 DEF Pile, Top
    <3>3. frames[i].el # e
      BY <1>9, <3>2
    <3>4. QED  BY <1>11, <3>1, <3>3
  <2>2. ASSUME NEW i \in 1 .. Len(frames'),
               i < Len(frames') \/ frames'[i].phase # "room"
        PROVE  i # Len(frames)
    <3>1. Len(frames') = Len(frames) /\ frames'[Len(frames')].phase = "room"
      BY <1>5, <1>6
    <3>2. Len(frames) \in Nat
      BY <1>3
    <3>3. QED  BY <2>2, <3>1, <3>2
  <2>3. QED  BY <1>1, <1>6, <2>1, <2>2 DEF Pending
<1>20. Given(f)'
  BY <1>1, <1>5, <1>9, <1>11 DEF Given, Waits
<1>21. Making'
  BY <1>2, <1>6, <1>7, <1>19, <1>20 DEF Making, Given
<1>22. IInv'
  BY <1>13, <1>14, <1>15, <1>16, <1>17, <1>18, <1>21 DEF IInv, Store
<1>23. QED  BY <1>5, <1>7, <1>8, <1>9, <1>11, <1>12, <1>22

\* The bytes of a set of cells without one of them.
LEMMA BytesWithout ==
  ASSUME TypeOK, IsFiniteSet(cells), NEW S \in SUBSET cells, NEW c \in S,
         \A d \in cells \ {c} : Takes'[d] = Takes[d]
  PROVE  SumFunctionOnSet(Takes', S \ {c})
           = SumFunctionOnSet(Takes, S) - Charge[comp_int[c]]
<1>1. \A d \in S : Takes[d] \in Nat
  BY TakesNat DEF TypeOK
<1>2. IsFiniteSet(S) /\ IsFiniteSet(S \ {c})
  BY FS_Subset
<1>3. SumFunctionOnSet(Takes, S) = Takes[c] + SumFunctionOnSet(Takes, S \ {c})
  BY <1>1, <1>2, SumWithout
<1>4. SumFunctionOnSet(Takes', S \ {c}) = SumFunctionOnSet(Takes, S \ {c})
  <2>1. \A d \in S \ {c} : Takes[d] \in Nat /\ Takes'[d] = Takes[d]
    BY <1>1
  <2>2. QED  BY <1>2, <2>1, SumSame
<1>5. SumFunctionOnSet(Takes, S \ {c}) \in Nat
  BY <1>1, <1>2, SumNat
<1>6. Takes[c] = Charge[comp_int[c]] /\ Takes[c] \in Nat
  BY TakesNat DEF TypeOK
<1>7. QED  BY <1>3, <1>4, <1>5, <1>6

\* A cell is given back, and is on no chain any more.
LEMMA GoneStore ==
  ASSUME TypeOK, Store, NEW c \in cells, Freed(c),
         htable' \in [0 .. HtableSize - 1 -> Seq(Cells)],
         \A a \in 0 .. HtableSize - 1 :
           /\ IsInjective(htable'[a])
           /\ Range(htable'[a]) = Range(htable[a]) \ {c}
  PROVE  /\ Store'
         /\ cells' = cells \ {c} /\ cells' \subseteq Cells
         /\ comp_int' \in [Cells -> Elements]
         /\ path' \in [Cells -> Seq(Elements)]
         /\ \A d \in cells \ {c} : /\ comp_int'[d] = comp_int[d]
                                   /\ Takes'[d] = Takes[d]
<1>1. /\ cells' = cells \ {c}
      /\ comp_int' \in [Cells -> Elements]
      /\ path' \in [Cells -> Seq(Elements)]
      /\ \A d \in cells \ {c} : comp_int'[d] = comp_int[d] /\ path'[d] = path[d]
  <2>1. 0 \in Elements /\ <<>> \in Seq(Elements)
    BY BookAssumption
  <2>2. QED  BY <2>1 DEF Freed, TypeOK
<1>2. \A d \in cells \ {c} : Takes'[d] = Takes[d]
  BY <1>1 DEF Takes, TypeOK
<1>3. ASSUME NEW a \in 0 .. HtableSize - 1
      PROVE  Range(htable'[a]) = {d \in cells' : Index(comp_int'[d]) = a}
  <2>1. Range(htable[a]) = {d \in cells : Index(comp_int[d]) = a}
    BY DEF Store, Chained
  <2>2. QED  BY <1>1, <2>1
<1>4. Chained'
  BY <1>1, <1>3 DEF Store, Chained, Index
<1>5. PathsRight'
  BY <1>1 DEF Store, PathsRight
<1>6. IsFiniteSet(cells')
  BY <1>1, FS_Subset DEF Store
<1>7. QED  BY <1>1, <1>2, <1>4, <1>5, <1>6 DEF Store, TypeOK

\* The cell used longest ago is wiped out.
LEMMA EvictStep ==
  ASSUME IInv, Evict
  PROVE  IInv'
<1>1. PICK c : c = lilo.last
  OBVIOUS
<1>2. /\ state = "open" /\ Calls(frames) /\ Top.phase = "room"
      /\ c # NULL
      /\ htable' = Unchained(htable, c)
      /\ lilo' = WithoutLast(lilo)
      /\ CountOut(c) /\ Freed(c)
      /\ UNCHANGED <<frames, state, failed>>
  BY <1>1 DEF Evict, NoRoom
<1>3. /\ frames \in Seq(Frame) /\ frames # <<>> /\ Pile(frames) /\ Pending
      /\ Top \in Frame /\ Given(Top)
  BY <1>2, TopIs
<1>4. TypeOK /\ Store /\ Chained /\ IsFiniteSet(cells) /\ Threaded /\ Counted
  BY DEF IInv, Store
<1>5. PICK r \in cells : r = Top.check /\ comp_int[r] = Top.el
  BY <1>2, <1>3 DEF Given
<1>6. Listed = cells \ {r} /\ Listed' = cells' \ {r}
  BY <1>2, <1>5 DEF Listed, Incoming, Calls, Top
<1>7. PICK q \in Lists : Range(q) = Listed /\ Linked(lilo, q)
  BY <1>4 DEF Threaded
<1>8. lilo \in Links
  BY <1>4 DEF TypeOK, Links
<1>9. q # <<>>
  BY <1>1, <1>2, <1>7 DEF Linked
<1>10. c \in Listed /\ lilo' = Unlinked(lilo, c)
  BY <1>1, <1>2, <1>7, <1>8, <1>9, WithoutLastLinked
<1>11. c \in cells /\ c # r /\ c \in Cells
  BY <1>4, <1>6, <1>10 DEF TypeOK
<1>12. /\ htable' \in [0 .. HtableSize - 1 -> Seq(Cells)]
       /\ \A a \in 0 .. HtableSize - 1 :
            /\ IsInjective(htable'[a])
            /\ Range(htable'[a]) = Range(htable[a]) \ {c}
  <2> DEFINE b == Index(comp_int[c])
             s == RemoveFirst(htable[b], c)
  <2>1. b \in 0 .. HtableSize - 1 /\ htable \in [0 .. HtableSize - 1 -> Seq(Cells)]
    BY <1>4, <1>11, IndexType DEF TypeOK
  <2>2. htable' = [htable EXCEPT ![b] = s]
    BY <1>2 DEF Unchained
  <2>3. \A a \in 0 .. HtableSize - 1 :
          /\ htable[a] \in Seq(Cells) /\ IsInjective(htable[a])
          /\ Range(htable[a]) = {d \in cells : Index(comp_int[d]) = a}
    BY <1>4, <2>1 DEF Chained
  <2>4. s \in Seq(Cells) /\ IsInjective(s) /\ Range(s) = Range(htable[b]) \ {c}
    <3>1. c \in Range(htable[b])
      BY <1>11, <2>1, <2>3
    <3>2. QED  BY <2>1, <2>3, <3>1, RemoveFirstList
  <2> HIDE DEF s
  <2>5. htable' \in [0 .. HtableSize - 1 -> Seq(Cells)]
    BY <2>1, <2>2, <2>4
  <2>6. ASSUME NEW a \in 0 .. HtableSize - 1
        PROVE  /\ IsInjective(htable'[a])
               /\ Range(htable'[a]) = Range(htable[a]) \ {c}
    <3>1. CASE a = b
      BY <2>1, <2>2, <2>4, <3>1
    <3>2. CASE a # b
      <4>1. htable'[a] = htable[a]
        BY <2>1, <2>2, <3>2
      <4>2. c \notin Range(htable[a])
        BY <2>3, <3>2
      <4>3. QED  BY <2>3, <4>1, <4>2
    <3>3. QED  BY <3>1, <3>2
  <2>7. QED  BY <2>5, <2>6
<1>13. /\ Store'
       /\ cells' = cells \ {c} /\ cells' \subseteq Cells
       /\ comp_int' \in [Cells -> Elements]
       /\ path' \in [Cells -> Seq(Elements)]
       /\ \A d \in cells \ {c} : comp_int'[d] = comp_int[d] /\ Takes'[d] = Takes[d]
  BY <1>2, <1>4, <1>11, <1>12, GoneStore
<1>14. Listed' = Listed \ {c}
  BY <1>6, <1>13
<1>15. Threaded' /\ lilo' \in Links
  BY <1>7, <1>8, <1>10, <1>14, UnlinkedLinked DEF Threaded
<1>16. IsFiniteSet(Listed) /\ Listed \subseteq cells
  BY <1>4, <1>6, FS_Subset
<1>17. Counted' /\ number' \in Nat /\ current' \in Int
  <2>1. Bytes(Listed)' = Bytes(Listed) - Charge[comp_int[c]]
    BY <1>4, <1>10, <1>13, <1>14, <1>16, BytesWithout DEF Bytes
  <2>2. /\ Cardinality(Listed \ {c}) = Cardinality(Listed) - 1
        /\ Cardinality(Listed) \in Nat /\ Cardinality(Listed \ {c}) \in Nat
    BY <1>10, <1>16, FS_RemoveElement, FS_CardinalityType
  <2>3. number' = number - 1 /\ current' = current - Charge[comp_int[c]]
    BY <1>2 DEF CountOut
  <2>4. number = Cardinality(Listed) /\ current \in Int
    BY <1>2, <1>4 DEF Counted, TypeOK
  <2>5. Charge[comp_int[c]] \in Int
    <3>1. comp_int[c] \in Elements
      BY <1>4, <1>11 DEF TypeOK
    <3>2. QED  BY <3>1, SizesAssumption
  <2>6. ~failed => current = Bytes(Listed)
    BY <1>4 DEF Counted
  <2>7. number' = Cardinality(Listed') /\ number' \in Nat
    BY <1>14, <2>2, <2>3, <2>4
  <2>8. ~failed => current' = Bytes(Listed)'
    BY <2>1, <2>3, <2>6
  <2>9. current' \in Int
    BY <2>3, <2>4, <2>5
  <2>10. QED  BY <1>2, <2>7, <2>8, <2>9 DEF Counted
<1>18. TypeOK'
  BY <1>2, <1>4, <1>12, <1>13, <1>15, <1>17 DEF TypeOK, Links
<1>19. Pending'
  BY <1>2, <1>3, <1>13 DEF Pending
<1>20. Top' = Top
  BY <1>2 DEF Top
<1>21. Given(Top)'
  <2>1. Top'.check = r /\ r \in cells' /\ comp_int'[r] = Top'.el /\ Top'.phase = "room"
    BY <1>2, <1>5, <1>11, <1>13, <1>20
  <2>2. QED  BY <2>1 DEF Given, Waits
<1>22. Making'
  BY <1>2, <1>3, <1>19, <1>21 DEF Making
<1>23. QED  BY <1>13, <1>15, <1>17, <1>18, <1>22 DEF IInv

\* The cell goes in front, and the call that waited for its object gets it.
LEMMA InsertStep ==
  ASSUME IInv, Insert
  PROVE  /\ IInv' /\ Incoming = {Top.check} /\ Incoming' = {}
         /\ Top.check \in Cells \ Listed /\ comp_int[Top.check] = Top.el
         /\ Listed' = Listed \cup {Top.check} /\ Top.el \in Elements
<1>1. /\ state = "open" /\ Calls(frames) /\ Top.phase = "room"
      /\ lilo' = AtFront(lilo, Top.check)
      /\ CountIn(Top.check)
      /\ frames' = Return(Front(frames), Top.check)
      /\ UNCHANGED <<cells, comp_int, path, htable, state, failed>>
  BY DEF Insert
<1>2. /\ frames \in Seq(Frame) /\ frames # <<>> /\ Pile(frames) /\ Pending
      /\ Top \in Frame /\ Given(Top)
  BY <1>1, TopIs
<1>3. TypeOK /\ Store /\ IsFiniteSet(cells) /\ Threaded /\ Counted
  BY DEF IInv, Store
<1>4. PICK c \in Cells : c = Top.check /\ c \in cells /\ comp_int[c] = Top.el
  BY <1>1, <1>2, <1>3 DEF Given, TypeOK
<1>5. Listed = cells \ {c} /\ Incoming = {c}
  BY <1>1, <1>4 DEF Listed, Incoming
<1>6. PICK n \in Elements : n = Top.el
  BY <1>2 DEF Frame
<1>7. PICK k \in Nat : Len(frames) = k + 1
  <2>1. Len(frames) \in Nat \ {0}
    BY <1>2, EmptySeq
  <2>2. \A m \in Nat \ {0} : m - 1 \in Nat /\ m = (m - 1) + 1
    OBVIOUS
  <2>3. QED  BY <2>1, <2>2
<1>8. PICK fs \in Seq(Frame) :
        /\ fs = Front(frames) /\ Len(fs) = k /\ Pile(fs)
        /\ \A i \in 1 .. k : fs[i] = frames[i]
        /\ fs # <<>> => Waits(fs[Len(fs)]) /\ Asked(fs[Len(fs)]) = n
  <2>1. Len(frames) - 1 = k
    BY <1>7
  <2>2. /\ Front(frames) \in Seq(Frame) /\ Len(Front(frames)) = Len(frames) - 1
        /\ \A i \in 1 .. Len(frames) - 1 : Front(frames)[i] = frames[i]
        /\ Front(frames) # <<>> =>
             /\ Waits(Front(frames)[Len(Front(frames))])
             /\ Asked(Front(frames)[Len(Front(frames))]) = frames[Len(frames)].el
        /\ Pile(Front(frames))
    BY <1>2, PilePop
  <2>3. n = frames[Len(frames)].el
    BY <1>6 DEF Top
  <2>4. QED  BY <2>1, <2>2, <2>3
<1>9. /\ frames' \in Seq(Frame) /\ Len(frames') = k /\ Pile(frames')
      /\ \A i \in 1 .. k : frames'[i].el = frames[i].el
      /\ frames' # <<>> => \E g \in Frame :
           /\ g = Top' /\ Waits(g) /\ Asked(g) = n /\ g.check = c
  <2> DEFINE gs == Return(fs, c)
  <2>1. /\ gs \in Seq(Frame) /\ Len(gs) = Len(fs) /\ Pile(gs)
        /\ \A i \in 1 .. Len(fs) : gs[i].el = fs[i].el
        /\ gs # <<>> => \E g \in Frame :
             /\ g = gs[Len(gs)] /\ Waits(g) /\ Asked(g) = n /\ g.check = c
    BY <1>8, ReturnIs
  <2>2. frames' = gs
    BY <1>1, <1>4, <1>8
  <2> HIDE DEF gs
  <2>3. QED  BY <1>8, <2>1, <2>2 DEF Top
<1>10. Listed' = cells /\ Incoming' = {}
  <2>1. frames' # <<>> => Top'.phase # "room"
    BY <1>9 DEF Waits
  <2>2. QED  BY <1>1, <2>1, NoIncoming DEF Calls
<1>11. c \notin Listed /\ cells = Listed \cup {c} /\ IsFiniteSet(Listed)
       /\ Listed \subseteq Cells
  BY <1>3, <1>4, <1>5, FS_Subset DEF TypeOK
<1>12. Threaded' /\ lilo' \in Links
  <2>1. PICK q \in Lists : Range(q) = Listed /\ Linked(lilo, q)
    BY <1>3 DEF Threaded
  <2>2. lilo \in Links /\ c \in Cells \ Range(q)
    BY <1>3, <1>11, <2>1 DEF TypeOK, Links
  <2>3. /\ AtFront(lilo, c) \in Links
        /\ Linked(AtFront(lilo, c), Cons(c, q))
        /\ Cons(c, q) \in Lists
        /\ Range(Cons(c, q)) = Range(q) \cup {c}
    BY <2>1, <2>2, AtFrontLinked
  <2>4. lilo' = AtFront(lilo, c)
    BY <1>1, <1>4
  <2>5. QED  BY <1>10, <1>11, <2>1, <2>3, <2>4 DEF Threaded
<1>13. Counted' /\ number' \in Nat /\ current' \in Int
  <2>1. SumFunctionOnSet(Takes, cells) = Takes[c] + SumFunctionOnSet(Takes, Listed)
    <3>1. \A d \in Listed \cup {c} : Takes[d] \in Nat
      BY <1>3, <1>11, TakesNat
    <3>2. QED  BY <1>11, <3>1, SumWith
  <2>2. Bytes(Listed)' = SumFunctionOnSet(Takes, cells)
    BY <1>1, <1>10 DEF Bytes, Takes
  <2>3. /\ Cardinality(cells) = Cardinality(Listed) + 1
        /\ Cardinality(Listed) \in Nat
    BY <1>11, FS_AddElement, FS_CardinalityType
  <2>4. number' = number + 1 /\ current' = current + Charge[comp_int[c]]
    BY <1>1, <1>4 DEF CountIn
  <2>5. number = Cardinality(Listed) /\ current \in Int
    BY <1>1, <1>3 DEF Counted, TypeOK
  <2>6. Takes[c] = Charge[comp_int[c]] /\ Takes[c] \in Nat
    BY <1>3, TakesNat
  <2>7. ~failed => current = SumFunctionOnSet(Takes, Listed)
    BY <1>3 DEF Counted, Bytes
  <2>8. ~failed => current' = Bytes(Listed)'
    BY <2>1, <2>2, <2>4, <2>5, <2>6, <2>7
  <2>9. number' = Cardinality(Listed') /\ number' \in Nat /\ current' \in Int
    BY <1>10, <2>3, <2>4, <2>5, <2>6
  <2>10. QED  BY <1>1, <2>8, <2>9 DEF Counted
<1>14. TypeOK'
  BY <1>1, <1>3, <1>9, <1>12, <1>13 DEF TypeOK, Links
<1>15. Store'
  BY <1>1, <1>3, StoreSame
<1>16. Pending'
  <2>1. ASSUME NEW i \in 1 .. k
        PROVE  \A d \in cells : comp_int[d] # frames[i].el
    BY <1>2, <1>7 DEF Pending
  <2>2. QED  BY <1>1, <1>9, <2>1 DEF Pending
<1>17. Calls(frames)' => Given(Top)'
  <2>1. SUFFICES ASSUME frames' # <<>>
                 PROVE  Given(Top)'
    BY DEF Calls
  <2>2. PICK g \in Frame : g = Top' /\ Waits(g) /\ Asked(g) = n /\ g.check = c
    BY <1>9, <2>1
  <2>3. QED  BY <1>1, <1>4, <1>6, <2>2 DEF Given, Waits
<1>18. Making'
  BY <1>1, <1>9, <1>16, <1>17 DEF Making
<1>19. IInv'
  BY <1>12, <1>13, <1>14, <1>15, <1>18 DEF IInv
<1>20. QED  BY <1>4, <1>5, <1>6, <1>10, <1>11, <1>19

\* The next cell of the chains is given back when the book is closed.
LEMMA ClearStep ==
  ASSUME IInv, ClearItem
  PROVE  IInv'
<1>1. PICK a \in NonEmpty : a = Min(NonEmpty)
  <2>1. NonEmpty \in SUBSET Nat /\ NonEmpty # {}
    BY SizesAssumption DEF NonEmpty, ClearItem
  <2>2. QED  BY <2>1, MinIsLeast
<1>2. PICK c : c = Head(htable[a])
  OBVIOUS
<1>3. /\ state = "closing"
      /\ htable' = [htable EXCEPT ![a] = Tail(@)]
      /\ lilo' = Unlinked(lilo, c)
      /\ current' = current - Charge[comp_int[c]]
      /\ Freed(c)
      /\ UNCHANGED <<number, frames, state, failed>>
  BY <1>1, <1>2 DEF ClearItem
<1>4. TypeOK /\ Store /\ Chained /\ IsFiniteSet(cells) /\ Threaded /\ Counted
  BY DEF IInv, Store
<1>5. frames = <<>> /\ Listed = cells /\ Listed' = cells'
  BY <1>3, NoIncoming DEF IInv, Making, Calls
<1>6. a \in 0 .. HtableSize - 1 /\ htable[a] # <<>>
  BY DEF NonEmpty
<1>7. /\ htable \in [0 .. HtableSize - 1 -> Seq(Cells)]
      /\ \A b \in 0 .. HtableSize - 1 :
           /\ htable[b] \in Seq(Cells) /\ IsInjective(htable[b])
           /\ Range(htable[b]) = {d \in cells : Index(comp_int[d]) = b}
  BY <1>4 DEF TypeOK, Chained
<1>8. PICK t \in Seq(Cells) :
        /\ t = Tail(htable[a]) /\ IsInjective(t)
        /\ Range(t) = Range(htable[a]) \ {c} /\ c \in Range(htable[a])
  BY <1>2, <1>6, <1>7, TailList
<1>9. c \in cells /\ c \in Cells /\ Index(comp_int[c]) = a
  BY <1>4, <1>6, <1>7, <1>8 DEF TypeOK
<1>10. /\ htable' \in [0 .. HtableSize - 1 -> Seq(Cells)]
       /\ \A b \in 0 .. HtableSize - 1 :
            /\ IsInjective(htable'[b])
            /\ Range(htable'[b]) = Range(htable[b]) \ {c}
  <2>1. htable' = [htable EXCEPT ![a] = t]
    BY <1>3, <1>8
  <2>2. \A b \in 0 .. HtableSize - 1 : b # a => c \notin Range(htable[b])
    BY <1>7, <1>9
  <2>3. QED  BY <1>6, <1>7, <1>8, <2>1, <2>2
<1>11. /\ Store'
       /\ cells' = cells \ {c} /\ cells' \subseteq Cells
       /\ comp_int' \in [Cells -> Elements]
       /\ path' \in [Cells -> Seq(Elements)]
       /\ \A d \in cells \ {c} : comp_int'[d] = comp_int[d] /\ Takes'[d] = Takes[d]
  BY <1>3, <1>4, <1>9, <1>10, GoneStore
<1>12. Threaded' /\ lilo' \in Links
  <2>1. PICK q \in Lists : Range(q) = cells /\ Linked(lilo, q)
    BY <1>4, <1>5 DEF Threaded
  <2>2. lilo \in Links
    BY <1>4 DEF TypeOK, Links
  <2>3. QED  BY <1>3, <1>5, <1>9, <1>11, <2>1, <2>2, UnlinkedLinked DEF Threaded
<1>13. Counted' /\ current' \in Int
  <2>1. Bytes(Listed)' = Bytes(Listed) - Charge[comp_int[c]]
    BY <1>4, <1>5, <1>9, <1>11, BytesWithout DEF Bytes
  <2>2. Charge[comp_int[c]] \in Int /\ current \in Int
    <3>1. comp_int[c] \in Elements
      BY <1>4, <1>9 DEF TypeOK
    <3>2. QED  BY <1>4, <3>1, SizesAssumption DEF TypeOK
  <2>3. ~failed => current' = Bytes(Listed)'
    BY <1>3, <1>4, <2>1 DEF Counted
  <2>4. QED  BY <1>3, <2>2, <2>3 DEF Counted
<1>14. TypeOK'
  BY <1>3, <1>4, <1>10, <1>11, <1>12, <1>13 DEF TypeOK, Links
<1>15. Making'
  BY <1>3, <1>5 DEF Making
<1>16. QED  BY <1>11, <1>12, <1>13, <1>14, <1>15 DEF IInv

\* The empty cache that init_hash_lilo makes.
LEMMA InitIInv == Init => IInv
<1> SUFFICES ASSUME Init
             PROVE  IInv
  OBVIOUS
<1>1. Listed = {} /\ cells = {} /\ ~Calls(frames)
  BY DEF Init, Listed, Incoming, Calls
<1>2. 0 \in Elements /\ <<>> \in Seq(Elements) /\ <<>> \in Seq(Cells) /\ <<>> \in Seq(Frame)
  BY BookAssumption
<1>3. TypeOK
  <2>1. lilo \in [first : Cells \cup {NULL}, last : Cells \cup {NULL},
                  next : [Cells -> Cells \cup {NULL}],
                  prev : [Cells -> Cells \cup {NULL}]]
    BY DEF Init
  <2>2. comp_int \in [Cells -> Elements] /\ path \in [Cells -> Seq(Elements)]
    BY <1>2 DEF Init
  <2>3. htable \in [0 .. HtableSize - 1 -> Seq(Cells)] /\ frames \in Seq(Frame)
    BY <1>2 DEF Init
  <2>4. cells \subseteq Cells /\ current \in Int /\ number \in Nat
    BY DEF Init
  <2>5. state \in {"open", "closing", "closed", "overrun"} /\ failed \in BOOLEAN
    BY DEF Init
  <2>6. QED  BY <2>1, <2>2, <2>3, <2>4, <2>5 DEF TypeOK
<1>4. IsInjective(<<>>) /\ Range(<<>>) = {} /\ Len(<<>>) = 0
  BY DEF IsInjective, Range
<1>5. Store
  BY <1>1, <1>4, FS_EmptySet DEF Init, Store, Chained, PathsRight
<1>6. Threaded
  <2>1. <<>> \in Lists
    BY <1>2, <1>4 DEF Lists
  <2>2. Linked(lilo, <<>>)
    BY <1>4 DEF Init, Linked
  <2>3. QED  BY <1>1, <1>4, <2>1, <2>2 DEF Threaded
<1>7. Counted
  <2>1. Bytes(Listed) = 0
    BY <1>1, SumEmpty DEF Bytes
  <2>2. QED  BY <1>1, <2>1, FS_EmptySet DEF Init, Counted
<1>8. Making
  BY <1>1, <1>4 DEF Init, Making, Pile, Pending
<1>9. QED  BY <1>3, <1>5, <1>6, <1>7, <1>8 DEF IInv

\* Every step keeps the invariant.
LEMMA NextIInv == IInv /\ [Next]_vars => IInv'
<1> SUFFICES ASSUME IInv, [Next]_vars
             PROVE  IInv'
  OBVIOUS
<1>1. CASE get_next_sgml_obj \/ Up \/ Down
  BY <1>1, FetchStep
<1>2. CASE UpDone \/ AddGi
  BY <1>2, WalkStep
<1>3. CASE NewCell
  BY <1>3, NewCellStep
<1>4. CASE Evict
  BY <1>4, EvictStep
<1>5. CASE Insert
  BY <1>5, InsertStep
<1>6. CASE ClearItem
  BY <1>6, ClearStep
<1>7. CASE ReadFails \/ CellRefused \/ clear_hash_lilo \/ ClearDone \/ UNCHANGED vars
  BY <1>7, EndStep
<1>8. QED
  BY <1>1, <1>2, <1>3, <1>4, <1>5, <1>6, <1>7 DEF Next, get_hash_lilo_obj

(***************************************************************************)
(* The theorems                                                            *)
(***************************************************************************)
\* The strengthened invariant holds of every state the cache can be in.
THEOREM Invariance == Spec => []IInv
<1>1. Init => IInv
  BY InitIInv
<1>2. IInv /\ [Next]_vars => IInv'
  BY NextIInv
<1>3. QED  BY <1>1, <1>2, PTL DEF Spec

\* Every variable keeps to its type.
THEOREM TypeCorrect == Spec => []TypeOK
<1>1. IInv => TypeOK
  BY DEF IInv
<1>2. QED  BY <1>1, Invariance, PTL

\* The table and the list agree, whatever was wiped out and made in between: the
\* search of a chain finds every cell in use, and the list links each once.
THEOREM TableAndListAgree == Spec => []Consistent
<1>1. IInv => Consistent
  <2> SUFFICES ASSUME IInv
               PROVE  Consistent
    OBVIOUS
  <2>1. PICK q \in Lists : Range(q) = Listed /\ Linked(lilo, q)
    BY DEF IInv, Threaded
  <2>2. lilo \in Links
    BY DEF IInv, TypeOK, Links
  <2>3. /\ lilo.first = NULL <=> Listed = {}
        /\ lilo.last = NULL <=> Listed = {}
        /\ \A c \in Listed :
             /\ lilo.prev[c] = NULL <=> c = lilo.first
             /\ lilo.next[c] = NULL <=> c = lilo.last
             /\ lilo.next[c] # NULL =>
                  lilo.next[c] \in Listed /\ lilo.prev[lilo.next[c]] = c
             /\ lilo.prev[c] # NULL =>
                  lilo.prev[c] \in Listed /\ lilo.next[lilo.prev[c]] = c
    BY <2>1, <2>2, LinksAgree
  <2>4. QED  BY <2>3 DEF IInv, Store, Chained, Consistent
<1>2. QED  BY <1>1, Invariance, PTL

\* current and number are what the list holds.
THEOREM CountsRight == Spec => []Counted
<1>1. IInv => Counted
  BY DEF IInv
<1>2. QED  BY <1>1, Invariance, PTL

\* A cached object has its own path, however its ancestors were fetched.
THEOREM PathsAreRight == Spec => []PathsRight
<1>1. IInv => PathsRight
  BY DEF IInv, Store
<1>2. QED  BY <1>1, Invariance, PTL

\* The ancestor that make_element_path reads of is in the cache when it does:
\* the fetch of an ancestor put it in front, and nothing was wiped out since.
THEOREM AncestorsInScope == Spec => []InScope
<1>1. IInv => InScope
  <2> SUFFICES ASSUME IInv, Calls(frames), Top.check # NULL,
                      Top.phase \in {"up", "gi"}
               PROVE  /\ Top.check \in Listed
                      /\ Top.phase = "up" => comp_int[Top.check] = Top.num
    BY DEF InScope
  <2>1. state = "open"
    BY DEF IInv, TypeOK, Making, Calls
  <2>2. Top \in Frame /\ Climbs(Top) /\ Given(Top)
    BY <2>1, TopIs
  <2>3. Waits(Top)
    BY <2>2 DEF Waits, Given, Climbs
  <2>4. Listed = cells
    BY NoIncoming
  <2>5. QED  BY <2>2, <2>3, <2>4 DEF Given, Asked
<1>2. QED  BY <1>1, Invariance, PTL

(***************************************************************************)
(* Refinement: the cache does what LruCache promises.  Each of its steps   *)
(* is a step of LruCache on the sequence of the elements, in order of use, *)
(* or changes none of what LruCache knows.  And it keeps to its capacity.  *)
(***************************************************************************)
\* The elements of the cells of q.
Names(q, ci) == [k \in DOMAIN q |-> ci[q[k]]]

(***************************************************************************)
(* The list as a sequence                                                  *)
(***************************************************************************)
\* A list without repetitions is as long as its set of cells is large.
LEMMA ListLength ==
  ASSUME NEW q \in Lists
  PROVE  IsFiniteSet(Range(q)) /\ Cardinality(Range(q)) = Len(q)
<1>1. PICK n \in Nat : n = Len(q)
  BY DEF Lists
<1>2. DOMAIN q = 1 .. n /\ q \in Seq(Cells) /\ IsInjective(q)
  BY <1>1 DEF Lists
<1>3. q \in Bijection(1 .. n, Range(q))
  <2>1. q \in [1 .. n -> Range(q)]
    BY <1>2 DEF Range
  <2>2. \A c \in Range(q) : \E k \in 1 .. n : q[k] = c
    BY <1>2 DEF Range
  <2>3. QED  BY <1>2, <2>1, <2>2 DEF Bijection, Injection, Surjection
<1>4. ExistsBijection(1 .. n, Range(q))
  BY <1>3 DEF ExistsBijection
<1>5. QED  BY <1>1, <1>4, FS_CountingElements, FS_NatBijection

\* The cells from first along the links, n of them.
Walk(l, n) ==
  LET at[k \in 1 .. n] == IF k = 1 THEN l.first ELSE l.next[at[k - 1]]
  IN at

\* That is the list.
LEMMA WalkIs ==
  ASSUME NEW l, NEW q \in Lists, Linked(l, q), NEW n \in Nat, n = Len(q)
  PROVE  Walk(l, n) = q
<1> DEFINE All(f) == f = [k \in 1 .. n |-> IF k = 1 THEN l.first ELSE l.next[f[k - 1]]]
<1>1. DOMAIN q = 1 .. n /\ q \in Seq(Cells) /\ q = [k \in 1 .. n |-> q[k]]
  BY DEF Lists
<1>2. ASSUME NEW k \in 1 .. n
      PROVE  q[k] = IF k = 1 THEN l.first ELSE l.next[q[k - 1]]
  <2>1. q # <<>>
    BY <1>1
  <2>2. k # 1 => k - 1 \in 1 .. n /\ k - 1 # n /\ (k - 1) + 1 = k
    OBVIOUS
  <2>3. QED  BY <2>1, <2>2 DEF Linked
<1>3. All(q)
  BY <1>1, <1>2
<1> DEFINE h == CHOOSE f : All(f)
<1>4. All(h)
  BY <1>3
<1>5. DOMAIN h = 1 .. n /\ h = [k \in 1 .. n |-> h[k]]
      /\ \A k \in 1 .. n : h[k] = IF k = 1 THEN l.first ELSE l.next[h[k - 1]]
  BY <1>4
<1> HIDE DEF h
<1> DEFINE W == {k \in 1 .. n : h[k] # q[k]}
<1>6. W = {}
  <2>1. SUFFICES ASSUME W # {}
                 PROVE  FALSE
    OBVIOUS
  <2>2. PICK k \in W : \A j \in W : k <= j
    <3>1. W \in SUBSET Nat
      OBVIOUS
    <3> HIDE DEF W
    <3>2. QED  BY <2>1, <3>1, MinIsLeast
  <2>3. k \in 1 .. n /\ h[k] # q[k]
    OBVIOUS
  <2>4. k # 1
    BY <1>2, <1>5, <2>3
  <2>5. k - 1 \in 1 .. n /\ ~(k <= k - 1)
    BY <2>3, <2>4
  <2>6. h[k - 1] = q[k - 1]
    BY <2>2, <2>5
  <2>7. h[k] = l.next[h[k - 1]]
    BY <1>5, <2>3, <2>4
  <2>8. q[k] = l.next[q[k - 1]]
    BY <1>2, <2>3, <2>4
  <2>9. QED  BY <2>3, <2>6, <2>7, <2>8
<1>7. h = q
  <2>1. \A k \in 1 .. n : h[k] = q[k]
    BY <1>6
  <2> HIDE DEF W
  <2>2. QED  BY <1>1, <1>5, <2>1
<1>8. Walk(l, n) = h
  BY DEF Walk, h
<1>9. QED  BY <1>7, <1>8

\* Order and InOrder are what they are meant to be, before and after a step.
LEMMA OrderIs ==
  ASSUME NEW q \in Lists
  PROVE  /\ Range(q) = Listed /\ Linked(lilo, q) =>
              Order = q /\ InOrder = Names(q, comp_int)
         /\ Range(q) = Listed' /\ Linked(lilo', q) =>
              Order' = q /\ InOrder' = Names(q, comp_int')
<1>1. PICK n \in Nat : n = Len(q) /\ n = Cardinality(Range(q))
  BY ListLength DEF Lists
<1>2. ASSUME Range(q) = Listed, Linked(lilo, q)
      PROVE  Order = q /\ InOrder = Names(q, comp_int)
  <2>1. Walk(lilo, n) = q
    BY <1>1, <1>2, WalkIs
  <2>2. Order = Walk(lilo, n)
    BY <1>1, <1>2 DEF Order, Walk
  <2>3. QED  BY <2>1, <2>2 DEF InOrder, Names
<1>3. ASSUME Range(q) = Listed', Linked(lilo', q)
      PROVE  Order' = q /\ InOrder' = Names(q, comp_int')
  <2>1. Walk(lilo', n) = q
    BY <1>1, <1>3, WalkIs
  <2>2. Order' = Walk(lilo', n)
    BY <1>1, <1>3 DEF Order, Walk
  <2>3. QED  BY <2>1, <2>2 DEF InOrder, Names
<1>4. QED  BY <1>2, <1>3

(***************************************************************************)
(* The elements of a list                                                  *)
(***************************************************************************)
LEMMA NamesShape ==
  ASSUME NEW q \in Seq(Cells), NEW ci \in [Cells -> Elements]
  PROVE  /\ Names(q, ci) \in Seq(Elements)
         /\ Len(Names(q, ci)) = Len(q)
         /\ \A k \in 1 .. Len(q) : Names(q, ci)[k] = ci[q[k]]
         /\ Range(Names(q, ci)) = {ci[c] : c \in Range(q)}
         /\ Names(q, ci) = <<>> <=> q = <<>>
<1>1. PICK n \in Nat : n = Len(q) /\ DOMAIN q = 1 .. n
  OBVIOUS
<1> DEFINE s == Names(q, ci)
<1>2. s = [k \in 1 .. n |-> ci[q[k]]]
  BY <1>1 DEF Names
<1>3. \A k \in 1 .. n : ci[q[k]] \in Elements
  BY <1>1
<1> HIDE DEF s
<1>4. s \in Seq(Elements) /\ Len(s) = n /\ DOMAIN s = 1 .. n
  BY <1>2, <1>3
<1>5. Range(s) = {ci[c] : c \in Range(q)}
  BY <1>1, <1>2, <1>4 DEF Range
<1>6. s = <<>> <=> q = <<>>
  BY <1>1, <1>4, EmptySeq
<1>7. QED  BY <1>1, <1>2, <1>4, <1>5, <1>6 DEF s

\* Another naming that agrees on the cells of the list.
LEMMA NamesSame ==
  ASSUME NEW q \in Seq(Cells), NEW ci, NEW cj, \A c \in Range(q) : cj[c] = ci[c]
  PROVE  Names(q, cj) = Names(q, ci)
BY DEF Names, Range

\* The names of a list with a cell put at its head.
LEMMA NamesCons ==
  ASSUME NEW q \in Seq(Cells), NEW c \in Cells, NEW ci \in [Cells -> Elements]
  PROVE  Names(Cons(c, q), ci) = Cons(ci[c], Names(q, ci))
<1> DEFINE t == Cons(c, q)
           s == Names(q, ci)
           u == Names(t, ci)
           v == Cons(ci[c], s)
<1>1. PICK n \in Nat : n = Len(q)
  OBVIOUS
<1>2. t \in Seq(Cells) /\ Len(t) = n + 1
      /\ \A k \in 1 .. n + 1 : t[k] = IF k = 1 THEN c ELSE q[k - 1]
  <2>1. t \in Seq(Cells) /\ Len(t) = Len(q) + 1
        /\ \A k \in 1 .. Len(q) + 1 : t[k] = IF k = 1 THEN c ELSE q[k - 1]
    <3>1. q \in Seq(Cells) /\ c \in Cells
      OBVIOUS
    <3>2. QED  BY ONLY <3>1, ConsShape DEF t
  <2> HIDE DEF t
  <2>2. QED  BY <1>1, <2>1
<1> HIDE DEF t
<1>3. s \in Seq(Elements) /\ Len(s) = n /\ \A k \in 1 .. n : s[k] = ci[q[k]]
  BY <1>1, NamesShape
<1>4. u \in Seq(Elements) /\ Len(u) = n + 1 /\ \A k \in 1 .. n + 1 : u[k] = ci[t[k]]
  BY <1>2, NamesShape
<1> HIDE DEF s, u
<1>5. v \in Seq(Elements) /\ Len(v) = n + 1
      /\ \A k \in 1 .. n + 1 : v[k] = IF k = 1 THEN ci[c] ELSE s[k - 1]
  <2>1. ci[c] \in Elements
    OBVIOUS
  <2>2. /\ v \in Seq(Elements) /\ Len(v) = Len(s) + 1
        /\ \A k \in 1 .. Len(s) + 1 : v[k] = IF k = 1 THEN ci[c] ELSE s[k - 1]
    <3>1. s \in Seq(Elements)
      BY <1>3
    <3>2. QED  BY ONLY <2>1, <3>1, ConsShape DEF v
  <2> HIDE DEF v
  <2>3. QED  BY <1>3, <2>2
<1> HIDE DEF v
<1>6. ASSUME NEW k \in 1 .. n + 1
      PROVE  u[k] = v[k]
  <2>1. CASE k = 1
    BY <1>2, <1>4, <1>5, <2>1
  <2>2. CASE k # 1
    <3>1. k - 1 \in 1 .. n
      BY <2>2
    <3>2. u[k] = ci[q[k - 1]]
      BY <1>2, <1>4, <2>2
    <3>3. v[k] = s[k - 1]
      BY <1>5, <2>2
    <3>4. QED  BY <1>3, <3>1, <3>2, <3>3
  <2>3. QED  BY <2>1, <2>2
<1>7. u = v
  BY <1>4, <1>5, <1>6, SeqEqual
<1>8. QED  BY <1>7 DEF s, t, u, v

\* The names of a list from which a cell is taken: its name is taken, as no two
\* cells have the same.
LEMMA NamesRemoved ==
  ASSUME NEW q \in Lists, NEW c \in Range(q), NEW ci \in [Cells -> Elements],
         \A d, e \in Range(q) : ci[d] = ci[e] => d = e
  PROVE  Names(RemoveFirst(q, c), ci) = RemoveFirst(Names(q, ci), ci[c])
<1>1. PICK n \in Nat : n = Len(q)
  BY DEF Lists
<1>2. DOMAIN q = 1 .. n /\ q \in Seq(Cells) /\ IsInjective(q)
  BY <1>1 DEF Lists
<1>3. PICK p \in 1 .. n : q[p] = c
  BY <1>2 DEF Range
<1> DEFINE s == Names(q, ci)
           t == RemoveFirst(q, c)
           u == Names(t, ci)
           v == RemoveFirst(s, ci[c])
<1>4. s \in Seq(Elements) /\ Len(s) = n /\ \A k \in 1 .. n : s[k] = ci[q[k]]
  BY <1>1, <1>2, NamesShape
<1>5. t \in Seq(Cells) /\ Len(t) = n - 1
      /\ \A k \in 1 .. n - 1 : t[k] = IF k < p THEN q[k] ELSE q[k + 1]
  <2>1. t = RemoveAt(q, p)
    BY <1>1, <1>2, <1>3, RemoveFirstIs
  <2> HIDE DEF t
  <2>2. QED  BY <1>1, <1>2, <2>1, RemoveAtShape, ZenonT(40)
<1> HIDE DEF s, t
<1>6. IsInjective(s) /\ s[p] = ci[c]
  <2>1. \A k \in 1 .. n : q[k] \in Range(q)
    BY <1>2 DEF Range
  <2>2. \A j, k \in 1 .. n : s[j] = s[k] => j = k
    BY <1>2, <1>4, <2>1 DEF IsInjective
  <2>3. DOMAIN s = 1 .. n
    BY <1>4
  <2>4. QED  BY <1>3, <1>4, <2>2, <2>3 DEF IsInjective
<1>7. v \in Seq(Elements) /\ Len(v) = n - 1
      /\ \A k \in 1 .. n - 1 : v[k] = IF k < p THEN s[k] ELSE s[k + 1]
  <2>1. v = RemoveAt(s, p)
    BY <1>4, <1>6, RemoveFirstIs
  <2> HIDE DEF v
  <2>2. p \in 1 .. Len(s)
    BY <1>4
  <2>3. /\ v \in Seq(Elements) /\ Len(v) = Len(s) - 1
        /\ \A k \in 1 .. Len(s) - 1 : v[k] = IF k < p THEN s[k] ELSE s[k + 1]
    <3>1. s \in Seq(Elements)
      BY <1>4
    <3>2. QED  BY ONLY <2>1, <2>2, <3>1, RemoveAtShape
  <2>4. QED  BY <1>4, <2>3
<1>8. u \in Seq(Elements) /\ Len(u) = n - 1 /\ \A k \in 1 .. n - 1 : u[k] = ci[t[k]]
  <2>1. u \in Seq(Elements) /\ Len(u) = Len(t)
        /\ \A k \in 1 .. Len(t) : u[k] = ci[t[k]]
    BY <1>5, NamesShape
  <2> HIDE DEF u
  <2>2. QED  BY <1>5, <2>1
<1> HIDE DEF u, v
<1>9. ASSUME NEW k \in 1 .. n - 1
      PROVE  u[k] = v[k]
  <2>1. k \in 1 .. n /\ k + 1 \in 1 .. n
    OBVIOUS
  <2>2. QED  BY <1>4, <1>5, <1>7, <1>8, <2>1
<1>10. u = v
  <2>1. PICK m \in Nat : m = n - 1
    BY <1>3
  <2>2. QED  BY <1>7, <1>8, <1>9, <2>1, SeqEqual
<1>11. QED  BY <1>10 DEF s, t, u, v

\* The operators that LruCache takes from the community modules are the same.
LEMMA SameOperators ==
  ASSUME NEW s, NEW e, NEW w, NEW S
  PROVE  /\ Promise!Cons(e, s) = Cons(e, s)
         /\ Promise!Front(s) = Front(s)
         /\ Promise!Range(s) = Range(s)
         /\ Promise!RemoveFirst(s, e) = RemoveFirst(s, e)
         /\ Promise!SumFunctionOnSet(w, S) = SumFunctionOnSet(w, S)
<1>1. Promise!Cons(e, s) = Cons(e, s)
  BY DEF Promise!Cons, Cons
<1>2. Promise!Front(s) = Front(s)
  BY DEF Promise!Front, Front
<1>3. Promise!Range(s) = Range(s)
  BY DEF Promise!Range, Range
<1>4. Promise!RemoveFirst(s, e) = RemoveFirst(s, e)
  BY DEF Promise!RemoveFirst, RemoveFirst, Promise!SelectInSeq, SelectInSeq,
         Promise!RemoveAt, RemoveAt, Promise!Min, Min
<1>5. Promise!SumFunctionOnSet(w, S) = SumFunctionOnSet(w, S)
  BY DEF Promise!SumFunctionOnSet, SumFunctionOnSet,
         Promise!FoldFunctionOnSet, FoldFunctionOnSet,
         Promise!MapThenFoldSet, MapThenFoldSet
<1>6. QED  BY <1>1, <1>2, <1>3, <1>4, <1>5

\* Without its last cell.
LEMMA NamesFront ==
  ASSUME NEW q \in Lists, q # <<>>, NEW ci \in [Cells -> Elements],
         \A d, e \in Range(q) : ci[d] = ci[e] => d = e
  PROVE  Names(RemoveFirst(q, q[Len(q)]), ci) = Front(Names(q, ci))
<1>1. PICK n \in Nat : n = Len(q) /\ n >= 1
  <2>1. Len(q) \in Nat \ {0}
    BY EmptySeq DEF Lists
  <2>2. QED  BY <2>1
<1>2. DOMAIN q = 1 .. n /\ q \in Seq(Cells) /\ IsInjective(q)
  BY <1>1 DEF Lists
<1> DEFINE s == Names(q, ci)
           t == RemoveAt(q, n)
           u == Names(t, ci)
<1>3. s \in Seq(Elements) /\ Len(s) = n /\ \A k \in 1 .. n : s[k] = ci[q[k]]
  BY <1>1, <1>2, NamesShape
<1>4. t \in Seq(Cells) /\ Len(t) = n - 1 /\ \A k \in 1 .. n - 1 : t[k] = q[k]
  <2>1. n \in 1 .. Len(q)
    BY <1>1
  <2>2. /\ t \in Seq(Cells) /\ Len(t) = Len(q) - 1
        /\ \A k \in 1 .. Len(q) - 1 : t[k] = IF k < n THEN q[k] ELSE q[k + 1]
    BY <1>2, <2>1, RemoveAtShape
  <2> HIDE DEF t
  <2>3. QED  BY <1>1, <2>2
<1> HIDE DEF s, t
<1>5. u \in Seq(Elements) /\ Len(u) = n - 1 /\ \A k \in 1 .. n - 1 : u[k] = ci[t[k]]
  <2>1. u \in Seq(Elements) /\ Len(u) = Len(t)
        /\ \A k \in 1 .. Len(t) : u[k] = ci[t[k]]
    BY <1>4, NamesShape
  <2> HIDE DEF u
  <2>2. QED  BY <1>4, <2>1
<1> HIDE DEF u
<1>6. IsInjective(s) /\ s # <<>>
  <2>1. \A k \in 1 .. n : q[k] \in Range(q)
    BY <1>2 DEF Range
  <2>2. \A j, k \in 1 .. n : s[j] = s[k] => j = k
    BY <1>2, <1>3, <2>1 DEF IsInjective
  <2>3. DOMAIN s = 1 .. n
    BY <1>3
  <2>4. QED  BY <1>1, <1>3, <2>2, <2>3 DEF IsInjective
<1>7. /\ Front(s) \in Seq(Elements)
      /\ Len(Front(s)) = n - 1
      /\ \A k \in 1 .. n - 1 : Front(s)[k] = s[k]
  BY <1>3, <1>6, FrontList
<1>8. u = Front(s)
  <2>1. \A k \in 1 .. n - 1 : k \in 1 .. n
    OBVIOUS
  <2>2. \A k \in 1 .. n - 1 : u[k] = Front(s)[k]
    BY <1>3, <1>4, <1>5, <1>7, <2>1
  <2>3. PICK m \in Nat : m = n - 1
    BY <1>1
  <2>4. QED  BY <1>5, <1>7, <2>2, <2>3, SeqEqual
<1>9. RemoveFirst(q, q[Len(q)]) = t
  BY <1>1, <1>2, RemoveFirstIs DEF t
<1>10. QED  BY <1>8, <1>9 DEF s, u

(***************************************************************************)
(* The elements in order of use, before and after a step                   *)
(***************************************************************************)
\* InOrder, what it holds and what it takes.
LEMMA InOrderIs ==
  ASSUME IInv, NEW q \in Lists, Range(q) = Listed, Linked(lilo, q)
  PROVE  /\ InOrder = Names(q, comp_int) /\ InOrder \in Seq(Elements)
         /\ Range(InOrder) = {comp_int[c] : c \in Listed}
         /\ InOrder = <<>> <=> q = <<>>
         /\ Promise!Bytes(InOrder) = Bytes(Listed)
<1>1. q \in Seq(Cells) /\ comp_int \in [Cells -> Elements]
  BY DEF Lists, IInv, TypeOK
<1>2. InOrder = Names(q, comp_int)
  BY OrderIs
<1>3. /\ InOrder \in Seq(Elements)
      /\ Range(InOrder) = {comp_int[c] : c \in Listed}
      /\ InOrder = <<>> <=> q = <<>>
  BY <1>1, <1>2, NamesShape
<1>4. Listed \subseteq cells /\ cells \subseteq Cells /\ IsFiniteSet(Listed)
  BY FS_Subset DEF Listed, IInv, TypeOK, Store
<1>5. SumFunctionOnSet(Charge, {comp_int[c] : c \in Listed})
        = SumFunctionOnSet(Takes, Listed)
  <2>1. \A c \in Listed : Takes[c] \in Nat /\ Charge[comp_int[c]] = Takes[c]
    BY <1>4, TakesNat DEF IInv
  <2>2. \A c, d \in Listed : comp_int[c] = comp_int[d] => c = d
    BY <1>4 DEF IInv, Store, Chained
  <2>3. QED  BY <1>4, <2>1, <2>2, SumReindexed
<1>6. Promise!Bytes(InOrder) = Bytes(Listed)
  BY <1>3, <1>5, SameOperators DEF Promise!Bytes, Bytes
<1>7. QED  BY <1>2, <1>3, <1>6

\* No two cells have the same element.
LEMMA Distinct ==
  ASSUME IInv
  PROVE  /\ \A c, d \in Listed : comp_int[c] = comp_int[d] => c = d
         /\ comp_int \in [Cells -> Elements] /\ lilo \in Links
         /\ Listed \subseteq Cells
BY DEF IInv, TypeOK, Links, Store, Chained, Listed

\* A step that leaves the list alone.
LEMMA InOrderSame ==
  ASSUME IInv, lilo' = lilo, Listed' = Listed,
         \A c \in Listed : comp_int'[c] = comp_int[c]
  PROVE  InOrder' = InOrder
<1>1. PICK q \in Lists : Range(q) = Listed /\ Linked(lilo, q)
  BY DEF IInv, Threaded
<1>2. InOrder = Names(q, comp_int) /\ InOrder' = Names(q, comp_int')
  BY <1>1, OrderIs
<1>3. QED  BY <1>1, <1>2, NamesSame DEF Lists

\* A cell of the list is put in front.
LEMMA InOrderFound ==
  ASSUME IInv, Listed = cells, Listed' = cells, comp_int' = comp_int,
         NEW c \in cells, lilo' = AtFront(Unlinked(lilo, c), c)
  PROVE  /\ comp_int[c] \in Range(InOrder)
         /\ InOrder' = Cons(comp_int[c], RemoveFirst(InOrder, comp_int[c]))
<1>1. PICK q \in Lists : Range(q) = cells /\ Linked(lilo, q)
  BY DEF IInv, Threaded
<1>2. lilo \in Links /\ c \in Cells /\ comp_int \in [Cells -> Elements]
      /\ \A d, e \in cells : comp_int[d] = comp_int[e] => d = e
  BY Distinct
<1> DEFINE t == RemoveFirst(q, c)
           m == Unlinked(lilo, c)
<1>3. m \in Links /\ Linked(m, t) /\ t \in Lists /\ Range(t) = cells \ {c}
  BY <1>1, <1>2, UnlinkedLinked
<1>4. Names(t, comp_int) = RemoveFirst(Names(q, comp_int), comp_int[c])
  BY <1>1, <1>2, NamesRemoved
<1>5. lilo' = AtFront(m, c)
  OBVIOUS
<1> HIDE DEF t, m
<1>6. /\ Linked(AtFront(m, c), Cons(c, t))
      /\ Cons(c, t) \in Lists
      /\ Range(Cons(c, t)) = (cells \ {c}) \cup {c}
  BY <1>2, <1>3, AtFrontLinked
<1>7. (cells \ {c}) \cup {c} = Listed'
  OBVIOUS
<1>8. InOrder' = Names(Cons(c, t), comp_int)
  BY <1>5, <1>6, <1>7, OrderIs
<1>9. Names(Cons(c, t), comp_int) = Cons(comp_int[c], Names(t, comp_int))
  BY <1>2, <1>3, NamesCons DEF Lists
<1>10. InOrder = Names(q, comp_int) /\ comp_int[c] \in Range(InOrder)
  BY <1>1, InOrderIs
<1>11. QED  BY <1>4, <1>8, <1>9, <1>10

\* A cell is taken out of the list.
LEMMA InOrderUnlinked ==
  ASSUME IInv, NEW c \in Listed, Listed' = Listed \ {c}, lilo' = Unlinked(lilo, c),
         \A d \in Listed \ {c} : comp_int'[d] = comp_int[d]
  PROVE  /\ comp_int[c] \in Range(InOrder)
         /\ InOrder' = RemoveFirst(InOrder, comp_int[c])
         /\ c = lilo.last => InOrder # <<>> /\ InOrder' = Front(InOrder)
<1>1. PICK q \in Lists : Range(q) = Listed /\ Linked(lilo, q)
  BY DEF IInv, Threaded
<1>2. lilo \in Links /\ comp_int \in [Cells -> Elements]
      /\ \A d, e \in Listed : comp_int[d] = comp_int[e] => d = e
  BY Distinct
<1> DEFINE t == RemoveFirst(q, c)
<1>3. Linked(Unlinked(lilo, c), t) /\ t \in Lists /\ Range(t) = Listed \ {c}
  BY <1>1, <1>2, UnlinkedLinked
<1>4. Names(t, comp_int) = RemoveFirst(Names(q, comp_int), comp_int[c])
  BY <1>1, <1>2, NamesRemoved
<1>5. /\ InOrder = Names(q, comp_int) /\ comp_int[c] \in Range(InOrder)
      /\ InOrder = <<>> <=> q = <<>>
  BY <1>1, InOrderIs
<1>6. c = lilo.last => q # <<>> /\ Names(t, comp_int) = Front(Names(q, comp_int))
  <2>1. SUFFICES ASSUME c = lilo.last
                 PROVE  q # <<>> /\ Names(t, comp_int) = Front(Names(q, comp_int))
    OBVIOUS
  <2>2. q # <<>>
    BY <1>1 DEF Range
  <2>3. c = q[Len(q)]
    BY <1>1, <2>1, <2>2 DEF Linked
  <2>4. QED  BY <1>1, <1>2, <2>2, <2>3, NamesFront
<1> HIDE DEF t
<1>7. InOrder' = Names(t, comp_int')
  BY <1>3, OrderIs
<1>8. Names(t, comp_int') = Names(t, comp_int)
  BY <1>3, NamesSame DEF Lists
<1>9. QED  BY <1>4, <1>5, <1>6, <1>7, <1>8

\* A cell that was on no list is put in front.
LEMMA InOrderInserted ==
  ASSUME IInv, NEW c \in Cells, c \notin Listed, Listed' = Listed \cup {c},
         comp_int' = comp_int, lilo' = AtFront(lilo, c)
  PROVE  InOrder' = Cons(comp_int[c], InOrder)
<1>1. PICK q \in Lists : Range(q) = Listed /\ Linked(lilo, q)
  BY DEF IInv, Threaded
<1>2. lilo \in Links /\ comp_int \in [Cells -> Elements]
  BY Distinct
<1>3. /\ Linked(AtFront(lilo, c), Cons(c, q))
      /\ Cons(c, q) \in Lists
      /\ Range(Cons(c, q)) = Listed \cup {c}
  BY <1>1, <1>2, AtFrontLinked
<1>4. InOrder' = Names(Cons(c, q), comp_int)
  BY <1>3, OrderIs
<1>5. Names(Cons(c, q), comp_int) = Cons(comp_int[c], Names(q, comp_int))
  BY <1>2, NamesCons DEF Lists
<1>6. InOrder = Names(q, comp_int)
  BY <1>1, OrderIs
<1>7. QED  BY <1>4, <1>5, <1>6

(***************************************************************************)
(* The steps                                                               *)
(***************************************************************************)
Wanted == IF Incoming = {} THEN -1 ELSE Top.el
Open == state \in {"open", "overrun"}

\* A step that LruCache knows nothing of.
LEMMA Stutters ==
  ASSUME InOrder' = InOrder, Wanted' = Wanted, UNCHANGED <<failed, state>>
  PROVE  UNCHANGED Promise!vars
BY DEF Promise!vars, Wanted

\* A fetch of an element that is there is Touch.
LEMMA FetchRefines ==
  ASSUME IInv, get_next_sgml_obj \/ Up \/ Down
  PROVE  [Promise!Next]_(Promise!vars)
<1>1. Incoming = {} /\ Incoming' = {} /\ \E n \in Elements : \E fs : Get(n, fs)
  BY FetchStep
<1>2a. PICK n \in Elements : \E fs : Get(n, fs)
  BY <1>1
<1>2. PICK fs : Get(n, fs)
  BY <1>2a
<1>3. state = "open"
  BY DEF get_next_sgml_obj, Up, Down
<1>4. /\ UNCHANGED <<cells, comp_int, state, failed>>
      /\ lilo' = IF Lookup(n) = NULL \/ Lookup(n) = lilo.first THEN lilo
                 ELSE AtFront(Unlinked(lilo, Lookup(n)), Lookup(n))
  BY <1>2 DEF Get
<1>5. Listed = cells /\ Listed' = cells
  BY <1>1, <1>4 DEF Listed
<1>6. CASE lilo' = lilo
  <2>1. InOrder' = InOrder
    BY <1>4, <1>5, <1>6, InOrderSame
  <2>2. QED  BY <1>1, <1>4, <2>1, Stutters DEF Wanted
<1>7. CASE lilo' # lilo
  <2>1. PICK c \in cells : c = Lookup(n)
    BY <1>4, <1>7, LookupFinds DEF IInv, Store
  <2>2. lilo' = AtFront(Unlinked(lilo, c), c)
    BY <1>4, <1>7, <2>1
  <2>3. /\ comp_int[c] \in Range(InOrder)
        /\ InOrder' = Cons(comp_int[c], RemoveFirst(InOrder, comp_int[c]))
    BY <1>4, <1>5, <2>2, InOrderFound
  <2>4. comp_int[c] \in Elements
    BY DEF IInv, TypeOK
  <2>5. Promise!Touch(comp_int[c])
    BY <1>1, <1>4, <2>3, SameOperators DEF Promise!Touch
  <2>6. QED  BY <1>3, <2>4, <2>5 DEF Promise!Next
<1>8. QED  BY <1>6, <1>7

\* What make_element_path does between two fetches concerns it alone; a call that
\* fails loses nothing but, perhaps, the count.
LEMMA WalkRefines ==
  ASSUME IInv,
         UpDone \/ AddGi \/ ReadFails \/ CellRefused \/ clear_hash_lilo \/ ClearDone
  PROVE  [Promise!Next]_(Promise!vars)
<1>1. /\ lilo' = lilo /\ comp_int' = comp_int /\ cells' = cells
      /\ Incoming = {} /\ Incoming' = {}
  <2>1. CASE UpDone \/ AddGi
    BY <2>1, WalkStep DEF UpDone, AddGi
  <2>2. CASE ReadFails \/ CellRefused
    BY <2>2 DEF ReadFails, CellRefused, Incoming, Calls
  <2>3. CASE clear_hash_lilo \/ ClearDone
    BY <2>3 DEF clear_hash_lilo, ClearDone, IInv, Making, Incoming, Calls
  <2>4. QED  BY <2>1, <2>2, <2>3
<1>2. InOrder' = InOrder
  BY <1>1, InOrderSame DEF Listed
<1>3. CASE UpDone \/ AddGi
  <2>1. UNCHANGED failed /\ Open /\ Open'
    BY <1>3 DEF UpDone, AddGi, Open
  <2>2. QED  BY <1>1, <1>2, <2>1 DEF Promise!vars, Open
<1>4. CASE ReadFails
  <2>1. UNCHANGED <<failed, state>>
    BY <1>4 DEF ReadFails
  <2>2. QED  BY <1>1, <1>2, <2>1, Stutters DEF Wanted
<1>5. CASE CellRefused
  <2>1. state = "open" /\ UNCHANGED state /\ failed' = TRUE
    BY <1>5 DEF CellRefused
  <2>2. Promise!Lose
    BY <1>1, <1>2, <2>1 DEF Promise!Lose
  <2>3. QED  BY <2>1, <2>2 DEF Promise!Next
<1>6. CASE clear_hash_lilo
  <2>1. state = "open" /\ state' = "closing" /\ UNCHANGED failed
    BY <1>6 DEF clear_hash_lilo
  <2>2. Promise!Close
    BY <1>1, <1>2, <2>1 DEF Promise!Close, Promise!Nobody
  <2>3. QED  BY <2>1, <2>2 DEF Promise!Next
<1>7. CASE ClearDone
  <2>1. UNCHANGED failed /\ ~Open /\ ~Open'
    BY <1>7 DEF ClearDone, Open
  <2>2. QED  BY <1>1, <1>2, <2>1 DEF Promise!vars, Open
<1>8. QED  BY <1>3, <1>4, <1>5, <1>6, <1>7

\* The cell that the new object gets is Want.
LEMMA NewCellRefines ==
  ASSUME IInv, NewCell
  PROVE  [Promise!Next]_(Promise!vars)
<1>1. /\ Incoming = {} /\ Incoming' # {} /\ Top'.el = Top.el
      /\ Listed = cells /\ Listed' = cells /\ Top.el \in Elements
      /\ \A d \in cells : comp_int'[d] = comp_int[d] /\ comp_int[d] # Top.el
  BY NewCellStep
<1>2. state = "open" /\ UNCHANGED <<lilo, state, failed>>
  BY DEF NewCell
<1>3. InOrder' = InOrder
  BY <1>1, <1>2, InOrderSame
<1>4. PICK q \in Lists : Range(q) = Listed /\ Linked(lilo, q)
  BY DEF IInv, Threaded
<1>5. Range(InOrder) = {comp_int[c] : c \in Listed}
  BY <1>4, InOrderIs
<1>6. Top.el \notin Promise!Range(InOrder)
  BY <1>1, <1>5, SameOperators
<1>7. Promise!Want(Top.el)
  BY <1>1, <1>2, <1>3, <1>6 DEF Promise!Want, Promise!Nobody
<1>8. QED  BY <1>1, <1>2, <1>7 DEF Promise!Next

\* A turn of the wipe-out loop is Drop.
LEMMA EvictRefines ==
  ASSUME IInv, Evict
  PROVE  /\ [Promise!Next]_(Promise!vars)
         /\ \E c \in Listed :
              /\ Listed' = Listed \ {c}
              /\ \A d \in Listed \ {c} : comp_int'[d] = comp_int[d]
<1>1. PICK c : c = lilo.last
  OBVIOUS
<1>2. /\ state = "open" /\ Calls(frames) /\ Top.phase = "room"
      /\ c # NULL /\ lilo' = WithoutLast(lilo)
      /\ current + Charge[Top.el] > Capacity
      /\ Freed(c) /\ UNCHANGED <<frames, state, failed>>
  BY <1>1 DEF Evict, NoRoom
<1>3. Top \in Frame /\ Given(Top)
  BY <1>2, TopIs
<1>4. PICK q \in Lists : Range(q) = Listed /\ Linked(lilo, q)
  BY DEF IInv, Threaded
<1>5. lilo \in Links
  BY Distinct
<1>6. c \in Listed /\ lilo' = Unlinked(lilo, c)
  <2>1. q # <<>>
    BY <1>1, <1>2, <1>4 DEF Linked
  <2>2. QED  BY <1>1, <1>2, <1>4, <1>5, <2>1, WithoutLastLinked
<1>7. Incoming = {Top.check} /\ Incoming' = Incoming /\ Top' = Top
  BY <1>2 DEF Incoming, Calls, Top
<1>8. Listed' = Listed \ {c} /\ \A d \in Listed \ {c} : comp_int'[d] = comp_int[d]
  <2>1. Listed \subseteq Cells /\ comp_int \in [Cells -> Elements]
    BY Distinct
  <2>2. QED  BY <1>2, <1>7, <2>1 DEF Listed, Freed
<1>9. InOrder # <<>> /\ InOrder' = Front(InOrder)
  BY <1>1, <1>6, <1>8, InOrderUnlinked
<1>10. ~failed => ~Promise!Fits(Top.el)
  <2>1. SUFFICES ASSUME ~failed
                 PROVE  ~Promise!Fits(Top.el)
    OBVIOUS
  <2>2. PICK b : b = Promise!Bytes(InOrder)
    OBVIOUS
  <2>3. b = current /\ current \in Int
    <3>1. Promise!Bytes(InOrder) = Bytes(Listed)
      BY <1>4, InOrderIs
    <3>2. QED  BY <2>1, <2>2, <3>1 DEF IInv, Counted, TypeOK
  <2>4. Charge[Top.el] \in Int /\ Capacity \in Int
    <3>1. Top.el \in Elements
      BY <1>3 DEF Frame
    <3>2. QED  BY <3>1, SizesAssumption
  <2>5. ~(b + Charge[Top.el] <= Capacity)
    BY <1>2, <2>3, <2>4
  <2>6. QED  BY <2>2, <2>5 DEF Promise!Fits
<1>11. Top.el # Promise!Nobody
  <2>1. Top.el \in Nat
    BY <1>3, AncestorOfElement DEF Frame
  <2>2. QED  BY <2>1 DEF Promise!Nobody
<1>12. Promise!Drop
  BY <1>2, <1>7, <1>9, <1>10, <1>11, SameOperators DEF Promise!Drop
<1>13. QED  BY <1>2, <1>6, <1>8, <1>12 DEF Promise!Next

\* The cell that goes in front is Add.
LEMMA InsertRefines ==
  ASSUME IInv, Insert
  PROVE  [Promise!Next]_(Promise!vars)
<1>1. /\ Incoming = {Top.check} /\ Incoming' = {}
      /\ Top.check \in Cells \ Listed /\ comp_int[Top.check] = Top.el
      /\ Listed' = Listed \cup {Top.check} /\ Top.el \in Elements
  BY InsertStep
<1>2. /\ state = "open" /\ UNCHANGED <<comp_int, state, failed>>
      /\ lilo' = AtFront(lilo, Top.check)
      /\ ~NoRoom(Top)
  BY DEF Insert, HasRoom
<1>3. InOrder' = Cons(Top.el, InOrder)
  BY <1>1, <1>2, InOrderInserted
<1>4. PICK q \in Lists : Range(q) = Listed /\ Linked(lilo, q)
  BY DEF IInv, Threaded
<1>5. Top.el # Promise!Nobody
  <2>1. Top.el \in Nat
    BY <1>1, AncestorOfElement
  <2>2. QED  BY <2>1 DEF Promise!Nobody
<1>6. ~failed => Promise!Fits(Top.el) \/ InOrder = <<>>
  <2>1. SUFFICES ASSUME ~failed, InOrder # <<>>
                 PROVE  Promise!Fits(Top.el)
    OBVIOUS
  <2>2. PICK b : b = Promise!Bytes(InOrder)
    OBVIOUS
  <2>3. b = current /\ current \in Int
    <3>1. Promise!Bytes(InOrder) = Bytes(Listed)
      BY <1>4, InOrderIs
    <3>2. QED  BY <2>1, <2>2, <3>1 DEF IInv, Counted, TypeOK
  <2>4. Charge[Top.el] \in Int /\ Capacity \in Int
    BY <1>1, SizesAssumption
  <2>5. lilo.last # NULL
    <3>1. q # <<>>
      BY <1>4, <2>1, InOrderIs
    <3>2. lilo.last \in Range(q)
      BY <1>4, <3>1, Distinct, WithoutLastLinked
    <3>3. QED  BY <1>4, <3>2, Distinct, CellsAssumption
  <2>6. b + Charge[Top.el] <= Capacity
    BY <1>2, <2>3, <2>4, <2>5 DEF NoRoom
  <2>7. QED  BY <2>2, <2>6 DEF Promise!Fits
<1>7. Promise!Add
  BY <1>1, <1>2, <1>3, <1>5, <1>6, SameOperators DEF Promise!Add, Promise!Nobody
<1>8. QED  BY <1>2, <1>7 DEF Promise!Next

\* An item that is given back when the book is closed is Clear.
LEMMA ClearRefines ==
  ASSUME IInv, ClearItem
  PROVE  /\ [Promise!Next]_(Promise!vars)
         /\ \E c \in Listed :
              /\ Listed' = Listed \ {c}
              /\ \A d \in Listed \ {c} : comp_int'[d] = comp_int[d]
<1>1. PICK a \in NonEmpty : a = Min(NonEmpty)
  <2>1. NonEmpty \in SUBSET Nat /\ NonEmpty # {}
    BY SizesAssumption DEF NonEmpty, ClearItem
  <2>2. QED  BY <2>1, MinIsLeast
<1>2. PICK c : c = Head(htable[a])
  OBVIOUS
<1>3. /\ state = "closing" /\ lilo' = Unlinked(lilo, c)
      /\ Freed(c) /\ UNCHANGED <<frames, state, failed>>
  BY <1>1, <1>2 DEF ClearItem
<1>4. frames = <<>> /\ Incoming = {} /\ Incoming' = {}
  BY <1>3, NoIncoming DEF IInv, Making, Calls
<1>5. c \in cells
  <2>1. a \in 0 .. HtableSize - 1 /\ htable[a] # <<>>
    BY DEF NonEmpty
  <2>2. /\ htable[a] \in Seq(Cells) /\ IsInjective(htable[a])
        /\ Range(htable[a]) \subseteq cells
    BY <2>1 DEF IInv, TypeOK, Store, Chained
  <2>3. QED  BY <1>2, <2>1, <2>2, TailList
<1>6. /\ c \in Listed /\ Listed' = Listed \ {c}
      /\ \A d \in Listed \ {c} : comp_int'[d] = comp_int[d]
  <2>1. Listed \subseteq Cells /\ comp_int \in [Cells -> Elements]
    BY Distinct
  <2>2. QED  BY <1>3, <1>4, <1>5, <2>1 DEF Listed, Freed
<1>7. /\ comp_int[c] \in Range(InOrder)
      /\ InOrder' = RemoveFirst(InOrder, comp_int[c])
  BY <1>3, <1>6, InOrderUnlinked
<1>8. Promise!Clear
  <2>1. comp_int[c] \in Promise!Range(InOrder)
    BY <1>7, SameOperators
  <2>2. InOrder' = Promise!RemoveFirst(InOrder, comp_int[c])
    BY <1>7, SameOperators
  <2>3. ~(state \in {"open", "overrun"})
    BY <1>3
  <2>4. QED  BY <1>3, <1>4, <2>1, <2>2, <2>3 DEF Promise!Clear
<1>9. QED  BY <1>6, <1>8 DEF Promise!Next

\* Every step of the cache is one of LruCache, or changes nothing it knows.
LEMMA NextRefines == IInv /\ [Next]_vars => [Promise!Next]_(Promise!vars)
<1> SUFFICES ASSUME IInv, [Next]_vars
             PROVE  [Promise!Next]_(Promise!vars)
  OBVIOUS
<1>1. CASE get_next_sgml_obj \/ Up \/ Down
  BY <1>1, FetchRefines
<1>2. CASE UpDone \/ AddGi \/ ReadFails \/ CellRefused \/ clear_hash_lilo \/ ClearDone
  BY <1>2, WalkRefines
<1>3. CASE NewCell
  BY <1>3, NewCellRefines
<1>4. CASE Evict
  BY <1>4, EvictRefines
<1>5. CASE Insert
  BY <1>5, InsertRefines
<1>6. CASE ClearItem
  BY <1>6, ClearRefines
<1>7. CASE UNCHANGED vars
  <2>1. Incoming' = Incoming /\ Top' = Top /\ Listed' = Listed
    BY <1>7 DEF vars, Incoming, Calls, Top, Listed
  <2>2. InOrder' = InOrder
    BY <1>7, <2>1, InOrderSame DEF vars
  <2>3. QED  BY <1>7, <2>1, <2>2, Stutters DEF vars, Wanted
<1>8. QED
  BY <1>1, <1>2, <1>3, <1>4, <1>5, <1>6, <1>7 DEF Next, get_hash_lilo_obj

\* The empty cache is LruCache's.
LEMMA InitRefines == Init => Promise!Init
<1> SUFFICES ASSUME Init
             PROVE  Promise!Init
  OBVIOUS
<1>1. IInv /\ Listed = {} /\ Incoming = {}
  BY InitIInv DEF Init, Listed, Incoming, Calls
<1>2. PICK q \in Lists : Range(q) = Listed /\ Linked(lilo, q)
  BY <1>1 DEF IInv, Threaded
<1>3. q = <<>>
  <2>1. Len(q) = 0
    BY <1>1, <1>2, ListLength, FS_EmptySet
  <2>2. QED  BY <2>1, EmptySeq DEF Lists
<1>4. InOrder = <<>>
  BY <1>1, <1>2, <1>3, InOrderIs
<1>5. QED  BY <1>1, <1>4 DEF Init, Promise!Init, Promise!Nobody

\* The cache keeps the elements used last, in order of use, wipes out none but
\* to make room for one that is not there, and then the one not used for longest.
THEOREM Refinement == Spec => KeepsPromise
<1>1. Init => Promise!Init
  BY InitRefines
<1>2. IInv /\ [Next]_vars => [Promise!Next]_(Promise!vars)
  BY NextRefines
<1>3. QED  BY <1>1, <1>2, Invariance, PTL DEF Spec, KeepsPromise, Promise!Spec

(***************************************************************************)
(* The capacity                                                            *)
(***************************************************************************)
\* The steps that put nothing on the list and take nothing off.
LEMMA ListedSame ==
  ASSUME IInv,
         \/ get_next_sgml_obj \/ Up \/ Down \/ UpDone \/ AddGi \/ NewCell
         \/ ReadFails \/ CellRefused \/ clear_hash_lilo \/ ClearDone
         \/ UNCHANGED vars
  PROVE  /\ Listed' = Listed
         /\ \A c \in Listed : comp_int'[c] = comp_int[c]
         /\ failed' = failed \/ failed'
<1>1. CASE get_next_sgml_obj \/ Up \/ Down
  <2>1. Incoming = {} /\ Incoming' = {} /\ \E n \in Elements : \E fs : Get(n, fs)
    BY <1>1, FetchStep
  <2>2a. PICK n \in Elements : \E fs : Get(n, fs)
    BY <2>1
  <2>2. PICK fs : Get(n, fs)
    BY <2>2a
  <2>3. QED  BY <2>1, <2>2 DEF Get, Listed
<1>2. CASE UpDone \/ AddGi
  BY <1>2, WalkStep DEF UpDone, AddGi, Listed
<1>3. CASE NewCell
  BY <1>3, NewCellStep DEF NewCell
<1>4. CASE ReadFails \/ CellRefused
  BY <1>4 DEF ReadFails, CellRefused, Incoming, Calls, Listed
<1>5. CASE clear_hash_lilo \/ ClearDone \/ UNCHANGED vars
  BY <1>5 DEF clear_hash_lilo, ClearDone, vars, Incoming, Calls, Listed, Top
<1>6. QED  BY <1>1, <1>2, <1>3, <1>4, <1>5

\* Whatever the cache does, it takes no more than its capacity, but for an
\* element too large for it on its own.
LEMMA BoundedStep == IInv /\ Bounded /\ [Next]_vars => Bounded'
<1> SUFFICES ASSUME IInv, Bounded, [Next]_vars, ~failed'
             PROVE  WithinCapacity'
  BY DEF Bounded
<1>1. IInv'
  BY NextIInv
<1>2. /\ TypeOK /\ IsFiniteSet(cells) /\ IsFiniteSet(Listed)
      /\ Listed \subseteq cells /\ Listed \subseteq Cells
      /\ Cardinality(Listed) \in Nat
  BY FS_Subset, FS_CardinalityType, Distinct DEF IInv, Store, Listed
<1>3. Bytes(Listed) \in Nat /\ \A c \in Listed : Takes[c] \in Nat
  BY <1>2, TakesNat, SumNat DEF Bytes
<1>4. CASE \/ get_next_sgml_obj \/ Up \/ Down \/ UpDone \/ AddGi \/ NewCell
           \/ ReadFails \/ CellRefused \/ clear_hash_lilo \/ ClearDone
           \/ UNCHANGED vars
  <2>1. /\ Listed' = Listed
        /\ \A c \in Listed : comp_int'[c] = comp_int[c]
        /\ ~failed
    BY <1>4, ListedSame
  <2>2. SumFunctionOnSet(Takes', Listed) = SumFunctionOnSet(Takes, Listed)
    <3>1. \A c \in Listed : Takes'[c] = Takes[c]
      BY <1>2, <2>1 DEF Takes
    <3>2. QED  BY <1>2, <1>3, <3>1, SumSame
  <2>3. WithinCapacity
    BY <2>1 DEF Bounded
  <2>4. QED  BY <2>1, <2>2, <2>3 DEF WithinCapacity, Bytes
<1>5. CASE Evict \/ ClearItem
  <2>1. PICK c \in Listed :
          /\ Listed' = Listed \ {c}
          /\ \A d \in Listed \ {c} : comp_int'[d] = comp_int[d]
    BY <1>5, EvictRefines, ClearRefines
  <2>2. ~failed
    BY <1>5 DEF Evict, ClearItem
  <2>3. SumFunctionOnSet(Takes, Listed)
          = Takes[c] + SumFunctionOnSet(Takes, Listed \ {c})
    BY <1>2, <1>3, SumWithout
  <2>4. /\ SumFunctionOnSet(Takes', Listed \ {c})
             = SumFunctionOnSet(Takes, Listed \ {c})
        /\ SumFunctionOnSet(Takes, Listed \ {c}) \in Nat
    <3>1. \A d \in Listed \ {c} : Takes[d] \in Nat /\ Takes'[d] = Takes[d]
      BY <1>2, <1>3, <2>1 DEF Takes
    <3>2. IsFiniteSet(Listed \ {c})
      BY <1>2, FS_Subset
    <3>3. QED  BY <3>1, <3>2, SumSame, SumNat
  <2>5. Cardinality(Listed \ {c}) = Cardinality(Listed) - 1
    BY <1>2, FS_RemoveElement
  <2>6. Bytes(Listed)' <= Bytes(Listed) /\ Cardinality(Listed') <= Cardinality(Listed)
    <3>1. \A a, b, d \in Nat : d = a + b => b <= d
      OBVIOUS
    <3>2. Bytes(Listed)' <= Bytes(Listed)
      BY <1>3, <2>1, <2>3, <2>4, <3>1 DEF Bytes
    <3>3. QED  BY <1>2, <2>1, <2>5, <3>2
  <2>7. /\ Bytes(Listed)' \in Nat /\ Capacity \in Nat /\ Cardinality(Listed') \in Nat
    <3>1. Bytes(Listed)' \in Nat
      BY <2>1, <2>4 DEF Bytes
    <3>2. Cardinality(Listed') \in Nat
      <4>1. IsFiniteSet(Listed \ {c})
        BY <1>2, FS_Subset
      <4>2. QED  BY <2>1, <4>1, FS_CardinalityType
    <3>3. QED  BY <3>1, <3>2, SizesAssumption
  <2>8. Bytes(Listed) <= Capacity \/ Cardinality(Listed) <= 1
    BY <2>2 DEF Bounded, WithinCapacity
  <2>9. Bytes(Listed)' <= Capacity \/ Cardinality(Listed') <= 1
    BY <1>2, <1>3, <2>6, <2>7, <2>8
  <2>10. QED  BY <2>9 DEF WithinCapacity
<1>6. CASE Insert
  <2>1. /\ Listed' = Listed \cup {Top.check} /\ comp_int[Top.check] = Top.el
        /\ Top.el \in Elements /\ Top.check \notin Listed
    BY <1>6, InsertStep
  <2>2. /\ current' = current + Charge[Top.el] /\ ~NoRoom(Top) /\ ~failed
    BY <1>6, <2>1 DEF Insert, HasRoom, CountIn
  <2>3. current' = Bytes(Listed)'
    BY <1>1 DEF IInv, Counted
  <2>4. CASE lilo.last = NULL
    <3>1. PICK q \in Lists : Range(q) = Listed /\ Linked(lilo, q)
      BY DEF IInv, Threaded
    <3>2. Listed = {}
      BY <2>4, <3>1, Distinct, LinksAgree
    <3>3. Cardinality(Listed') = 1
      <4>1. Listed' = {Top.check}
        BY <2>1, <3>2
      <4>2. Cardinality({Top.check}) = 1
        BY FS_Singleton
      <4>3. QED  BY <4>1, <4>2
    <3>4. QED  BY <3>3 DEF WithinCapacity
  <2>5. CASE lilo.last # NULL
    <3>1. current \in Int /\ Charge[Top.el] \in Int /\ Capacity \in Int
      BY <1>2, <2>1, SizesAssumption DEF TypeOK
    <3>2. current + Charge[Top.el] <= Capacity
      BY <2>2, <2>5, <3>1 DEF NoRoom
    <3>3. QED  BY <2>2, <2>3, <3>2 DEF WithinCapacity
  <2>6. QED  BY <2>4, <2>5
<1>7. QED  BY <1>4, <1>5, <1>6 DEF Next, get_hash_lilo_obj

\* The cache keeps to its capacity, as long as no cell was refused.
THEOREM KeepsToCapacity == Spec => []Bounded
<1>1. Init => Bounded
  <2>1. Init => Listed = {}
    BY DEF Init, Listed
  <2>2. Listed = {} => Cardinality(Listed) <= 1
    BY FS_EmptySet
  <2>3. QED  BY <2>1, <2>2 DEF Bounded, WithinCapacity
<1>2. IInv /\ Bounded /\ [Next]_vars => Bounded'
  BY BoundedStep
<1>3. QED  BY <1>1, <1>2, Invariance, PTL DEF Spec
=============================================================================
