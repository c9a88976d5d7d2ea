-------------------------- MODULE CollectionLemmas --------------------------
(***************************************************************************)
(* Facts about finite lists without repetitions (the chains of             *)
(* src/ana_memory.c and src/ana_utils.c), about least elements, about the  *)
(* sum of a weight over a finite set (the bytes of cached objects, of      *)
(* blocks), about the paths of the elements of a book, and about recursive *)
(* functions: one whose argument has a rank that every step makes less     *)
(* has a value, and that value satisfies its equation.                     *)
(***************************************************************************)
EXTENDS Integers, SequencesExt, FiniteSetTheorems, SequenceTheorems,
        WellFoundedInduction, NaturalsInduction, TLAPS

\* A set of natural numbers has a least element, and Min is it.
LEMMA MinIsLeast ==
  ASSUME NEW T \in SUBSET Nat, T # {}
  PROVE  Min(T) \in T /\ \A y \in T : Min(T) <= y
<1> DEFINE Less == {r \in Nat \X Nat : r[1] < r[2]}
<1>1. PICK x \in T : \A y \in T : <<y, x>> \notin Less
  BY NatLessThanWellFounded, WFMin DEF OpToRel
<1>2. ASSUME NEW y \in T
      PROVE  x <= y
  <2>1. ~(y < x)
    <3>1. <<y, x>> \in Nat \X Nat /\ <<y, x>>[1] = y /\ <<y, x>>[2] = x
      OBVIOUS
    <3>2. <<y, x>> \notin Less
      BY <1>1
    <3>3. QED  BY <3>1, <3>2
  <2>2. QED  BY <2>1
<1>3. QED  BY <1>2 DEF Min

\* RemoveAt, as SequencesExt defines it with SubSeq, shifts the rest down.
LEMMA RemoveAtShape ==
  ASSUME NEW S, NEW q \in Seq(S), NEW p \in 1 .. Len(q)
  PROVE  /\ RemoveAt(q, p) \in Seq(S)
         /\ Len(RemoveAt(q, p)) = Len(q) - 1
         /\ \A k \in 1 .. Len(q) - 1 :
              RemoveAt(q, p)[k] = IF k < p THEN q[k] ELSE q[k + 1]
<1> DEFINE l == SubSeq(q, 1, p - 1)
           r == SubSeq(q, p + 1, Len(q))
<1>1. /\ l \in Seq(S)
      /\ Len(l) = p - 1
      /\ \A k \in 1 .. p - 1 : l[k] = q[k]
  BY SMT
<1>2. /\ r \in Seq(S)
      /\ Len(r) = Len(q) - p
      /\ \A k \in 1 .. Len(q) - p : r[k] = q[p + k]
  BY SMT
<1>3. RemoveAt(q, p) = l \o r
  BY DEF RemoveAt
<1> HIDE DEF l, r
<1>4. /\ l \o r \in Seq(S)
      /\ Len(l \o r) = Len(l) + Len(r)
      /\ \A k \in 1 .. Len(l) + Len(r) :
           (l \o r)[k] = IF k <= Len(l) THEN l[k] ELSE r[k - Len(l)]
  BY <1>1, <1>2, ConcatProperties
<1>5. Len(q) \in Nat
  OBVIOUS
<1>6. ASSUME NEW k \in 1 .. Len(q) - 1
      PROVE  (l \o r)[k] = IF k < p THEN q[k] ELSE q[k + 1]
  <2>1. CASE k < p
    BY <1>1, <1>2, <1>4, <1>5, <2>1, SMT
  <2>2. CASE k >= p
    <3>1. k - (p - 1) \in 1 .. Len(q) - p /\ p + (k - (p - 1)) = k + 1
      BY <1>5, <2>2
    <3>2. (l \o r)[k] = r[k - (p - 1)]
      BY <1>1, <1>2, <1>4, <1>5, <2>2, SMT
    <3>3. QED  BY <1>2, <2>2, <3>1, <3>2
  <2>3. k < p \/ k >= p
    BY <1>5
  <2>4. QED  BY <2>1, <2>2, <2>3
<1>7. QED  BY <1>1, <1>2, <1>3, <1>4, <1>5, <1>6, SMT

\* RemoveFirst takes out the entry where x is; if x is there once, that one.
LEMMA RemoveFirstIs ==
  ASSUME NEW S, NEW q \in Seq(S), IsInjective(q), NEW p \in 1 .. Len(q)
  PROVE  RemoveFirst(q, q[p]) = RemoveAt(q, p)
<1>1. \A k \in 1 .. Len(q) : q[k] = q[p] => k = p
  BY DEF IsInjective
<1>2. SelectInSeq(q, LAMBDA v : v = q[p]) = p
  <2>1. {k \in 1 .. Len(q) : q[k] = q[p]} = {p}
    BY <1>1
  <2>2. Min({p}) = p
    BY DEF Min
  <2>3. QED  BY <2>1, <2>2 DEF SelectInSeq
<1>3. QED  BY <1>2 DEF RemoveFirst

\* Taking x out of a list without repetitions takes out x and nothing else.
LEMMA RemoveFirstList ==
  ASSUME NEW S, NEW q \in Seq(S), IsInjective(q), NEW x \in Range(q)
  PROVE  /\ RemoveFirst(q, x) \in Seq(S)
         /\ IsInjective(RemoveFirst(q, x))
         /\ Range(RemoveFirst(q, x)) = Range(q) \ {x}
<1>1. PICK p \in 1 .. Len(q) : q[p] = x
  BY DEF Range
<1>2. \A k \in 1 .. Len(q) : q[k] = x => k = p
  BY <1>1 DEF IsInjective
<1>4. RemoveFirst(q, x) = RemoveAt(q, p)
  BY <1>1, RemoveFirstIs
<1> DEFINE t == RemoveAt(q, p)
<1>5. /\ t \in Seq(S)
      /\ Len(t) = Len(q) - 1
      /\ \A k \in 1 .. Len(q) - 1 : t[k] = IF k < p THEN q[k] ELSE q[k + 1]
  BY <1>1, RemoveAtShape
<1> HIDE DEF t
<1>6. IsInjective(t)
  <2>1. SUFFICES ASSUME NEW a \in 1 .. Len(q) - 1, NEW b \in 1 .. Len(q) - 1,
                        t[a] = t[b]
                 PROVE  a = b
    BY <1>5 DEF IsInjective
  <2>2. DOMAIN q = 1 .. Len(q) /\ Len(q) \in Nat
    OBVIOUS
  <2>3. \A k, m \in 1 .. Len(q) : q[k] = q[m] => k = m
    BY <2>2 DEF IsInjective
  <2>4. QED  BY <1>5, <2>1, <2>2, <2>3, SMTT(20)
<1>7. Range(t) \subseteq Range(q) \ {x}
  BY <1>1, <1>2, <1>5 DEF Range
<1>8. ASSUME NEW y \in Range(q) \ {x}
      PROVE  y \in Range(t)
  <2>1. PICK k \in 1 .. Len(q) : q[k] = y
    BY DEF Range
  <2>2. k # p
    BY <1>1, <2>1
  <2>3. CASE k < p
    BY <1>5, <2>1, <2>3, SMTT(20) DEF Range
  <2>4. CASE k > p
    <3>1. k - 1 \in 1 .. Len(q) - 1 /\ ~(k - 1 < p) /\ (k - 1) + 1 = k
      BY <2>4
    <3>2. t[k - 1] = y /\ k - 1 \in DOMAIN t
      BY <1>5, <2>1, <3>1
    <3>3. QED  BY <3>2 DEF Range
  <2>5. QED  BY <2>2, <2>3, <2>4
<1>9. QED  BY <1>4, <1>5, <1>6, <1>7, <1>8 DEF t

\* A new element at the head of a list.
LEMMA ConsShape ==
  ASSUME NEW S, NEW q \in Seq(S), NEW x \in S
  PROVE  /\ Cons(x, q) \in Seq(S)
         /\ Len(Cons(x, q)) = Len(q) + 1
         /\ \A k \in 1 .. Len(q) + 1 :
              Cons(x, q)[k] = IF k = 1 THEN x ELSE q[k - 1]
BY SMT DEF Cons

\* It is in the list, with all that were there, once.
LEMMA ConsList ==
  ASSUME NEW S, NEW q \in Seq(S), IsInjective(q), NEW x \in S, x \notin Range(q)
  PROVE  /\ Cons(x, q) \in Seq(S)
         /\ IsInjective(Cons(x, q))
         /\ Range(Cons(x, q)) = Range(q) \cup {x}
<1> DEFINE t == Cons(x, q)
<1>1. /\ t \in Seq(S)
      /\ Len(t) = Len(q) + 1
      /\ \A k \in 1 .. Len(q) + 1 : t[k] = IF k = 1 THEN x ELSE q[k - 1]
  BY ConsShape
<1> HIDE DEF t
<1>2. IsInjective(t)
  BY <1>1, SMTT(20) DEF IsInjective, Range
<1>3. Range(t) \subseteq Range(q) \cup {x}
  BY <1>1 DEF Range
<1>4. x \in Range(t)
  <2>1. 1 \in DOMAIN t /\ t[1] = x
    BY <1>1
  <2>2. QED  BY <2>1 DEF Range
<1>5. ASSUME NEW y \in Range(q)
      PROVE  y \in Range(t)
  <2>1. PICK k \in 1 .. Len(q) : q[k] = y
    BY DEF Range
  <2>2. k + 1 \in DOMAIN t /\ t[k + 1] = y
    BY <1>1, <2>1
  <2>3. QED  BY <2>2 DEF Range
<1>6. QED  BY <1>1, <1>2, <1>3, <1>4, <1>5 DEF t

\* Front takes out the last entry ...
LEMMA FrontShape ==
  ASSUME NEW S, NEW q \in Seq(S), q # <<>>
  PROVE  /\ Front(q) \in Seq(S)
         /\ Len(Front(q)) = Len(q) - 1
         /\ \A k \in 1 .. Len(q) - 1 : Front(q)[k] = q[k]
<1>1. PICK n \in Nat : n = Len(q) /\ n >= 1
  <2>1. Len(q) \in Nat \ {0}
    BY EmptySeq
  <2>2. \A m \in Nat \ {0} : m >= 1
    OBVIOUS
  <2>3. QED  BY <2>1, <2>2
<1> DEFINE t == Front(q)
<1>2. /\ t \in Seq(S)
      /\ Len(t) = n - 1
      /\ \A k \in 1 .. n - 1 : t[k] = q[k]
  <2>1. \A k \in 1 .. n - 1 : q[k] \in S
    BY <1>1
  <2>2. t = SubSeq(q, 1, n - 1)
    BY <1>1 DEF Front
  <2> HIDE DEF t
  <2>3. n - 1 \in Int /\ (n - 1) - 1 + 1 = n - 1 /\ (~(1 <= n - 1) => n - 1 = 0)
    BY <1>1
  <2>4. /\ t \in Seq(S)
        /\ Len(t) = IF 1 <= n - 1 THEN (n - 1) - 1 + 1 ELSE 0
        /\ \A k \in 1 .. (n - 1) - 1 + 1 : t[k] = q[1 + k - 1]
    BY <2>1, <2>2, <2>3, SubSeqProperties
  <2>5. Len(t) = n - 1
    BY <2>3, <2>4
  <2>6. ASSUME NEW k \in 1 .. n - 1
        PROVE  t[k] = q[k]
    <3>1. 1 + k - 1 = k
      OBVIOUS
    <3>2. QED  BY <2>3, <2>4, <3>1
  <2>7. QED  BY <2>4, <2>5, <2>6
<1>3. QED  BY <1>1, <1>2 DEF t

\* ... and nothing else.
LEMMA FrontList ==
  ASSUME NEW S, NEW q \in Seq(S), IsInjective(q), q # <<>>
  PROVE  /\ Front(q) \in Seq(S)
         /\ Len(Front(q)) = Len(q) - 1
         /\ \A k \in 1 .. Len(q) - 1 : Front(q)[k] = q[k]
         /\ IsInjective(Front(q))
         /\ Range(Front(q)) = Range(q) \ {q[Len(q)]}
<1>1. PICK n \in Nat : n = Len(q) /\ n >= 1
  <2>1. Len(q) \in Nat \ {0}
    BY EmptySeq
  <2>2. \A m \in Nat \ {0} : m >= 1
    OBVIOUS
  <2>3. QED  BY <2>1, <2>2
<1> DEFINE t == Front(q)
<1>2. /\ t \in Seq(S)
      /\ Len(t) = n - 1
      /\ \A k \in 1 .. n - 1 : t[k] = q[k]
  BY <1>1, FrontShape
<1> HIDE DEF t
<1>3. DOMAIN q = 1 .. n /\ DOMAIN t = 1 .. n - 1
  BY <1>1, <1>2
<1>4. IsInjective(t)
  BY <1>1, <1>2, <1>3 DEF IsInjective
<1>5. Range(t) \subseteq Range(q) \ {q[n]}
  BY <1>1, <1>2, <1>3 DEF Range, IsInjective
<1>6. Range(q) \ {q[n]} \subseteq Range(t)
  <2>1. SUFFICES ASSUME NEW y \in Range(q) \ {q[n]}
                 PROVE  y \in Range(t)
    OBVIOUS
  <2>2. PICK k \in 1 .. n : q[k] = y
    BY <1>3 DEF Range
  <2>3. k \in 1 .. n - 1
    BY <1>1, <2>1, <2>2
  <2>4. t[k] = y
    BY <1>2, <2>2, <2>3
  <2>5. QED  BY <1>3, <2>3, <2>4 DEF Range
<1>7. QED  BY <1>1, <1>2, <1>4, <1>5, <1>6 DEF t

\* A new element at the end of a list.
LEMMA AppendList ==
  ASSUME NEW S, NEW q \in Seq(S), IsInjective(q), NEW x \in S, x \notin Range(q)
  PROVE  /\ Append(q, x) \in Seq(S)
         /\ IsInjective(Append(q, x))
         /\ Range(Append(q, x)) = Range(q) \cup {x}
<1> DEFINE t == Append(q, x)
<1>1. PICK n \in Nat : n = Len(q)
  OBVIOUS
<1>2. /\ t \in Seq(S)
      /\ Len(t) = n + 1
      /\ \A k \in 1 .. n : t[k] = q[k]
      /\ t[n + 1] = x
  BY <1>1, AppendProperties
<1> HIDE DEF t
<1>3. DOMAIN q = 1 .. n /\ DOMAIN t = 1 .. n + 1
  BY <1>1, <1>2
<1>4. \A k \in 1 .. n : q[k] # x
  BY <1>3 DEF Range
<1>5. IsInjective(t)
  BY <1>2, <1>3, <1>4 DEF IsInjective
<1>6. Range(t) \subseteq Range(q) \cup {x}
  BY <1>2, <1>3 DEF Range
<1>7. Range(q) \subseteq Range(t)
  BY <1>2, <1>3 DEF Range
<1>8. x \in Range(t)
  <2>1. n + 1 \in DOMAIN t
    BY <1>3
  <2>2. QED  BY <1>2, <2>1 DEF Range
<1>9. QED  BY <1>2, <1>5, <1>6, <1>7, <1>8 DEF t

\* Tail takes out the first entry and nothing else.
LEMMA TailList ==
  ASSUME NEW S, NEW q \in Seq(S), IsInjective(q), q # <<>>
  PROVE  /\ Head(q) \in Range(q)
         /\ Tail(q) \in Seq(S)
         /\ IsInjective(Tail(q))
         /\ Range(Tail(q)) = Range(q) \ {Head(q)}
<1> DEFINE t == Tail(q)
           x == Head(q)
<1>1. PICK n \in Nat : n = Len(q) /\ n >= 1
  <2>1. Len(q) \in Nat \ {0}
    BY EmptySeq
  <2>2. \A m \in Nat \ {0} : m >= 1
    OBVIOUS
  <2>3. QED  BY <2>1, <2>2
<1>2. /\ t \in Seq(S)
      /\ Len(t) = n - 1
      /\ \A k \in 1 .. n - 1 : t[k] = q[k + 1]
      /\ x = q[1]
  <2>1. /\ t \in Seq(S)
        /\ Len(t) = Len(q) - 1
        /\ \A k \in 1 .. Len(t) : t[k] = q[k + 1]
    BY HeadTailProperties
  <2>2. x = q[1]
    OBVIOUS
  <2> HIDE DEF t, x
  <2>3. QED  BY <1>1, <2>1, <2>2
<1> HIDE DEF t, x
<1>3. DOMAIN q = 1 .. n /\ DOMAIN t = 1 .. n - 1
  BY <1>1, <1>2
<1>4. IsInjective(t)
  BY <1>1, <1>2, <1>3, SMTT(20) DEF IsInjective
<1>5. Range(t) \subseteq Range(q) \ {x}
  BY <1>1, <1>2, <1>3, SMTT(20) DEF Range, IsInjective
<1>6. ASSUME NEW y \in Range(q) \ {x}
      PROVE  y \in Range(t)
  <2>1. PICK k \in 1 .. n : q[k] = y
    BY <1>3 DEF Range
  <2>2. k - 1 \in 1 .. n - 1 /\ (k - 1) + 1 = k
    BY <1>1, <1>2, <1>6, <2>1
  <2>3. t[k - 1] = y
    BY <1>2, <2>1, <2>2
  <2>4. QED  BY <1>3, <2>2, <2>3 DEF Range
<1>7. x \in Range(q)
  BY <1>1, <1>2, <1>3 DEF Range
<1>8. QED  BY <1>2, <1>4, <1>5, <1>6, <1>7 DEF t, x

-----------------------------------------------------------------------------
(***************************************************************************)
(* SumFunctionOnSet: what it is for one more element, for another weight,  *)
(* and for another index set.  It is a fold, a recursive function on the   *)
(* subsets of a set; the induction is over those subsets, from one that is *)
(* minimal.                                                                *)
(***************************************************************************)
Chosen(T) == CHOOSE x \in T : TRUE

\* f has, for each subset of S, the sum of w over it.
Sums(f, w, S) ==
  f = [T \in SUBSET S |-> IF T = {} THEN 0 ELSE w[Chosen(T)] + f[T \ {Chosen(T)}]]

\* A set of subsets of a finite set has a minimal one.
LEMMA MinimalSubset ==
  ASSUME NEW S, IsFiniteSet(S), NEW W \in SUBSET (SUBSET S), W # {}
  PROVE  \E T \in W : \A U \in W : U \subseteq T => U = T
<1>1. IsWellFoundedOn(StrictSubsetOrdering(S), FiniteSubsetsOf(S))
  BY FS_StrictSubsetOrderingWellFounded
<1>2. W \subseteq FiniteSubsetsOf(S)
  BY FS_FiniteSubsetsOfFinite
<1>3. PICK T \in W : \A U \in W : <<U, T>> \notin StrictSubsetOrdering(S)
  BY <1>1, <1>2, WFMin
<1>4. ASSUME NEW U \in W, U \subseteq T, U # T
      PROVE  FALSE
  <2>1. <<U, T>> \in StrictSubsetOrdering(S)
    BY <1>4 DEF StrictSubsetOrdering
  <2>2. QED  BY <1>3, <2>1
<1>5. QED  BY <1>4

\* The element that the fold takes first is one of the set.
LEMMA AnyIsElement == ASSUME NEW T, T # {} PROVE Chosen(T) \in T
BY DEF Chosen

\* Two tables of sums agree where both have an entry.
LEMMA SumsAgree ==
  ASSUME NEW w, NEW S, NEW f, Sums(f, w, S), NEW R, NEW g, Sums(g, w, R),
         NEW T \in SUBSET S, T \in SUBSET R, IsFiniteSet(T)
  PROVE  f[T] = g[T]
<1> DEFINE W == {U \in SUBSET T : f[U] # g[U]}
<1>1. SUFFICES ASSUME W # {}
               PROVE  FALSE
  OBVIOUS
<1>2. PICK U \in W : \A V \in W : V \subseteq U => V = U
  <2>1. W \in SUBSET (SUBSET T)
    OBVIOUS
  <2> HIDE DEF W
  <2>2. QED  BY <1>1, <2>1, MinimalSubset
<1>3. U \in SUBSET S /\ U \in SUBSET R
  OBVIOUS
<1>4. CASE U = {}
  BY <1>2, <1>3, <1>4 DEF Sums
<1>5. CASE U # {}
  <2>1. Chosen(U) \in U
    BY <1>5, AnyIsElement
  <2>2. U \ {Chosen(U)} \notin W /\ U \ {Chosen(U)} \in SUBSET T
    BY <1>2, <2>1
  <2>3. f[U \ {Chosen(U)}] = g[U \ {Chosen(U)}]
    BY <2>2
  <2>4. f[U] = w[Chosen(U)] + f[U \ {Chosen(U)}]
    BY <1>3, <1>5 DEF Sums
  <2>5. g[U] = w[Chosen(U)] + g[U \ {Chosen(U)}]
    BY <1>3, <1>5 DEF Sums
  <2>6. QED  BY <2>3, <2>4, <2>5, <1>2
<1>6. QED  BY <1>4, <1>5

\* There is a table of sums for every finite set.
LEMMA SumsExist ==
  ASSUME NEW w, NEW S, IsFiniteSet(S)
  PROVE  \E f : Sums(f, w, S)
<1> DEFINE W == {T \in SUBSET S : ~ \E f : Sums(f, w, T)}
<1>1. SUFFICES ASSUME W # {}
               PROVE  FALSE
  OBVIOUS
<1>2. PICK T \in W : \A U \in W : U \subseteq T => U = T
  <2>1. W \in SUBSET (SUBSET S)
    OBVIOUS
  <2> HIDE DEF W
  <2>2. QED  BY <1>1, <2>1, MinimalSubset
<1> DEFINE best(U) == CHOOSE f : Sums(f, w, U)
           below == [U \in SUBSET T |-> best(U)[U]]
           f == [U \in SUBSET T |->
                   IF U = {} THEN 0 ELSE w[Chosen(U)] + below[U \ {Chosen(U)}]]
<1>3. ASSUME NEW U \in SUBSET T, U # T
      PROVE  Sums(best(U), w, U)
  <2>1. U \notin W
    BY <1>2, <1>3
  <2>2. \E g : Sums(g, w, U)
    BY <2>1
  <2>3. QED  BY <2>2
<1> HIDE DEF best
<1>4. ASSUME NEW U \in SUBSET T, U # T
      PROVE  f[U] = below[U]
  <2>1. CASE U = {}
    <3>1. best(U)[U] = 0
      BY <1>3, <1>4, <2>1 DEF Sums
    <3>2. QED  BY <2>1, <3>1
  <2>2. CASE U # {}
    <3> DEFINE x == Chosen(U)
               V == U \ {x}
    <3>1. x \in U
      BY <2>2, AnyIsElement
    <3>2. best(U)[U] = w[x] + best(U)[V]
      BY <1>3, <1>4, <2>2 DEF Sums
    <3>3. V \in SUBSET T /\ V # T /\ V \in SUBSET U /\ V \in SUBSET V
      BY <3>1
    <3>4. Sums(best(V), w, V) /\ Sums(best(U), w, U)
      BY <1>3, <1>4, <3>3
    <3>5. IsFiniteSet(V)
      BY FS_Subset
    <3>6. best(U)[V] = best(V)[V]
      BY <3>3, <3>4, <3>5, SumsAgree
    <3>7. QED  BY <2>2, <3>2, <3>3, <3>6
  <2>3. QED  BY <2>1, <2>2
<1>5. Sums(f, w, T)
  <2>1. ASSUME NEW U \in SUBSET T, U # {}
        PROVE  f[U] = w[Chosen(U)] + f[U \ {Chosen(U)}]
    <3>1. Chosen(U) \in U
      BY <2>1, AnyIsElement
    <3>2. U \ {Chosen(U)} \in SUBSET T /\ U \ {Chosen(U)} # T
      BY <3>1
    <3>3. f[U \ {Chosen(U)}] = below[U \ {Chosen(U)}]
      BY <1>4, <3>2
    <3>4. QED  BY <2>1, <3>3
  <2>2. \A U \in SUBSET T :
          f[U] = IF U = {} THEN 0 ELSE w[Chosen(U)] + f[U \ {Chosen(U)}]
    BY <2>1
  <2>3. f = [U \in SUBSET T |->
               IF U = {} THEN 0 ELSE w[Chosen(U)] + f[U \ {Chosen(U)}]]
    BY <2>2
  <2>4. QED  BY <2>3 DEF Sums
<1>6. QED  BY <1>2, <1>5

\* SumFunctionOnSet is the entry of any such table.
LEMMA SumIs ==
  ASSUME NEW w, NEW S, IsFiniteSet(S), NEW f, NEW R, Sums(f, w, R), S \subseteq R
  PROVE  SumFunctionOnSet(w, S) = f[S]
<1>1. SumFunctionOnSet(w, S) = (CHOOSE g : Sums(g, w, S))[S]
  BY DEF SumFunctionOnSet, FoldFunctionOnSet, MapThenFoldSet, Sums, Chosen
<1>2. Sums(CHOOSE g : Sums(g, w, S), w, S)
  BY SumsExist
<1>3. QED  BY <1>1, <1>2, SumsAgree

\* Nothing weighs nothing.
LEMMA SumEmpty == ASSUME NEW w PROVE SumFunctionOnSet(w, {}) = 0
<1>1. PICK f : Sums(f, w, {})
  BY SumsExist, FS_EmptySet
<1>2. SumFunctionOnSet(w, {}) = f[{}]
  BY <1>1, SumIs, FS_EmptySet
<1>3. QED  BY <1>1, <1>2 DEF Sums

\* The fold takes out the element it chooses and adds its weight.
LEMMA SumAny ==
  ASSUME NEW w, NEW S, IsFiniteSet(S), S # {}
  PROVE  SumFunctionOnSet(w, S) =
           w[Chosen(S)] + SumFunctionOnSet(w, S \ {Chosen(S)})
<1>1. PICK f : Sums(f, w, S)
  BY SumsExist
<1>2. S \in SUBSET S /\ S \ {Chosen(S)} \in SUBSET S
  OBVIOUS
<1>3. f[S] = w[Chosen(S)] + f[S \ {Chosen(S)}]
  BY <1>1, <1>2 DEF Sums
<1>4. IsFiniteSet(S \ {Chosen(S)})
  BY FS_Subset
<1>5. SumFunctionOnSet(w, S) = f[S]
  BY <1>1, <1>2, SumIs
<1>6. SumFunctionOnSet(w, S \ {Chosen(S)}) = f[S \ {Chosen(S)}]
  BY <1>1, <1>2, <1>4, SumIs
<1>7. QED  BY <1>3, <1>5, <1>6

\* Sums of natural numbers are natural numbers.
LEMMA SumNat ==
  ASSUME NEW w, NEW S, IsFiniteSet(S), \A x \in S : w[x] \in Nat
  PROVE  SumFunctionOnSet(w, S) \in Nat
<1> DEFINE W == {T \in SUBSET S : SumFunctionOnSet(w, T) \notin Nat}
<1>1. SUFFICES ASSUME W # {}
               PROVE  FALSE
  OBVIOUS
<1>2. PICK T \in W : \A U \in W : U \subseteq T => U = T
  <2>1. W \in SUBSET (SUBSET S)
    OBVIOUS
  <2> HIDE DEF W
  <2>2. QED  BY <1>1, <2>1, MinimalSubset
<1>3. CASE T = {}
  BY <1>2, <1>3, SumEmpty
<1>4. CASE T # {}
  <2>1. Chosen(T) \in T
    BY <1>4, AnyIsElement
  <2>2. SumFunctionOnSet(w, T \ {Chosen(T)}) \in Nat
    BY <1>2, <2>1
  <2>3. IsFiniteSet(T)
    BY <1>2, FS_Subset
  <2>4. SumFunctionOnSet(w, T) = w[Chosen(T)] + SumFunctionOnSet(w, T \ {Chosen(T)})
    BY <1>4, <2>3, SumAny
  <2>5. w[Chosen(T)] \in Nat
    BY <2>1
  <2>6. QED  BY <1>2, <2>2, <2>4, <2>5
<1>5. QED  BY <1>3, <1>4

\* Whichever element is taken out, the rest weighs that much less.
LEMMA SumWithout ==
  ASSUME NEW w, NEW S, IsFiniteSet(S), \A x \in S : w[x] \in Nat, NEW x \in S
  PROVE  SumFunctionOnSet(w, S) = w[x] + SumFunctionOnSet(w, S \ {x})
<1> DEFINE Total(T) == SumFunctionOnSet(w, T)
           W == {T \in SUBSET S :
                   \E y \in T : Total(T) # w[y] + Total(T \ {y})}
<1>1. SUFFICES ASSUME W # {}
               PROVE  FALSE
  OBVIOUS
<1>2. PICK T \in W : \A U \in W : U \subseteq T => U = T
  <2>1. W \in SUBSET (SUBSET S)
    OBVIOUS
  <2> HIDE DEF W
  <2>2. QED  BY <1>1, <2>1, MinimalSubset
<1>3. PICK y \in T : Total(T) # w[y] + Total(T \ {y})
  BY <1>2
<1> DEFINE z == Chosen(T)
<1>4. z \in T /\ IsFiniteSet(T)
  BY <1>2, <1>3, AnyIsElement, FS_Subset
<1>5. Total(T) = w[z] + Total(T \ {z})
  BY <1>3, <1>4, SumAny
<1>6. y # z
  BY <1>3, <1>5
<1> HIDE DEF z
<1>7. Total(T \ {z}) = w[y] + Total((T \ {z}) \ {y})
  <2>1. T \ {z} \notin W /\ y \in T \ {z} /\ T \ {z} \in SUBSET S
    BY <1>2, <1>4, <1>6
  <2>2. QED  BY <2>1
<1>8. Total(T \ {y}) = w[z] + Total((T \ {y}) \ {z})
  <2>1. T \ {y} \notin W /\ z \in T \ {y} /\ T \ {y} \in SUBSET S
    BY <1>2, <1>4, <1>6
  <2>2. QED  BY <2>1
<1>9. (T \ {y}) \ {z} = (T \ {z}) \ {y}
  OBVIOUS
<1>10. w[y] \in Nat /\ w[z] \in Nat
  BY <1>4
<1>11. Total((T \ {z}) \ {y}) \in Nat
  <2>1. IsFiniteSet((T \ {z}) \ {y})
    BY <1>4, FS_Subset
  <2>2. QED  BY <2>1, SumNat
<1>12. Total(T) = w[y] + Total(T \ {y})
  <2> DEFINE rest == Total((T \ {z}) \ {y})
  <2>1. Total(T) = w[z] + (w[y] + rest)
    BY <1>5, <1>7
  <2>2. Total(T \ {y}) = w[z] + rest
    BY <1>8, <1>9
  <2>3. rest \in Nat
    BY <1>11
  <2> HIDE DEF rest, Total, W
  <2>4. QED  BY <1>10, <2>1, <2>2, <2>3
<1>13. QED  BY <1>3, <1>12

\* One element more.
LEMMA SumWith ==
  ASSUME NEW w, NEW S, IsFiniteSet(S), NEW x, x \notin S,
         \A y \in S \cup {x} : w[y] \in Nat
  PROVE  SumFunctionOnSet(w, S \cup {x}) = w[x] + SumFunctionOnSet(w, S)
<1>1. (S \cup {x}) \ {x} = S /\ IsFiniteSet(S \cup {x})
  BY FS_AddElement
<1>2. QED  BY <1>1, SumWithout

\* Two sums are equal if a bijection of the index sets keeps the weights; g has
\* for each element of S its partner.
LEMMA SumReindexed ==
  ASSUME NEW S, IsFiniteSet(S), NEW w, \A x \in S : w[x] \in Nat,
         NEW g, NEW v, \A x \in S : v[g[x]] = w[x],
         \A x, y \in S : g[x] = g[y] => x = y
  PROVE  /\ IsFiniteSet({g[x] : x \in S})
         /\ SumFunctionOnSet(v, {g[x] : x \in S}) = SumFunctionOnSet(w, S)
<1> DEFINE Same(T) ==
             /\ IsFiniteSet({g[x] : x \in T})
             /\ SumFunctionOnSet(v, {g[x] : x \in T}) = SumFunctionOnSet(w, T)
           W == {T \in SUBSET S : ~Same(T)}
<1>1. SUFFICES ASSUME W # {}
               PROVE  FALSE
  OBVIOUS
<1>2. PICK T \in W : \A U \in W : U \subseteq T => U = T
  <2>1. W \in SUBSET (SUBSET S)
    OBVIOUS
  <2> HIDE DEF W
  <2>2. QED  BY <1>1, <2>1, MinimalSubset
<1>3. CASE T = {}
  <2>1. {g[x] : x \in T} = {}
    BY <1>3
  <2>2. QED  BY <1>2, <1>3, <2>1, SumEmpty, FS_EmptySet
<1>4. CASE T # {}
  <2>1. PICK z \in T : TRUE
    BY <1>4
  <2> DEFINE U == T \ {z}
             G == {g[x] : x \in U}
  <2>2. SumFunctionOnSet(v, G) = SumFunctionOnSet(w, U) /\ IsFiniteSet(G)
    BY <1>2
  <2>3. {g[x] : x \in T} = G \cup {g[z]} /\ g[z] \notin G
    BY <1>2
  <2>4. IsFiniteSet(T) /\ IsFiniteSet(U)
    BY <1>2, FS_Subset
  <2>5. IsFiniteSet(G \cup {g[z]})
    BY <2>2, FS_AddElement
  <2>6. SumFunctionOnSet(w, T) = w[z] + SumFunctionOnSet(w, U)
    BY <1>2, <2>4, SumWithout
  <2>7. SumFunctionOnSet(v, G \cup {g[z]}) = v[g[z]] + SumFunctionOnSet(v, G)
    <3>1. \A y \in G \cup {g[z]} : v[y] \in Nat
      BY <1>2
    <3> HIDE DEF G
    <3>2. QED  BY <2>2, <2>3, <3>1, SumWith
  <2>8. v[g[z]] = w[z]
    BY <1>2
  <2>9. QED  BY <1>2, <2>2, <2>3, <2>5, <2>6, <2>7, <2>8
<1>5. QED  BY <1>3, <1>4

\* Weights are looked at only where the sum is taken.
LEMMA SumSame ==
  ASSUME NEW S, IsFiniteSet(S), NEW w, \A x \in S : w[x] \in Nat,
         NEW v, \A x \in S : v[x] = w[x]
  PROVE  SumFunctionOnSet(v, S) = SumFunctionOnSet(w, S)
<1> DEFINE g == [x \in S |-> x]
<1>1. {g[x] : x \in S} = S
  OBVIOUS
<1>2. \A x \in S : v[g[x]] = w[x]
  OBVIOUS
<1>3. \A x, y \in S : g[x] = g[y] => x = y
  OBVIOUS
<1> HIDE DEF g
<1>4. SumFunctionOnSet(v, {g[x] : x \in S}) = SumFunctionOnSet(w, S)
  BY <1>2, <1>3, SumReindexed
<1>5. QED  BY <1>1, <1>4

(***************************************************************************)
(* Paths in a tree of numbered elements (the book): anc[k], above k, has a *)
(* smaller number than k; 0 is the root.                                   *)
(***************************************************************************)
Tree(E, anc) == E \subseteq Nat /\ \A k \in E : k # 0 => anc[k] \in E /\ anc[k] < k

PathStep(anc, f, k) == IF k = 0 THEN <<0>> ELSE Append(f[anc[k]], k)
NumbersTo(E, n) == {e \in E : e <= n}
Paths(E, anc, f, n) == f = [k \in NumbersTo(E, n) |-> PathStep(anc, f, k)]

\* What is above an element has a smaller number.
LEMMA AncestorsAreSmaller ==
  ASSUME NEW E, NEW anc, Tree(E, anc), NEW e \in E
  PROVE  e \in Nat /\ (e # 0 => anc[e] \in E /\ anc[e] \in Nat /\ anc[e] < e)
BY DEF Tree

\* There is at most one function with the equation of the paths up to a number.
LEMMA PathsAgree ==
  ASSUME NEW E, NEW anc, Tree(E, anc), NEW n \in Nat, NEW m \in Nat,
         NEW f, NEW g, Paths(E, anc, f, n), Paths(E, anc, g, m),
         NEW e \in E, e <= n, e <= m
  PROVE  f[e] = g[e]
<1> DEFINE W == {k \in NumbersTo(E, e) : f[k] # g[k]}
<1>1. SUFFICES ASSUME W # {}
               PROVE  FALSE
  <2>1. e \in NumbersTo(E, e)
    BY AncestorsAreSmaller DEF NumbersTo
  <2>2. QED  BY <1>1, <2>1
<1>2. W \in SUBSET Nat
  BY AncestorsAreSmaller DEF NumbersTo
<1> DEFINE k == Min(W)
<1>3. k \in W /\ \A j \in W : k <= j
  <2> HIDE DEF W
  <2>1. QED  BY <1>1, <1>2, MinIsLeast
<1> HIDE DEF k
<1>4. k \in E /\ k \in Nat /\ e \in Nat /\ k <= e
  BY <1>3, AncestorsAreSmaller DEF NumbersTo
<1>5. k \in NumbersTo(E, n) /\ k \in NumbersTo(E, m)
  BY <1>4 DEF NumbersTo
<1>6. f[k] = PathStep(anc, f, k) /\ g[k] = PathStep(anc, g, k)
  BY <1>5 DEF Paths
<1>7. k # 0 => f[anc[k]] = g[anc[k]]
  <2>1. SUFFICES ASSUME k # 0
                 PROVE  f[anc[k]] = g[anc[k]]
    OBVIOUS
  <2>2. anc[k] \in NumbersTo(E, e) /\ anc[k] < k /\ anc[k] \in Nat
    BY <1>4, <2>1, AncestorsAreSmaller DEF NumbersTo
  <2>3. anc[k] \notin W
    BY <1>3, <1>4, <2>2
  <2>4. QED  BY <2>2, <2>3
<1>8. QED  BY <1>3, <1>6, <1>7 DEF PathStep

\* There is one for every number: at the smallest without one, the function for
\* the number before could be extended.
LEMMA PathsExist ==
  ASSUME NEW E, NEW anc, Tree(E, anc), NEW n \in Nat
  PROVE  \E f : Paths(E, anc, f, n)
<1> DEFINE W == {i \in Nat : ~ \E f : Paths(E, anc, f, i)}
<1>1. SUFFICES ASSUME W # {}
               PROVE  FALSE
  OBVIOUS
<1> DEFINE m == Min(W)
<1>2. m \in W /\ \A j \in W : m <= j
  <2>1. W \in SUBSET Nat
    OBVIOUS
  <2> HIDE DEF W
  <2>2. QED  BY <1>1, <2>1, MinIsLeast
<1> HIDE DEF m
<1> DEFINE best(j) == CHOOSE f : Paths(E, anc, f, j)
           below == [j \in NumbersTo(E, m) |-> best(j)[j]]
           f == [k \in NumbersTo(E, m) |-> PathStep(anc, below, k)]
<1>3. ASSUME NEW j \in NumbersTo(E, m), j # m
      PROVE  Paths(E, anc, best(j), j)
  <2>1. j \in Nat /\ m \in Nat /\ j < m
    BY <1>2, <1>3, AncestorsAreSmaller DEF NumbersTo
  <2>2. j \notin W
    BY <1>2, <2>1
  <2>3. \E g : Paths(E, anc, g, j)
    BY <2>1, <2>2
  <2>4. QED  BY <2>3
<1> HIDE DEF best
<1>4. ASSUME NEW j \in NumbersTo(E, m), j # m
      PROVE  f[j] = below[j]
  <2>1. j \in E /\ j \in Nat /\ j <= m /\ m \in Nat
    BY <1>2, AncestorsAreSmaller DEF NumbersTo
  <2>2. Paths(E, anc, best(j), j) /\ j \in NumbersTo(E, j)
    BY <1>3, <1>4, <2>1 DEF NumbersTo
  <2>3. best(j)[j] = PathStep(anc, best(j), j)
    BY <2>2 DEF Paths
  <2>4. j # 0 => below[anc[j]] = best(j)[anc[j]]
    <3>1. SUFFICES ASSUME j # 0
                   PROVE  below[anc[j]] = best(j)[anc[j]]
      OBVIOUS
    <3> DEFINE i == anc[j]
    <3>2. i \in E /\ i \in Nat /\ i < j
      BY <2>1, <3>1, AncestorsAreSmaller
    <3>3. i \in NumbersTo(E, m) /\ i # m /\ i <= j /\ i <= i
      BY <2>1, <3>2 DEF NumbersTo
    <3>4. Paths(E, anc, best(i), i)
      BY <1>3, <3>3
    <3>5. best(i)[i] = best(j)[i]
      BY <2>1, <2>2, <3>2, <3>3, <3>4, PathsAgree
    <3>6. QED  BY <3>3, <3>5
  <2>5. PathStep(anc, below, j) = PathStep(anc, best(j), j)
    BY <2>4 DEF PathStep
  <2>6. QED  BY <2>3, <2>5
<1>5. Paths(E, anc, f, m)
  <2>1. ASSUME NEW k \in NumbersTo(E, m)
        PROVE  PathStep(anc, below, k) = PathStep(anc, f, k)
    <3>1. CASE k = 0
      BY <3>1 DEF PathStep
    <3>2. CASE k # 0
      <4>1. k \in E /\ k \in Nat /\ k <= m /\ m \in Nat
        BY <1>2, AncestorsAreSmaller DEF NumbersTo
      <4>2. anc[k] \in NumbersTo(E, m) /\ anc[k] # m
        BY <3>2, <4>1, AncestorsAreSmaller DEF NumbersTo
      <4>3. f[anc[k]] = below[anc[k]]
        BY <1>4, <4>2
      <4> HIDE DEF f, below
      <4>4. QED  BY <3>2, <4>3 DEF PathStep
    <3>3. QED  BY <3>1, <3>2
  <2>2. f = [k \in NumbersTo(E, m) |-> PathStep(anc, f, k)]
    BY <2>1
  <2>3. QED  BY <2>2 DEF Paths
<1>6. QED  BY <1>2, <1>5

\* The recursive function of the paths has the equation that defines it, and
\* a path is a list of elements.
LEMMA PathsAre ==
  ASSUME NEW E, NEW anc, Tree(E, anc), NEW up,
         up = CHOOSE f : f = [k \in E |-> IF k = 0 THEN << 0 >> ELSE Append(f[anc[k]], k)]
  PROVE  \A k \in E : /\ up[k] = IF k = 0 THEN << 0 >> ELSE Append(up[anc[k]], k)
                      /\ up[k] \in Seq(E)
<1> DEFINE best(j) == CHOOSE f : Paths(E, anc, f, j)
           to == [k \in E |-> best(k)[k]]
           All(f) == f = [k \in E |-> PathStep(anc, f, k)]
<1>1. ASSUME NEW k \in E
      PROVE  Paths(E, anc, best(k), k)
  <2>1. \E f : Paths(E, anc, f, k)
    BY AncestorsAreSmaller, PathsExist
  <2>2. QED  BY <2>1
<1> HIDE DEF best
<1>2. ASSUME NEW k \in E
      PROVE  to[k] = PathStep(anc, to, k)
  <2>1. k \in Nat /\ k \in NumbersTo(E, k)
    BY AncestorsAreSmaller DEF NumbersTo
  <2>2. to[k] = PathStep(anc, best(k), k)
    BY <1>1, <2>1 DEF Paths
  <2>3. k # 0 => best(k)[anc[k]] = to[anc[k]]
    <3>1. SUFFICES ASSUME k # 0
                   PROVE  best(k)[anc[k]] = to[anc[k]]
      OBVIOUS
    <3> DEFINE i == anc[k]
    <3>2. i \in E /\ i \in Nat /\ i <= k /\ i <= i
      BY <2>1, <3>1, AncestorsAreSmaller
    <3>3. best(i)[i] = best(k)[i]
      BY <1>1, <2>1, <3>2, PathsAgree
    <3>4. QED  BY <3>2, <3>3
  <2>4. QED  BY <2>2, <2>3 DEF PathStep
<1>3. All(to)
  BY <1>2
<1>4. up = CHOOSE f : All(f)
  BY DEF PathStep
<1> HIDE DEF to
<1>5. All(up)
  BY <1>3, <1>4
<1>6. \A n \in E : up[n] = PathStep(anc, up, n)
  BY <1>5
<1> HIDE DEF All
<1> DEFINE W == {k \in E : up[k] \notin Seq(E)}
<1>7. W = {}
  <2>1. SUFFICES ASSUME W # {} PROVE FALSE
    OBVIOUS
  <2>2. W \in SUBSET Nat
    BY DEF Tree
  <2> DEFINE k == Min(W)
  <2>3. k \in W /\ \A j \in W : k <= j
    <3> HIDE DEF W
    <3>1. QED  BY <2>1, <2>2, MinIsLeast
  <2> HIDE DEF k
  <2>4. k \in E /\ k \in Nat /\ up[k] \notin Seq(E)
    BY <2>2, <2>3
  <2>5. CASE k = 0
    <3>1. up[k] = <<0>>
      BY <1>6, <2>4, <2>5 DEF PathStep
    <3>2. PICK z \in E : z = 0
      BY <2>4, <2>5
    <3>3. <<z>> \in Seq(E)
      OBVIOUS
    <3>4. QED  BY <2>4, <3>1, <3>2, <3>3
  <2>6. CASE k # 0
    <3>1. anc[k] \in E /\ anc[k] \in Nat /\ anc[k] < k
      BY <2>4, <2>6, AncestorsAreSmaller
    <3>2. anc[k] \notin W
      BY <2>3, <2>4, <3>1, SMTT(20)
    <3>3. up[anc[k]] \in Seq(E)
      BY <3>1, <3>2
    <3>4. up[k] = Append(up[anc[k]], k)
      BY <1>6, <2>4, <2>6 DEF PathStep
    <3>5. PICK s \in Seq(E) : s = up[anc[k]]
      BY <3>3
    <3>6. Append(s, k) \in Seq(E)
      BY <2>4
    <3>7. QED  BY <2>4, <3>4, <3>5, <3>6
  <2>7. QED  BY <2>5, <2>6
<1>8. QED  BY <1>6, <1>7 DEF PathStep

-----------------------------------------------------------------------------
(***************************************************************************)
(* Functions that go on along links: f is val on done, and elsewhere what  *)
(* step makes of it at the next place, which has a smaller rank.           *)
(***************************************************************************)
Nearing(S, done, next, rank) ==
  /\ rank \in [S -> Nat]
  /\ \A x \in S \ done : next[x] \in S /\ rank[next[x]] < rank[x]

StepAt(done, next, val, step, f, x) ==
  IF x \in done THEN val[x] ELSE step[x][f[next[x]]]

\* f is that for the places of rank below n.
DefinedBelow(S, done, next, rank, val, step, f, n) ==
  \A x \in S : rank[x] < n => f[x] = StepAt(done, next, val, step, f, x)

\* A set of places has one of least rank.
LEMMA LeastRank ==
  ASSUME NEW S, NEW rank \in [S -> Nat], NEW W \in SUBSET S, W # {}
  PROVE  \E x \in W : \A y \in W : rank[x] <= rank[y]
<1> DEFINE T == {rank[x] : x \in W}
<1>1. T \in SUBSET Nat /\ T # {}
  OBVIOUS
<1>2. Min(T) \in T /\ \A y \in T : Min(T) <= y
  <2> HIDE DEF T
  <2>1. QED  BY <1>1, MinIsLeast
<1>3. PICK x \in W : rank[x] = Min(T)
  BY <1>2
<1>4. QED  BY <1>2, <1>3

\* Two functions with the equation for the ranks below n and m agree below both.
LEMMA StepsAgree ==
  ASSUME NEW S, NEW done, NEW next, NEW rank, Nearing(S, done, next, rank),
         NEW val, NEW step, NEW n \in Nat, NEW m \in Nat, NEW f, NEW g,
         DefinedBelow(S, done, next, rank, val, step, f, n),
         DefinedBelow(S, done, next, rank, val, step, g, m),
         NEW e \in S, rank[e] < n, rank[e] < m
  PROVE  f[e] = g[e]
<1> DEFINE W == {x \in S : rank[x] < n /\ rank[x] < m /\ f[x] # g[x]}
<1>1. SUFFICES ASSUME W # {} PROVE FALSE
  OBVIOUS
<1>2. rank \in [S -> Nat]
  BY DEF Nearing
<1>3. PICK x \in W : \A y \in W : rank[x] <= rank[y]
  <2>1. W \in SUBSET S
    OBVIOUS
  <2> HIDE DEF W
  <2>2. QED  BY <1>1, <1>2, <2>1, LeastRank
<1>4. x \notin done
  BY <1>3 DEF StepAt, DefinedBelow
<1>5. next[x] \in S /\ rank[next[x]] < rank[x]
  BY <1>3, <1>4 DEF Nearing
<1>6. next[x] \notin W
  BY <1>2, <1>3, <1>5
<1>7. f[next[x]] = g[next[x]]
  BY <1>2, <1>3, <1>5, <1>6
<1>8. QED  BY <1>3, <1>4, <1>7 DEF StepAt, DefinedBelow

\* For every number there is a function with the equation for the ranks below it.
LEMMA StepsBelow ==
  ASSUME NEW S, NEW done, NEW next, NEW rank, Nearing(S, done, next, rank),
         NEW val, NEW step, NEW n \in Nat
  PROVE  \E f : DefinedBelow(S, done, next, rank, val, step, f, n)
<1> DEFINE Good(f, k) == DefinedBelow(S, done, next, rank, val, step, f, k)
           W == {k \in Nat : ~ \E f : Good(f, k)}
<1>1. SUFFICES ASSUME W # {} PROVE FALSE
  OBVIOUS
<1>2. rank \in [S -> Nat]
  BY DEF Nearing
<1>3. PICK k \in W : \A y \in W : k <= y
  <2>1. W \in SUBSET Nat
    OBVIOUS
  <2> HIDE DEF W
  <2>2. QED  BY <1>1, <2>1, MinIsLeast
<1>4. k # 0
  <2>1. Good(<<>>, 0)
    BY <1>2 DEF DefinedBelow
  <2>2. QED  BY <2>1, <1>3
<1>5. k - 1 \in Nat /\ k - 1 \notin W
  BY <1>3, <1>4
<1>6. PICK f : Good(f, k - 1)
  BY <1>5
<1> DEFINE g == [x \in S |-> StepAt(done, next, val, step, f, x)]
<1>7. ASSUME NEW x \in S, rank[x] < k
      PROVE  g[x] = StepAt(done, next, val, step, g, x)
  <2>1. CASE x \in done
    BY <2>1 DEF StepAt
  <2>2. CASE x \notin done
    <3>1. next[x] \in S /\ rank[next[x]] < rank[x]
      BY <2>2 DEF Nearing
    <3>2. rank[next[x]] < k - 1
      BY <1>2, <1>3, <1>7, <3>1
    <3>3. f[next[x]] = g[next[x]]
      BY <1>6, <3>1, <3>2 DEF DefinedBelow
    <3>4. QED  BY <2>2, <3>3 DEF StepAt
  <2>3. QED  BY <2>1, <2>2
<1>8. Good(g, k)
  BY <1>7 DEF DefinedBelow
<1>9. QED  BY <1>3, <1>8

\* The values of val and step are in V.
Recursion(S, V, done, next, rank, val, step) ==
  /\ Nearing(S, done, next, rank)
  /\ \A x \in S \cap done : val[x] \in V
  /\ \A x \in S \ done : \A v \in V : step[x][v] \in V

\* There is a function with the equation, and its values are in V.
LEMMA StepsExist ==
  ASSUME NEW S, NEW V, NEW done, NEW next, NEW rank, NEW val, NEW step,
         Recursion(S, V, done, next, rank, val, step)
  PROVE  \E f \in [S -> V] :
           \A x \in S : f[x] = StepAt(done, next, val, step, f, x)
<1> DEFINE Good(f, k) == DefinedBelow(S, done, next, rank, val, step, f, k)
           best(k) == CHOOSE f : Good(f, k)
           f == [x \in S |-> best(rank[x] + 1)[x]]
<1>0. /\ Nearing(S, done, next, rank)
      /\ \A x \in S \cap done : val[x] \in V
      /\ \A x \in S \ done : \A v \in V : step[x][v] \in V
  BY DEF Recursion
<1>1. rank \in [S -> Nat]
  BY <1>0 DEF Nearing
<1>2. \A k \in Nat : Good(best(k), k)
  <2>1. SUFFICES ASSUME NEW k \in Nat PROVE \E g : Good(g, k)
    OBVIOUS
  <2>2. QED  BY <1>0, StepsBelow
<1>3. ASSUME NEW x \in S
      PROVE  f[x] = StepAt(done, next, val, step, f, x)
  <2> DEFINE k == rank[x] + 1
  <2>1. k \in Nat /\ rank[x] < k
    BY <1>1
  <2>2. best(k)[x] = StepAt(done, next, val, step, best(k), x)
    <3>1. Good(best(k), k)
      BY <1>2, <2>1
    <3> HIDE DEF best, k
    <3>2. QED  BY <2>1, <3>1 DEF DefinedBelow
  <2>3. CASE x \in done
    BY <2>2, <2>3 DEF StepAt
  <2>4. CASE x \notin done
    <3> DEFINE y == next[x]
               j == rank[y] + 1
    <3>1. y \in S /\ rank[y] < rank[x]
      BY <1>0, <2>4 DEF Nearing
    <3>2. j \in Nat /\ rank[y] < j /\ rank[y] < k
      BY <1>1, <3>1
    <3>3. best(k)[y] = best(j)[y]
      <4>1. Good(best(k), k) /\ Good(best(j), j)
        BY <1>2, <2>1, <3>2
      <4> HIDE DEF best, k, j, y
      <4>2. QED  BY <1>0, <2>1, <3>1, <3>2, <4>1, StepsAgree
    <3>4. f[y] = best(k)[y]
      BY <3>1, <3>3
    <3>5. f[x] = best(k)[x]
      OBVIOUS
    <3> HIDE DEF best, k, f, j
    <3>6. QED  BY <2>2, <2>4, <3>4, <3>5 DEF StepAt
  <2>5. QED  BY <2>3, <2>4
<1> HIDE DEF f
<1> DEFINE W == {x \in S : f[x] \notin V}
<1>4. W = {}
  <2>1. SUFFICES ASSUME W # {} PROVE FALSE
    OBVIOUS
  <2>2. PICK x \in W : \A y \in W : rank[x] <= rank[y]
    <3>1. W \in SUBSET S
      OBVIOUS
    <3> HIDE DEF W
    <3>2. QED  BY <1>1, <2>1, <3>1, LeastRank
  <2>3. f[x] = StepAt(done, next, val, step, f, x)
    BY <1>3
  <2>4. x \notin done
    BY <1>0, <2>2, <2>3 DEF StepAt
  <2>5. next[x] \in S /\ rank[next[x]] < rank[x]
    BY <1>0, <2>2, <2>4 DEF Nearing
  <2>6. f[next[x]] \in V
    BY <1>1, <2>2, <2>5
  <2>7. QED  BY <1>0, <2>2, <2>3, <2>4, <2>6 DEF StepAt
<1>5. f \in [S -> V]
  <2>1. f = [x \in S |-> f[x]]
    BY DEF f
  <2>2. QED  BY <1>4, <2>1
<1>6. QED  BY <1>3, <1>5
=============================================================================
