------------------------ MODULE BookCommandsProofs ------------------------
(***************************************************************************)
(* Proofs about BookCommands, for every book whose index files are those   *)
(* of a tree with its texts one after the other: what the commands that    *)
(* find elements find, that paths lead back, what the commands for         *)
(* characters around a place return, and what a search of the variant      *)
(* database finds.                                                         *)
(***************************************************************************)
EXTENDS BookCommands, CollectionLemmas

(***************************************************************************)
(* Least, greatest and n-th of a set of numbers                            *)
(***************************************************************************)
\* A set of numbers with a bound has a greatest element, and Max is it.
LEMMA MaxIsGreatest ==
  ASSUME NEW T \in SUBSET Nat, T # {}, NEW n \in Nat, \A x \in T : x <= n
  PROVE  Max(T) \in T /\ \A y \in T : y <= Max(T)
<1> DEFINE U == {n - x : x \in T}
<1>1. U \in SUBSET Nat /\ U # {}
  <2>1. \A x \in T : x \in Nat /\ n - x \in Nat
    OBVIOUS
  <2>2. QED  BY <2>1
<1>2. Min(U) \in U /\ \A y \in U : Min(U) <= y
  <2> HIDE DEF U
  <2>1. QED  BY <1>1, MinIsLeast
<1>3. PICK x \in T : Min(U) = n - x
  BY <1>2
<1>4. \A y \in T : y <= x
  <2>1. SUFFICES ASSUME NEW y \in T PROVE y <= x
    OBVIOUS
  <2>2. x \in Nat /\ y \in Nat
    OBVIOUS
  <2>3. n - x <= n - y
    BY <1>2, <1>3
  <2>4. QED  BY <2>2, <2>3
<1>5. \E z \in T : \A y \in T : z >= y
  BY <1>4
<1>6. QED  BY <1>5 DEF Max

\* The least of a set of numbers is the only one that no other is below.
LEMMA MinOf ==
  ASSUME NEW T \in SUBSET Int, NEW x \in T, \A y \in T : x <= y
  PROVE  Min(T) = x
<1>1. \E z \in T : \A y \in T : z <= y
  OBVIOUS
<1>2. Min(T) \in T /\ \A y \in T : Min(T) <= y
  BY <1>1 DEF Min
<1>3. PICK m \in T : m = Min(T)
  BY <1>2
<1>4. m \in Int /\ x \in Int /\ m <= x /\ x <= m
  BY <1>2, <1>3
<1>5. QED  BY <1>3, <1>4

\* The greatest is the only one that no other is above.
LEMMA MaxOf ==
  ASSUME NEW T \in SUBSET Int, NEW x \in T, \A y \in T : y <= x
  PROVE  Max(T) = x
<1>1. \E z \in T : \A y \in T : z >= y
  OBVIOUS
<1>2. Max(T) \in T /\ \A y \in T : Max(T) >= y
  BY <1>1 DEF Max
<1>3. PICK m \in T : m = Max(T)
  BY <1>2
<1>4. m \in Int /\ x \in Int /\ m <= x /\ x <= m
  BY <1>2, <1>3
<1>5. QED  BY <1>3, <1>4

\* The greater of two.
LEMMA MaxOfTwo ==
  ASSUME NEW x \in Int, NEW y \in Int
  PROVE  Max({x, y}) = IF x >= y THEN x ELSE y
<1>1. PICK T \in SUBSET Int : T = {x, y}
  OBVIOUS
<1>2. CASE x >= y
  <2>1. x \in T /\ \A z \in T : z <= x
    BY <1>1, <1>2
  <2>2. QED  BY <1>1, <1>2, <2>1, MaxOf
<1>3. CASE ~(x >= y)
  <2>1. y \in T /\ \A z \in T : z <= y
    BY <1>1, <1>3
  <2>2. QED  BY <1>1, <1>3, <2>1, MaxOf
<1>4. QED  BY <1>2, <1>3

\* x is before y in the direction that is asked for.
Nearer(x, y, way) == IF way = "back" THEN x > y ELSE x < y

\* e is in front of all of T.
Ahead(e, T, way) ==
  /\ T \in SUBSET Nat /\ IsFiniteSet(T) /\ e \in Nat /\ way \in {"on", "back"}
  /\ \A x \in T : Nearer(e, x, way)

\* With one more in front of a set, the others are one further.
LEMMA NthCons ==
  ASSUME NEW T, NEW e, NEW way, Ahead(e, T, way), NEW k \in Int
  PROVE  /\ k = 1 => Nth({e} \cup T, k, way) = {e}
         /\ k # 1 => Nth({e} \cup T, k, way) = Nth(T, k - 1, way)
<1> DEFINE upto(S, x) == {f \in S : IF way = "back" THEN f >= x ELSE f <= x}
           S == {e} \cup T
<1>0. /\ T \in SUBSET Nat /\ IsFiniteSet(T) /\ e \in Nat /\ way \in {"on", "back"}
      /\ \A x \in T : Nearer(e, x, way)
  BY DEF Ahead
<1> USE <1>0
<1>1. e \notin T
  BY DEF Nearer
<1>2. upto(S, e) = {e} /\ Cardinality({e}) = 1
  <2>1. \A x \in T : x \in Nat /\ ~(IF way = "back" THEN x >= e ELSE x <= e)
    BY DEF Nearer
  <2>2. upto(S, e) = {e}
    <3>1. IF way = "back" THEN e >= e ELSE e <= e
      OBVIOUS
    <3>2. QED  BY <2>1, <3>1, Zenon
  <2>3. QED  BY <2>2, FS_Singleton
<1>3. ASSUME NEW x \in T
      PROVE  /\ Cardinality(upto(S, x)) = Cardinality(upto(T, x)) + 1
             /\ Cardinality(upto(T, x)) \in Nat \ {0}
  <2>1. upto(S, x) = upto(T, x) \cup {e} /\ e \notin upto(T, x) /\ x \in upto(T, x)
    BY <1>1 DEF Nearer
  <2>2. IsFiniteSet(upto(T, x))
    BY FS_Subset
  <2> HIDE DEF upto, S
  <2>3. Cardinality(upto(T, x)) \in Nat /\ Cardinality(upto(T, x)) # 0
    BY <2>1, <2>2, FS_EmptySet, FS_CardinalityType
  <2>4. Cardinality(upto(T, x) \cup {e}) = Cardinality(upto(T, x)) + 1
    BY <2>1, <2>2, FS_AddElement
  <2>5. QED  BY <2>1, <2>3, <2>4
<1>4. /\ Nth(S, k, way) = {x \in S : k = Cardinality(upto(S, x))}
      /\ Nth(T, k - 1, way) = {x \in T : k - 1 = Cardinality(upto(T, x))}
  BY DEF Nth
<1> HIDE DEF upto
<1>5. \A x \in T : k = Cardinality(upto(S, x)) <=> k - 1 = Cardinality(upto(T, x))
  BY <1>3
<1>6. CASE k = 1
  <2>1. \A x \in T : k # Cardinality(upto(S, x))
    BY <1>3, <1>6
  <2>2. QED  BY <1>2, <1>4, <1>6, <2>1
<1>7. CASE k # 1
  <2>1. k # Cardinality(upto(S, e))
    BY <1>2, <1>7
  <2>2. QED  BY <1>4, <1>5, <1>7, <2>1
<1>8. QED  BY <1>6, <1>7

\* Nothing is the n-th of nothing, and all are at least the first.
LEMMA NthEmpty ==
  ASSUME NEW k \in Int, NEW way \in {"on", "back"}
  PROVE  Nth({}, k, way) = {}
BY DEF Nth

(***************************************************************************)
(* What NthAlong finds on a chain                                          *)
(***************************************************************************)
\* Where a search along links ends.
Ends(b) == {e \in Int : e = None \/ e \notin Elements(b)}

\* The value of the recursive function of NthAlong at one element.
LEMMA NthAlongStep ==
  ASSUME NEW b, NEW link, NEW rank, Nearing(Int, Ends(b), link, rank), NEW gi,
         NEW e \in Int, NEW k \in Int
  PROVE  NthAlong(b, link, e, k, gi) =
           IF e = None THEN None
           ELSE IF e \notin Elements(b) THEN Fail
           ELSE IF ~Matches(b, e, gi) THEN NthAlong(b, link, link[e], k, gi)
           ELSE IF k = 1 THEN e
           ELSE NthAlong(b, link, link[e], k - 1, gi)
<1> DEFINE V == [Int -> Int]
           val == [x \in Int |-> [j \in Int |-> IF x = None THEN None ELSE Fail]]
           step == [x \in Int |-> [g \in V |->
                     [j \in Int |-> IF ~Matches(b, x, gi) THEN g[j]
                                   ELSE IF j = 1 THEN x ELSE g[j - 1]]]]
           Body(f) == [x \in Int |->
                        [j \in Int |->
                           IF x = None THEN None
                           ELSE IF ~get_next_sgml_obj(b, x) THEN Fail
                           ELSE IF ~Matches(b, x, gi) THEN f[link[x]][j]
                           ELSE IF j = 1 THEN x
                           ELSE f[link[x]][j - 1]]]
<1>1. \A x \in Int \cap Ends(b) : val[x] \in V
  BY DEF None, Fail
<1>2. \A x \in Int \ Ends(b) : \A v \in V : step[x][v] \in V
  OBVIOUS
<1>3. PICK f \in [Int -> V] :
        \A x \in Int : f[x] = StepAt(Ends(b), link, val, step, f, x)
  <2> HIDE DEF V, val, step
  <2>1. Recursion(Int, V, Ends(b), link, rank, val, step)
    BY <1>1, <1>2 DEF Recursion
  <2>2. QED  BY <2>1, StepsExist
<1>4. f = Body(f)
  <2>1. ASSUME NEW x \in Int
        PROVE  f[x] = Body(f)[x]
    <3>1. CASE x \in Ends(b)
      <4>1. f[x] = val[x]
        BY <1>3, <3>1 DEF StepAt
      <4>2. QED  BY <3>1, <4>1 DEF Ends, get_next_sgml_obj
    <3>2. CASE x \notin Ends(b)
      <4>1. f[x] = step[x][f[link[x]]]
        BY <1>3, <3>2 DEF StepAt
      <4>2. link[x] \in Int /\ f[link[x]] \in V
        BY <1>3, <3>2 DEF Nearing
      <4>3. QED  BY <3>2, <4>1, <4>2 DEF Ends, get_next_sgml_obj
    <3>3. QED  BY <3>1, <3>2
  <2>2. f = [x \in Int |-> f[x]]
    BY <1>3
  <2>3. QED  BY <2>1, <2>2
<1> DEFINE nth == CHOOSE g : g = Body(g)
<1>5. nth = Body(nth)
  BY <1>4
<1>6. \A x, j \in Int : NthAlong(b, link, x, j, gi) = nth[x][j]
  BY DEF NthAlong
<1> HIDE DEF nth
<1>7. nth[e][k] = IF e = None THEN None
                  ELSE IF e \notin Elements(b) THEN Fail
                  ELSE IF ~Matches(b, e, gi) THEN nth[link[e]][k]
                  ELSE IF k = 1 THEN e
                  ELSE nth[link[e]][k - 1]
  <2>1. nth[e][k] = Body(nth)[e][k]
    BY <1>5
  <2>2. QED  BY <2>1 DEF get_next_sgml_obj
<1>8. e \notin Ends(b) =>
        /\ NthAlong(b, link, link[e], k, gi) = nth[link[e]][k]
        /\ NthAlong(b, link, link[e], k - 1, gi) = nth[link[e]][k - 1]
  <2>1. e \notin Ends(b) => link[e] \in Int
    BY DEF Nearing
  <2>2. SUFFICES ASSUME NEW y \in Int, y = link[e]
                 PROVE  /\ NthAlong(b, link, y, k, gi) = nth[y][k]
                        /\ NthAlong(b, link, y, k - 1, gi) = nth[y][k - 1]
    BY <2>1
  <2>3. k - 1 \in Int
    OBVIOUS
  <2>4. QED  BY <1>6, <2>3
<1>9. NthAlong(b, link, e, k, gi) = nth[e][k]
  BY <1>6
<1> HIDE DEF Body
<1>10. QED  BY <1>7, <1>8, <1>9 DEF Ends

\* The elements of S that come after e, and their nearest, or end.
Rest(S, e, way) == {f \in S : Nearer(e, f, way)}
NearestOf(S, x, end, way) ==
  IF S = {} THEN x = end
  ELSE x \in S /\ \A f \in S \ {x} : Nearer(x, f, way)

\* The links go from each element of S to the nearest of S that comes after it.
Chain(S, link, end, way) ==
  \A e \in S : NearestOf(Rest(S, e, way), link[e], end, way)

\* The k-th of a name among T, or what reading at the end of the chain gives.
NthNamed(b, T, gi, end, k, way) ==
  LET nth == Nth({x \in T : Matches(b, x, gi)}, k, way)
  IN IF nth # {} THEN Max(nth) ELSE IF end = None THEN None ELSE Fail

\* The links lead from start through S, and to end.
Leads(b, link, rank, start, S, end, way) ==
  /\ Nearing(Int, Ends(b), link, rank)
  /\ S \subseteq Elements(b) \ {0} /\ IsFiniteSet(S) /\ S \subseteq Nat
  /\ end \in Ends(b) /\ way \in {"on", "back"}
  /\ NearestOf(S, start, end, way)
  /\ Chain(S, link, end, way)

\* On a chain NthAlong finds the k-th of the name of all that it goes through.
LEMMA NthOnChain ==
  ASSUME NEW b, NEW link, NEW rank, NEW start, NEW S, NEW end, NEW way,
         Leads(b, link, rank, start, S, end, way), NEW gi, NEW k \in Int
  PROVE  NthAlong(b, link, start, k, gi) = NthNamed(b, S, gi, end, k, way)
<1>0. /\ Nearing(Int, Ends(b), link, rank)
      /\ S \subseteq Elements(b) \ {0} /\ IsFiniteSet(S) /\ S \subseteq Nat
      /\ end \in Ends(b) /\ way \in {"on", "back"}
      /\ NearestOf(S, start, end, way)
      /\ Chain(S, link, end, way)
  BY DEF Leads
<1> USE <1>0
<1> DEFINE along(e, j) == NthAlong(b, link, e, j, gi)
           named(T, j) == NthNamed(b, T, gi, end, j, way)
           from(e) == {e} \cup Rest(S, e, way)
           W == {e \in S : \E j \in Int : along(e, j) # named(from(e), j)}
<1>1. \A j \in Int : along(end, j) = named({}, j)
  <2>1. \A j \in Int : along(end, j) = IF end = None THEN None ELSE Fail
    BY NthAlongStep DEF Ends
  <2>2. \A j \in Int : named({}, j) = IF end = None THEN None ELSE Fail
    BY NthEmpty DEF NthNamed
  <2>3. QED  BY <2>1, <2>2
<1>2. ASSUME NEW e \in S, \A j \in Int : along(link[e], j) = named(Rest(S, e, way), j)
      PROVE  e \notin W
  <2>1. SUFFICES ASSUME NEW j \in Int PROVE along(e, j) = named(from(e), j)
    OBVIOUS
  <2>2. e \in Int /\ e \in Nat /\ e # None /\ e \in Elements(b) /\ j - 1 \in Int
    BY DEF None
  <2> DEFINE R == Rest(S, e, way)
             hits(T) == {x \in T : Matches(b, x, gi)}
  <2>3. along(e, j) = IF ~Matches(b, e, gi) THEN named(R, j)
                      ELSE IF j = 1 THEN e ELSE named(R, j - 1)
    <3>1. along(e, j) = IF ~Matches(b, e, gi) THEN along(link[e], j)
                        ELSE IF j = 1 THEN e ELSE along(link[e], j - 1)
      BY <2>2, NthAlongStep
    <3>2. QED  BY <1>2, <2>2, <3>1
  <2>4. CASE ~Matches(b, e, gi)
    <3>1. hits(from(e)) = hits(R)
      BY <2>4
    <3>2. named(from(e), j) = named(R, j)
      BY <3>1 DEF NthNamed
    <3>3. QED  BY <2>3, <2>4, <3>2
  <2>5. CASE Matches(b, e, gi)
    <3>1. hits(from(e)) = {e} \cup hits(R)
      BY <2>5
    <3>2. hits(R) \in SUBSET Nat /\ IsFiniteSet(hits(R))
      BY FS_Subset DEF Rest
    <3>3. \A x \in hits(R) : Nearer(e, x, way)
      BY DEF Rest
    <3> HIDE DEF hits, R
    <3>4. Nth(hits(from(e)), j, way) =
            IF j = 1 THEN {e} ELSE Nth(hits(R), j - 1, way)
      <4>1. Ahead(e, hits(R), way)
        BY <2>2, <3>2, <3>3 DEF Ahead
      <4>2. /\ j = 1 => Nth({e} \cup hits(R), j, way) = {e}
            /\ j # 1 => Nth({e} \cup hits(R), j, way) = Nth(hits(R), j - 1, way)
        BY <4>1, NthCons
      <4>3. QED  BY <3>1, <4>2
    <3>5. CASE j = 1
      <4>1. Max({e}) = e
        BY <2>2, MaxOf
      <4>2. named(from(e), j) = e
        BY <3>4, <3>5, <4>1 DEF NthNamed, hits
      <4>3. QED  BY <2>3, <2>5, <3>5, <4>2
    <3>6. CASE j # 1
      <4>1. named(from(e), j) = named(R, j - 1)
        BY <3>4, <3>6 DEF NthNamed, hits
      <4>2. QED  BY <2>3, <2>5, <3>6, <4>1
    <3>7. QED  BY <3>5, <3>6
  <2>6. QED  BY <2>4, <2>5
<1>3. W = {}
  <2>1. SUFFICES ASSUME W # {} PROVE FALSE
    OBVIOUS
  <2>2. rank \in [Int -> Nat] /\ W \in SUBSET Int
    <3>1. rank \in [Int -> Nat]
      BY DEF Nearing
    <3>2. W \subseteq S
      OBVIOUS
    <3> HIDE DEF W
    <3>3. QED  BY <3>1, <3>2
  <2>3. PICK e \in W : \A y \in W : rank[e] <= rank[y]
    <3> HIDE DEF W
    <3>1. QED  BY <2>1, <2>2, LeastRank
  <2>4. e \in S /\ e \notin Ends(b) /\ e \in Int
    BY DEF Ends, None
  <2> DEFINE R == Rest(S, e, way)
             y == link[e]
  <2>5. y \in Int /\ rank[y] < rank[e]
    BY <2>4 DEF Nearing
  <2>6. NearestOf(R, y, end, way)
    BY <2>4 DEF Chain
  <2>7. CASE R = {}
    <3>1. y = end
      BY <2>6, <2>7 DEF NearestOf
    <3>2. \A j \in Int : along(y, j) = named(R, j)
      BY <1>1, <2>7, <3>1
    <3>3. QED  BY <1>2, <2>3, <2>4, <3>2
  <2>8. CASE R # {}
    <3>1. y \in R /\ \A f \in R \ {y} : Nearer(y, f, way)
      BY <2>6, <2>8 DEF NearestOf
    <3>2. y \in S /\ Nearer(e, y, way) /\ y \in Nat /\ e \in Nat
      BY <2>4, <3>1 DEF Rest
    <3>3. R = from(y)
      <4>1. R \subseteq from(y)
        BY <3>1 DEF Rest
      <4>2. ASSUME NEW f \in S, Nearer(y, f, way)
            PROVE  Nearer(e, f, way)
        BY <3>2, <4>2 DEF Nearer
      <4>3. from(y) \subseteq R
        BY <3>1, <4>2 DEF Rest
      <4>4. QED  BY <4>1, <4>3
    <3>4. y \notin W
      BY <2>2, <2>3, <2>5
    <3>5. \A j \in Int : along(y, j) = named(R, j)
      BY <3>2, <3>3, <3>4
    <3>6. QED  BY <1>2, <2>3, <2>4, <3>5
  <2>9. QED  BY <2>7, <2>8
<1>4. CASE S = {}
  <2>1. start = end
    BY <1>4 DEF NearestOf
  <2>2. QED  BY <1>1, <1>4, <2>1
<1>5. CASE S # {}
  <2>1. start \in S /\ S = from(start)
    BY <1>5 DEF NearestOf, Rest
  <2>2. start \notin W
    BY <1>3
  <2>3. QED  BY <2>1, <2>2
<1>6. QED  BY <1>4, <1>5

(***************************************************************************)
(* The links of a tree                                                     *)
(***************************************************************************)
\* FirstOf and LastOf give the nearest of a set.
LEMMA FirstIsNearest ==
  ASSUME NEW T \in SUBSET Nat
  PROVE  NearestOf(T, FirstOf(T), None, "on")
<1>1. CASE T = {}
  BY <1>1 DEF NearestOf, FirstOf
<1>2. CASE T # {}
  <2>1. PICK m \in T : m = Min(T) /\ \A y \in T : m <= y
    BY <1>2, MinIsLeast
  <2>2. \A y \in T \ {m} : m < y
    BY <2>1
  <2>3. QED  BY <1>2, <2>1, <2>2 DEF NearestOf, FirstOf, Nearer
<1>3. QED  BY <1>1, <1>2

\* The last is that when the nearest is the greatest.
LEMMA LastIsNearest ==
  ASSUME NEW T \in SUBSET Nat, NEW n \in Nat, \A x \in T : x <= n
  PROVE  NearestOf(T, LastOf(T), None, "back")
<1>1. CASE T = {}
  BY <1>1 DEF NearestOf, LastOf
<1>2. CASE T # {}
  <2>1. PICK m \in T : m = Max(T) /\ \A y \in T : y <= m
    BY <1>2, MaxIsGreatest
  <2>2. \A y \in T \ {m} : m > y
    BY <2>1
  <2>3. QED  BY <1>2, <2>1, <2>2 DEF NearestOf, LastOf, Nearer
<1>3. QED  BY <1>1, <1>2

\* The elements of a book are the numbers from 0.
LEMMA TreeElements ==
  ASSUME NEW b, IsTree(b)
  PROVE  /\ no_elements(b) \in Nat \ {0}
         /\ Elements(b) = 0 .. no_elements(b) - 1
         /\ Elements(b) \in SUBSET Nat
         /\ IsFiniteSet(Elements(b))
         /\ 0 \in Elements(b)
<1>1. IsFiniteSet(Elements(b)) /\ Elements(b) # {} /\ Elements(b) = 0 .. no_elements(b) - 1
  BY DEF IsTree
<1>2. no_elements(b) \in Nat
  BY <1>1, FS_CardinalityType DEF no_elements
<1>3. QED  BY <1>1, <1>2

\* Each link goes to the nearest of those it is for.
LEMMA TreeLinks ==
  ASSUME NEW b, IsTree(b), NEW e \in Elements(b)
  PROVE  /\ b.ancestor[e] \in Elements(b)
         /\ e = 0 => b.ancestor[e] = 0
         /\ e # 0 => b.ancestor[e] < e
         /\ NearestOf(Below(b, e), b.child[e], None, "on")
         /\ NearestOf({f \in Beside(b, e) : f < e}, b.lsib[e], None, "back")
         /\ NearestOf({f \in Beside(b, e) : f > e}, b.rsib[e], None, "on")
<1>1. /\ Elements(b) \in SUBSET Nat
      /\ \A f \in Elements(b) : f \in Nat /\ f <= no_elements(b)
      /\ no_elements(b) \in Nat
  BY TreeElements
<1>2. /\ b.ancestor \in [Elements(b) -> Elements(b)] /\ b.ancestor[0] = None
      /\ e # 0 => b.ancestor[e] < e
      /\ b.child[e] = FirstOf(Below(b, e))
      /\ b.lsib[e] = LastOf({f \in Beside(b, e) : f < e})
      /\ b.rsib[e] = FirstOf({f \in Beside(b, e) : f > e})
  BY DEF IsTree
<1>3. Below(b, e) \subseteq Elements(b) /\ Beside(b, e) \subseteq Elements(b)
  BY DEF Below, Beside
<1>4. NearestOf(Below(b, e), b.child[e], None, "on")
  BY <1>1, <1>2, <1>3, FirstIsNearest
<1>5. NearestOf({f \in Beside(b, e) : f < e}, b.lsib[e], None, "back")
  <2> DEFINE T == {f \in Beside(b, e) : f < e}
  <2>1. T \in SUBSET Nat /\ \A x \in T : x <= no_elements(b)
    BY <1>1, <1>3
  <2> HIDE DEF T
  <2>2. NearestOf(T, LastOf(T), None, "back")
    BY <1>1, <2>1, LastIsNearest
  <2>3. QED  BY <1>2, <2>2 DEF T
<1>6. NearestOf({f \in Beside(b, e) : f > e}, b.rsib[e], None, "on")
  <2> DEFINE T == {f \in Beside(b, e) : f > e}
  <2>1. T \in SUBSET Nat
    BY <1>1, <1>3
  <2> HIDE DEF T
  <2>2. NearestOf(T, FirstOf(T), None, "on")
    BY <2>1, FirstIsNearest
  <2>3. QED  BY <1>2, <2>2 DEF T
<1>7. b.ancestor[e] \in Elements(b) /\ (e = 0 => b.ancestor[e] = 0)
  BY <1>2 DEF None
<1>8. QED  BY <1>2, <1>4, <1>5, <1>6, <1>7

\* A search along links to greater numbers comes to an end.
RankForward(b) ==
  [e \in Int |-> IF e \in Elements(b) \ {0} THEN no_elements(b) - e ELSE 0]
LEMMA OnwardForward ==
  ASSUME NEW b, IsTree(b), NEW link,
         \A e \in Elements(b) \ {0} : link[e] \in Int /\ (link[e] = 0 \/ link[e] > e)
  PROVE  Nearing(Int, Ends(b), link, RankForward(b))
<1>1. \A e \in Int \ Ends(b) : e \in Elements(b) \ {0}
  BY DEF Ends, None
<1>2. RankForward(b) \in [Int -> Nat]
  BY TreeElements DEF RankForward
<1>3. ASSUME NEW e \in Elements(b) \ {0}
      PROVE  RankForward(b)[link[e]] < RankForward(b)[e]
  <2>1. e \in Int /\ RankForward(b)[e] = no_elements(b) - e /\ e < no_elements(b)
    BY TreeElements DEF RankForward
  <2>2. PICK x \in Int : x = link[e] /\ (x = 0 \/ x > e)
    BY <1>3
  <2>3. RankForward(b)[x] = IF x \in Elements(b) \ {0} THEN no_elements(b) - x ELSE 0
    BY DEF RankForward
  <2>4. no_elements(b) \in Nat
    BY TreeElements
  <2>5. QED  BY <2>1, <2>2, <2>3, <2>4
<1>4. QED  BY <1>1, <1>2, <1>3 DEF Nearing

\* So does one along links to smaller numbers.
RankBackward(b) == [e \in Int |-> IF e \in Elements(b) \ {0} THEN e ELSE 0]
LEMMA OnwardBackward ==
  ASSUME NEW b, IsTree(b), NEW link,
         \A e \in Elements(b) \ {0} : link[e] \in Nat /\ link[e] < e
  PROVE  Nearing(Int, Ends(b), link, RankBackward(b))
<1>1. \A e \in Int \ Ends(b) : e \in Elements(b) \ {0}
  BY DEF Ends, None
<1>2. RankBackward(b) \in [Int -> Nat]
  BY TreeElements DEF RankBackward
<1>3. ASSUME NEW e \in Elements(b) \ {0}
      PROVE  RankBackward(b)[link[e]] < RankBackward(b)[e]
  <2>1. e \in Int /\ RankBackward(b)[e] = e /\ e \in Nat \ {0}
    BY TreeElements DEF RankBackward
  <2>2. PICK x \in Nat : x = link[e] /\ x < e
    BY <1>3
  <2>3. RankBackward(b)[x] = IF x \in Elements(b) \ {0} THEN x ELSE 0
    BY DEF RankBackward
  <2>4. QED  BY <2>1, <2>2, <2>3
<1>4. QED  BY <1>1, <1>2, <1>3 DEF Nearing

(***************************************************************************)
(* The searches, each as the n-th of a set                                 *)
(***************************************************************************)
\* Sisters have the same element above them.
LEMMA SistersBeside ==
  ASSUME NEW b, IsTree(b), NEW e \in Elements(b), NEW f \in Elements(b),
         f \in Beside(b, e) \/ f \in Below(b, e)
  PROVE  /\ f \in Beside(b, e) => Beside(b, f) = Beside(b, e)
         /\ f \in Below(b, e) => Beside(b, f) = Below(b, e)
BY DEF Beside, Below

\* The sets that the searches go through.
LEMMA SearchedSets ==
  ASSUME NEW b, IsTree(b), NEW S \in SUBSET Elements(b)
  PROVE  IsFiniteSet(S) /\ S \in SUBSET Nat
BY TreeElements, FS_Subset

\* A right sister has a greater number.
LEMMA RightsAreGreater ==
  ASSUME NEW b, IsTree(b)
  PROVE  \A e \in Elements(b) \ {0} :
           b.rsib[e] \in Int /\ (b.rsib[e] = 0 \/ b.rsib[e] > e)
<1>1. SUFFICES ASSUME NEW e \in Elements(b) \ {0}
               PROVE  b.rsib[e] \in Int /\ (b.rsib[e] = 0 \/ b.rsib[e] > e)
  OBVIOUS
<1> DEFINE T == {f \in Beside(b, e) : f > e}
<1>2. NearestOf(T, b.rsib[e], None, "on")
  BY TreeLinks
<1>3. T \subseteq Nat
  BY TreeElements DEF Beside, Below
<1>4. b.rsib[e] = 0 \/ b.rsib[e] \in T
  BY <1>2 DEF NearestOf, None
<1>5. QED  BY <1>3, <1>4

\* A left sister has a smaller number.
LEMMA LeftsAreSmaller ==
  ASSUME NEW b, IsTree(b)
  PROVE  \A e \in Elements(b) \ {0} : b.lsib[e] \in Nat /\ b.lsib[e] < e
<1>1. SUFFICES ASSUME NEW e \in Elements(b) \ {0}
               PROVE  b.lsib[e] \in Nat /\ b.lsib[e] < e
  OBVIOUS
<1> DEFINE T == {f \in Beside(b, e) : f < e}
<1>2. NearestOf(T, b.lsib[e], None, "back")
  BY TreeLinks
<1>3. T \subseteq Nat /\ e \in Nat \ {0}
  BY TreeElements DEF Beside, Below
<1>4. b.lsib[e] = 0 \/ b.lsib[e] \in T
  BY <1>2 DEF NearestOf, None
<1>5. QED  BY <1>3, <1>4

\* From the first below an element right along all of them.
LEMMA ChildIs ==
  ASSUME NEW b, IsTree(b), NEW el \in Elements(b), NEW n \in Int, NEW gi
  PROVE  find_child(b, el, n, gi) = NthNamed(b, Below(b, el), gi, None, n, "on")
<1> DEFINE S == Below(b, el)
<1>1. S \in SUBSET (Elements(b) \ {0}) /\ S \subseteq Elements(b)
  BY DEF Below
<1>2. IsFiniteSet(S) /\ S \subseteq Nat
  BY <1>1, SearchedSets
<1>3. NearestOf(S, b.child[el], None, "on")
  BY TreeLinks
<1>4. Chain(S, b.rsib, None, "on")
  <2>1. SUFFICES ASSUME NEW e \in S
                 PROVE  NearestOf(Rest(S, e, "on"), b.rsib[e], None, "on")
    BY DEF Chain
  <2>2. Beside(b, e) = S
    BY <1>1, SistersBeside
  <2>3. Rest(S, e, "on") = {f \in Beside(b, e) : f > e}
    BY <1>2, <2>2 DEF Rest, Nearer
  <2>4. QED  BY <1>1, <2>3, TreeLinks
<1>5. Nearing(Int, Ends(b), b.rsib, RankForward(b))
  BY RightsAreGreater, OnwardForward
<1>6. None \in Ends(b)
  BY DEF Ends, None
<1> HIDE DEF S
<1>7. NthAlong(b, b.rsib, b.child[el], n, gi) = NthNamed(b, S, gi, None, n, "on")
  <2>1. Leads(b, b.rsib, RankForward(b), b.child[el], S, None, "on")
    BY <1>1, <1>2, <1>3, <1>4, <1>5, <1>6 DEF Leads
  <2>2. QED  BY <2>1, NthOnChain
<1>8. QED  BY <1>7 DEF find_child, S

\* Right along the sisters after an element.
LEMMA RSiblingIs ==
  ASSUME NEW b, IsTree(b), NEW el \in Elements(b), NEW n \in Int, NEW gi
  PROVE  find_rsibling(b, el, n, gi) =
           NthNamed(b, {e \in Beside(b, el) : e > el}, gi, None, n, "on")
<1> DEFINE S == {e \in Beside(b, el) : e > el}
<1>1. S \in SUBSET (Elements(b) \ {0}) /\ S \subseteq Elements(b)
  BY DEF Beside, Below
<1>2. IsFiniteSet(S) /\ S \subseteq Nat
  BY <1>1, SearchedSets
<1>3. NearestOf(S, b.rsib[el], None, "on")
  BY TreeLinks
<1>4. Chain(S, b.rsib, None, "on")
  <2>1. SUFFICES ASSUME NEW e \in S
                 PROVE  NearestOf(Rest(S, e, "on"), b.rsib[e], None, "on")
    BY DEF Chain
  <2>2. Beside(b, e) = Beside(b, el)
    BY <1>1, SistersBeside
  <2>3. Rest(S, e, "on") = {f \in Beside(b, e) : f > e}
    <3>1. Beside(b, el) \subseteq Nat /\ e \in Nat /\ el \in Nat /\ e > el
      BY <1>2, TreeElements DEF Beside, Below
    <3>2. QED  BY <2>2, <3>1 DEF Rest, Nearer
  <2>4. QED  BY <1>1, <2>3, TreeLinks
<1>5. Nearing(Int, Ends(b), b.rsib, RankForward(b))
  BY RightsAreGreater, OnwardForward
<1>6. None \in Ends(b)
  BY DEF Ends, None
<1> HIDE DEF S
<1>7. NthAlong(b, b.rsib, b.rsib[el], n, gi) = NthNamed(b, S, gi, None, n, "on")
  <2>1. Leads(b, b.rsib, RankForward(b), b.rsib[el], S, None, "on")
    BY <1>1, <1>2, <1>3, <1>4, <1>5, <1>6 DEF Leads
  <2>2. QED  BY <2>1, NthOnChain
<1>8. QED  BY <1>7 DEF find_rsibling, S

\* Left along the sisters before an element.
LEMMA LSiblingIs ==
  ASSUME NEW b, IsTree(b), NEW el \in Elements(b), NEW n \in Int, NEW gi
  PROVE  find_lsibling(b, el, n, gi) =
           NthNamed(b, {e \in Beside(b, el) : e < el}, gi, None, n, "back")
<1> DEFINE S == {e \in Beside(b, el) : e < el}
<1>1. S \in SUBSET (Elements(b) \ {0}) /\ S \subseteq Elements(b)
  BY DEF Beside, Below
<1>2. IsFiniteSet(S) /\ S \subseteq Nat
  BY <1>1, SearchedSets
<1>3. NearestOf(S, b.lsib[el], None, "back")
  BY TreeLinks
<1>4. Chain(S, b.lsib, None, "back")
  <2>1. SUFFICES ASSUME NEW e \in S
                 PROVE  NearestOf(Rest(S, e, "back"), b.lsib[e], None, "back")
    BY DEF Chain
  <2>2. Beside(b, e) = Beside(b, el)
    BY <1>1, SistersBeside
  <2>3. Rest(S, e, "back") = {f \in Beside(b, e) : f < e}
    <3>1. Beside(b, el) \subseteq Nat /\ e \in Nat /\ el \in Nat /\ e < el
      BY <1>2, TreeElements DEF Beside, Below
    <3>2. QED  BY <2>2, <3>1 DEF Rest, Nearer
  <2>4. QED  BY <1>1, <2>3, TreeLinks
<1>5. Nearing(Int, Ends(b), b.lsib, RankBackward(b))
  BY LeftsAreSmaller, OnwardBackward
<1>6. None \in Ends(b)
  BY DEF Ends, None
<1> HIDE DEF S
<1>7. NthAlong(b, b.lsib, b.lsib[el], n, gi) = NthNamed(b, S, gi, None, n, "back")
  <2>1. Leads(b, b.lsib, RankBackward(b), b.lsib[el], S, None, "back")
    BY <1>1, <1>2, <1>3, <1>4, <1>5, <1>6 DEF Leads
  <2>2. QED  BY <2>1, NthOnChain
<1>8. QED  BY <1>7 DEF find_lsibling, S

\* The numbers before m and after m are chains of their own.
LEMMA NumbersNearest ==
  ASSUME NEW m \in Nat, NEW N \in Nat
  PROVE  /\ m > 0 => NearestOf(1 .. m - 1, m - 1, None, "back")
         /\ m < N => NearestOf(m + 1 .. N - 1, m + 1, N, "on")
<1>1. ASSUME m > 0 PROVE NearestOf(1 .. m - 1, m - 1, None, "back")
  <2>1. CASE m = 1
    BY <2>1 DEF NearestOf, None
  <2>2. CASE m # 1
    <3>1. m - 1 \in 1 .. m - 1 /\ \A f \in (1 .. m - 1) \ {m - 1} : m - 1 > f
      BY <1>1, <2>2
    <3>2. QED  BY <3>1 DEF NearestOf, Nearer
  <2>3. QED  BY <2>1, <2>2
<1>2. ASSUME m < N PROVE NearestOf(m + 1 .. N - 1, m + 1, N, "on")
  <2>1. CASE m + 1 = N
    BY <2>1 DEF NearestOf
  <2>2. CASE m + 1 # N
    <3>1. m + 1 \in m + 1 .. N - 1 /\ \A f \in (m + 1 .. N - 1) \ {m + 1} : m + 1 < f
      BY <1>2, <2>2
    <3>2. QED  BY <3>1 DEF NearestOf, Nearer
  <2>3. QED  BY <2>1, <2>2
<1>3. QED  BY <1>1, <1>2

\* Through the elements before, to the root.
LEMMA PrevElIs ==
  ASSUME NEW b, IsTree(b), NEW el \in Elements(b), NEW n \in Int, NEW gi
  PROVE  find_prev_el(b, el, n, gi) = NthNamed(b, 1 .. el - 1, gi, None, n, "back")
<1> DEFINE S == 1 .. el - 1
<1>1. S \in SUBSET (Elements(b) \ {0}) /\ S \subseteq Elements(b)
  BY TreeElements
<1>2. IsFiniteSet(S) /\ S \subseteq Nat
  BY <1>1, SearchedSets
<1>3. el \in Nat /\ \A e \in Elements(b) : Before(b)[e] = IF e = 0 THEN 0 ELSE e - 1
  BY TreeElements DEF Before, None
<1>4. NearestOf(S, Before(b)[el], None, "back")
  <2>1. CASE el = 0
    <3>1. S = {} /\ Before(b)[el] = None
      BY <1>3, <2>1 DEF None
    <3>2. QED  BY <3>1 DEF NearestOf
  <2>2. CASE el # 0
    BY <1>3, <2>2, NumbersNearest
  <2>3. QED  BY <2>1, <2>2
<1>5. Chain(S, Before(b), None, "back")
  <2>1. SUFFICES ASSUME NEW e \in S
                 PROVE  NearestOf(Rest(S, e, "back"), Before(b)[e], None, "back")
    BY DEF Chain
  <2>2. e \in 1 .. el - 1 /\ e \in Elements(b) /\ e \in Nat
    BY <1>1, <1>2
  <2>3. Rest(S, e, "back") = 1 .. e - 1
    BY <1>3, <2>2 DEF Rest, Nearer
  <2>4. Before(b)[e] = e - 1
    BY <1>3, <2>2
  <2>5. NearestOf(1 .. e - 1, e - 1, None, "back")
    BY <2>2, NumbersNearest
  <2>6. QED  BY <2>3, <2>4, <2>5
<1>6. Nearing(Int, Ends(b), Before(b), RankBackward(b))
  <2>1. \A e \in Elements(b) \ {0} : Before(b)[e] \in Nat /\ Before(b)[e] < e
    BY <1>3, TreeElements
  <2>2. QED  BY <2>1, OnwardBackward
<1>7. None \in Ends(b)
  BY DEF Ends, None
<1> HIDE DEF S
<1>8. NthAlong(b, Before(b), Before(b)[el], n, gi) = NthNamed(b, S, gi, None, n, "back")
  <2>1. Leads(b, Before(b), RankBackward(b), Before(b)[el], S, None, "back")
    BY <1>1, <1>2, <1>4, <1>5, <1>6, <1>7 DEF Leads
  <2>2. QED  BY <2>1, NthOnChain
<1>9. QED  BY <1>8 DEF find_prev_el, S

\* Through the elements after, and past the last of them.
LEMMA NextElIs ==
  ASSUME NEW b, IsTree(b), NEW el \in Elements(b), NEW n \in Int, NEW gi
  PROVE  find_next_el(b, el, n, gi) =
           NthNamed(b, {e \in Elements(b) : e > el}, gi, no_elements(b), n, "on")
<1> DEFINE S == {e \in Elements(b) : e > el}
           N == no_elements(b)
<1>1. N \in Nat \ {0} /\ Elements(b) = 0 .. N - 1 /\ el \in 0 .. N - 1
  BY TreeElements
<1>2. S \in SUBSET (Elements(b) \ {0}) /\ S \subseteq Elements(b) /\ S = el + 1 .. N - 1
  BY <1>1
<1>3. IsFiniteSet(S) /\ S \subseteq Nat
  BY <1>2, SearchedSets
<1>4. \A e \in Elements(b) : After(b)[e] = e + 1
  BY DEF After
<1>5. NearestOf(S, After(b)[el], N, "on")
  <2>1. After(b)[el] = el + 1
    BY <1>4
  <2> HIDE DEF N, S
  <2>2. NearestOf(el + 1 .. N - 1, el + 1, N, "on")
    BY <1>1, NumbersNearest
  <2>3. QED  BY <1>2, <2>1, <2>2
<1>6. Chain(S, After(b), N, "on")
  <2>1. SUFFICES ASSUME NEW e \in S
                 PROVE  NearestOf(Rest(S, e, "on"), After(b)[e], N, "on")
    BY DEF Chain
  <2>2. e \in Elements(b) /\ After(b)[e] = e + 1 /\ e \in el + 1 .. N - 1
    BY <1>2, <1>4
  <2> HIDE DEF N, S
  <2>3. Rest(S, e, "on") = e + 1 .. N - 1
    BY <1>1, <1>2, <2>2 DEF Rest, Nearer
  <2>4. NearestOf(e + 1 .. N - 1, e + 1, N, "on")
    BY <1>1, <2>2, NumbersNearest
  <2>5. QED  BY <2>2, <2>3, <2>4
<1>7. Nearing(Int, Ends(b), After(b), RankForward(b))
  <2>1. \A e \in Elements(b) \ {0} : After(b)[e] \in Int /\ After(b)[e] > e
    <3>1. \A e \in Elements(b) : e + 1 \in Int /\ e + 1 > e
      BY <1>1
    <3>2. QED  BY <1>4, <3>1
  <2>2. QED  BY <2>1, OnwardForward
<1>8. N \in Ends(b)
  BY <1>1 DEF Ends
<1> HIDE DEF S, N
<1>9. NthAlong(b, After(b), After(b)[el], n, gi) = NthNamed(b, S, gi, N, n, "on")
  <2>1. Leads(b, After(b), RankForward(b), After(b)[el], S, N, "on")
    BY <1>2, <1>3, <1>5, <1>6, <1>7, <1>8 DEF Leads
  <2>2. QED  BY <2>1, NthOnChain
<1>10. QED  BY <1>9 DEF find_next_el, S, N

(***************************************************************************)
(* The elements above an element                                           *)
(***************************************************************************)
\* The equation of Above.
LEMMA AboveStep ==
  ASSUME IsTree(book), NEW el \in Els
  PROVE  Above(el) = IF el = 0 THEN {}
                     ELSE {book.ancestor[el]} \cup Above(book.ancestor[el])
<1> DEFINE V == SUBSET Els
           anc == book.ancestor
           rank == [e \in Els |-> e]
           val == [e \in Els |-> {}]
           step == [e \in Els |-> [T \in V |-> {anc[e]} \cup T]]
           Body(f) == [e \in Els |-> IF e = 0 THEN {} ELSE {anc[e]} \cup f[anc[e]]]
<1>1. \A e \in Els : anc[e] \in Els /\ e \in Nat /\ (e # 0 => anc[e] < e)
  BY TreeLinks, TreeElements DEF Els
<1>2. Recursion(Els, V, {0}, anc, rank, val, step)
  BY <1>1 DEF Recursion, Nearing
<1>3. PICK f \in [Els -> V] : \A e \in Els : f[e] = StepAt({0}, anc, val, step, f, e)
  <2> HIDE DEF V, rank, val, step, anc
  <2>1. QED  BY <1>2, StepsExist
<1>4. f = Body(f)
  <2>1. ASSUME NEW e \in Els PROVE f[e] = Body(f)[e]
    <3>1. CASE e = 0
      BY <1>3, <3>1 DEF StepAt
    <3>2. CASE e # 0
      <4>1. f[anc[e]] \in V
        BY <1>1, <1>3
      <4>2. f[e] = step[e][f[anc[e]]]
        BY <1>3, <3>2 DEF StepAt
      <4>3. QED  BY <3>2, <4>1, <4>2
    <3>3. QED  BY <3>1, <3>2
  <2>2. f = [e \in Els |-> f[e]]
    BY <1>3
  <2>3. QED  BY <2>1, <2>2
<1> DEFINE above == CHOOSE g : g = Body(g)
<1>5. above = Body(above)
  BY <1>4
<1>6. \A e : Above(e) = above[e]
  BY DEF Above
<1> HIDE DEF above
<1>7. above[el] = Body(above)[el]
  BY <1>5
<1>8. QED  BY <1>6, <1>7

\* They have smaller numbers, and those smaller than one of them are above it.
LEMMA AboveChain ==
  ASSUME IsTree(book), NEW el \in Els
  PROVE  /\ \A x \in Above(el) : x \in Els /\ x < el
         /\ \A x \in Above(el) : {y \in Above(el) : y < x} = Above(x)
<1> DEFINE anc == book.ancestor
           Smaller(e) == \A x \in Above(e) : x \in Els /\ x < e
           Nested(e) == \A x \in Above(e) : {y \in Above(e) : y < x} = Above(x)
           W == {e \in Els : ~(Smaller(e) /\ Nested(e))}
<1>1. \A e \in Els : anc[e] \in Els /\ e \in Nat /\ (e # 0 => anc[e] < e)
  BY TreeLinks, TreeElements DEF Els
<1>2. W = {}
  <2>1. SUFFICES ASSUME W # {} PROVE FALSE
    OBVIOUS
  <2>2. PICK e \in W : \A y \in W : e <= y
    <3>1. W \in SUBSET Nat
      BY <1>1
    <3> HIDE DEF W
    <3>2. QED  BY <2>1, <3>1, MinIsLeast
  <2>3. CASE e = 0
    <3>1. Above(e) = {}
      BY <2>3, AboveStep
    <3>2. QED  BY <2>2, <3>1
  <2>4. CASE e # 0
    <3> DEFINE a == anc[e]
    <3>1. e \in Els /\ a \in Els /\ a < e /\ a \in Nat /\ e \in Nat
      BY <1>1, <2>2, <2>4
    <3>2. a \notin W
      BY <2>2, <3>1
    <3>3. Smaller(a) /\ Nested(a)
      BY <3>1, <3>2
    <3>4. Above(e) = {a} \cup Above(a)
      BY <2>4, <3>1, AboveStep
    <3> HIDE DEF a
    <3>5. Smaller(e)
      <4>1. ASSUME NEW x \in Above(a) PROVE x \in Nat /\ x < e
        <5>1. x \in Els /\ x < a
          BY <3>3
        <5>2. x \in Nat
          BY <1>1, <5>1
        <5>3. QED  BY <3>1, <5>1, <5>2
      <4>2. QED  BY <3>1, <3>3, <3>4, <4>1
    <3>6. ASSUME NEW x \in Above(e)
          PROVE  {y \in Above(e) : y < x} = Above(x)
      <4>1. \A y \in Above(a) : y \in Nat /\ y < a
        BY <1>1, <3>3
      <4>2. CASE x = a
        <5>1. {y \in Above(e) : y < a} = Above(a)
          BY <3>1, <3>4, <4>1
        <5>2. QED  BY <4>2, <5>1
      <4>3. CASE x # a
        <5>1. x \in Above(a) /\ x \in Nat /\ x < a
          BY <3>4, <3>6, <4>1, <4>3
        <5>2. {y \in Above(e) : y < x} = {y \in Above(a) : y < x}
          BY <3>1, <3>4, <5>1
        <5>3. QED  BY <3>3, <5>1, <5>2
      <4>4. QED  BY <4>2, <4>3
    <3>7. QED  BY <2>2, <3>5, <3>6
  <2>5. QED  BY <2>3, <2>4
<1>3. QED  BY <1>2

\* Up through all of them but the root.
LEMMA AncestorIs ==
  ASSUME IsTree(book), NEW el \in Els, NEW n \in Int, NEW gi
  PROVE  find_ancestor(book, el, n, gi) =
           NthNamed(book, Above(el) \ {0}, gi, None, n, "back")
<1> DEFINE S == Above(el) \ {0}
           anc == book.ancestor
<1>1. \A e \in Els : anc[e] \in Els /\ e \in Nat /\ (e # 0 => anc[e] < e)
                    /\ (e = 0 => anc[e] = 0)
  BY TreeLinks, TreeElements DEF Els
<1>2. S \in SUBSET (Els \ {0}) /\ S \subseteq Els /\ IsFiniteSet(S) /\ S \subseteq Nat
  <2>1. S \subseteq Els \ {0}
    BY AboveChain
  <2>2. S \in SUBSET Elements(book)
    BY <2>1 DEF Els
  <2> HIDE DEF S
  <2>3. QED  BY <2>1, <2>2, SearchedSets
<1>3. ASSUME NEW e \in Els
      PROVE  NearestOf(Above(e) \ {0}, anc[e], None, "back")
  <2>1. CASE anc[e] = 0
    <3>1. Above(e) \ {0} = {}
      <4>1. CASE e = 0
        BY <4>1, AboveStep
      <4>2. CASE e # 0
        <5>1. 0 \in Els /\ Above(e) = {0} \cup Above(0) /\ Above(0) = {}
          BY <2>1, <4>2, AboveStep, TreeElements DEF Els
        <5>2. QED  BY <5>1
      <4>3. QED  BY <4>1, <4>2
    <3>2. QED  BY <2>1, <3>1 DEF NearestOf, None
  <2>2. CASE anc[e] # 0
    <3>1. e # 0 /\ anc[e] \in Els
      BY <1>1, <2>2
    <3>2. Above(e) = {anc[e]} \cup Above(anc[e])
      BY <3>1, AboveStep
    <3>3. \A x \in Above(anc[e]) : anc[e] > x
      <4>1. \A x \in Above(anc[e]) : x \in Els /\ x < anc[e]
        BY <3>1, AboveChain
      <4>2. \A x \in Els : x \in Nat
        BY <1>1
      <4>3. QED  BY <3>1, <4>1, <4>2
    <3>4. QED  BY <2>2, <3>2, <3>3 DEF NearestOf, Nearer
  <2>3. QED  BY <2>1, <2>2
<1>4. Chain(S, anc, None, "back")
  <2>1. SUFFICES ASSUME NEW e \in S
                 PROVE  NearestOf(Rest(S, e, "back"), anc[e], None, "back")
    BY DEF Chain
  <2>2. {y \in Above(el) : y < e} = Above(e)
    BY AboveChain
  <2>3. Rest(S, e, "back") = Above(e) \ {0}
    <3>1. \A f \in S : f \in Nat
      BY <1>2
    <3>2. Rest(S, e, "back") = {f \in S : f < e}
      <4> HIDE DEF S
      <4>1. QED  BY <3>1 DEF Rest, Nearer
    <3>3. {f \in S : f < e} = {y \in Above(el) : y < e} \ {0}
      OBVIOUS
    <3>4. QED  BY <2>2, <3>2, <3>3
  <2>4. QED  BY <1>2, <1>3, <2>3
<1>5. Nearing(Int, Ends(book), anc, RankBackward(book))
  <2>1. \A e \in Elements(book) \ {0} : anc[e] \in Nat /\ anc[e] < e
    BY <1>1 DEF Els
  <2>2. QED  BY <2>1, OnwardBackward
<1>6. None \in Ends(book)
  BY DEF Ends, None
<1>7. NearestOf(S, anc[el], None, "back")
  BY <1>3
<1> HIDE DEF S
<1>8. NthAlong(book, anc, anc[el], n, gi) = NthNamed(book, S, gi, None, n, "back")
  <2>1. Leads(book, anc, RankBackward(book), anc[el], S, None, "back")
    BY <1>2, <1>4, <1>5, <1>6, <1>7 DEF Leads, Els
  <2>2. QED  BY <2>1, NthOnChain
<1>9. QED  BY <1>8 DEF find_ancestor, S

(***************************************************************************)
(* The arguments of a command                                              *)
(***************************************************************************)
\* One element up or none.
LEMMA ParentIs ==
  ASSUME NEW b, IsTree(b), NEW el \in Elements(b), NEW n, NEW gi
  PROVE  /\ find_parent(b, el, n, gi) \in Elements(b)
         /\ find_parent(b, el, n, gi) =
              IF b.ancestor[el] # 0 /\ gi = b.gi[b.ancestor[el]] THEN b.ancestor[el] ELSE 0
<1>1. b.ancestor[el] \in Elements(b) /\ 0 \in Elements(b)
  BY TreeLinks, TreeElements
<1>2. QED  BY <1>1 DEF find_parent, None

\* The n-th of a set is in it, and the n-th of a name is, or there is none.
LEMMA NthNamedIn ==
  ASSUME NEW b, IsTree(b), NEW T, T \subseteq Elements(b), NEW gi, NEW n, NEW way
  PROVE  LET r == NthNamed(b, T, gi, None, n, way)
         IN r = 0 \/ (r \in T /\ Matches(b, r, gi))
<1> DEFINE nth == Nth({x \in T : Matches(b, x, gi)}, n, way)
<1>1. CASE nth = {}
  BY <1>1 DEF NthNamed, None
<1>2. CASE nth # {}
  <2>1. nth \subseteq T /\ \A x \in nth : Matches(b, x, gi)
    BY DEF Nth
  <2>2. nth \in SUBSET Nat /\ \A x \in nth : x <= no_elements(b)
    <3>1. \A x \in Elements(b) : x \in Nat /\ x <= no_elements(b)
      BY TreeElements
    <3> HIDE DEF nth
    <3>2. QED  BY <2>1, <3>1
  <2>3. no_elements(b) \in Nat
    BY TreeElements
  <2>4. NthNamed(b, T, gi, None, n, way) = Max(nth)
    BY <1>2 DEF NthNamed
  <2> HIDE DEF nth
  <2>5. Max(nth) \in nth
    BY <1>2, <2>2, <2>3, MaxIsGreatest
  <2>6. QED  BY <2>1, <2>4, <2>5
<1>3. QED  BY <1>1, <1>2

\* What a walk along a path leaves after each of its names.
Walk(el, found, w) ==
  w = [i \in Nat |->
         IF i = 0 THEN [el |-> el, missed |-> FALSE]
         ELSE [el |-> IF found[i][w[i - 1].el] = None THEN w[i - 1].el
                      ELSE found[i][w[i - 1].el],
               missed |-> w[i - 1].missed \/ found[i][w[i - 1].el] = None]]

\* There is one.
LEMMA WalkExists ==
  ASSUME NEW E, NEW el \in E, NEW found, \A i \in Nat : \A e \in E : found[i][e] \in E
  PROVE  \E w \in [Nat -> [el : E, missed : BOOLEAN]] : Walk(el, found, w)
<1> DEFINE V == [el : E, missed : BOOLEAN]
           rank == [i \in Nat |-> i]
           before == [i \in Nat |-> i - 1]
           val == [i \in Nat |-> [el |-> el, missed |-> FALSE]]
           step == [i \in Nat |-> [q \in V |->
                     [el |-> IF found[i][q.el] = None THEN q.el ELSE found[i][q.el],
                      missed |-> q.missed \/ found[i][q.el] = None]]]
<1>1. Recursion(Nat, V, {0}, before, rank, val, step)
  <2>1. \A i \in Nat : val[i] \in V
    OBVIOUS
  <2>2. \A i \in Nat : \A v \in V : step[i][v] \in V
    OBVIOUS
  <2>3. Nearing(Nat, {0}, before, rank)
    BY DEF Nearing
  <2> HIDE DEF V, val, step, before, rank
  <2>4. QED  BY <2>1, <2>2, <2>3 DEF Recursion
<1>2. PICK w \in [Nat -> V] :
        \A i \in Nat : w[i] = StepAt({0}, before, val, step, w, i)
  <2> HIDE DEF V, val, step, before, rank
  <2>1. QED  BY <1>1, StepsExist
<1>3. ASSUME NEW i \in Nat
      PROVE  w[i] = IF i = 0 THEN [el |-> el, missed |-> FALSE]
                    ELSE [el |-> IF found[i][w[i - 1].el] = None THEN w[i - 1].el
                                 ELSE found[i][w[i - 1].el],
                          missed |-> w[i - 1].missed \/ found[i][w[i - 1].el] = None]
  <2>1. CASE i = 0
    BY <1>2, <2>1 DEF StepAt
  <2>2. CASE i # 0
    <3>1. i - 1 \in Nat /\ w[i - 1] \in V /\ before[i] = i - 1
      BY <1>2, <2>2
    <3>2. w[i] = step[i][w[i - 1]]
      BY <1>2, <2>2, <3>1 DEF StepAt
    <3>3. QED  BY <2>2, <3>1, <3>2
  <2>3. QED  BY <2>1, <2>2
<1>4. w = [i \in Nat |-> w[i]]
  BY <1>2
<1>5. Walk(el, found, w)
  BY <1>3, <1>4 DEF Walk
<1>6. QED  BY <1>2, <1>5

\* The index of the last name that is only passed.
Passed(path) == IF path = <<>> THEN 0 ELSE Len(path) - 1

\* What the walk finds of each name from each element, down and up.
Downs(b, path) ==
  [i \in Nat |-> [e \in Elements(b) |-> find_child(b, e, 1, path[i])]]
Ups(b, path) ==
  [i \in Nat |-> [e \in Elements(b) |-> find_parent(b, e, 1, path[i])]]

\* Qualify is the walk as far as the last name but one: down.
LEMMA QualifyDown ==
  ASSUME NEW b, IsTree(b), NEW el \in Elements(b), NEW path
  PROVE  \E w \in [Nat -> [el : Elements(b), missed : BOOLEAN]] :
           /\ Walk(el, Downs(b, path), w)
           /\ Qualify(b, find_child, el, path) = w[Passed(path)]
<1> DEFINE E == Elements(b)
           Body(f) ==
             [i \in Nat |->
                IF i = 0 THEN [el |-> el, missed |-> FALSE]
                ELSE LET q == f[i - 1]
                         r == find_child(b, q.el, 1, path[i])
                     IN [el |-> IF r = None THEN q.el ELSE r,
                         missed |-> q.missed \/ r = None]]
           w == CHOOSE f : f = Body(f)
<1>1. \A i \in Nat : \A e \in E : /\ Downs(b, path)[i][e] = find_child(b, e, 1, path[i])
                                 /\ Downs(b, path)[i][e] \in E
  <2>1. SUFFICES ASSUME NEW i \in Nat, NEW e \in E
                 PROVE  find_child(b, e, 1, path[i]) \in E
    BY DEF Downs
  <2>2. find_child(b, e, 1, path[i]) = NthNamed(b, Below(b, e), path[i], None, 1, "on")
    BY ChildIs
  <2>3. Below(b, e) \subseteq E /\ 0 \in E
    BY TreeElements DEF Below
  <2>4. QED  BY <2>2, <2>3, NthNamedIn
<1>2. PICK f \in [Nat -> [el : E, missed : BOOLEAN]] : Walk(el, Downs(b, path), f)
  <2>1. \A i \in Nat : \A e \in E : Downs(b, path)[i][e] \in E
    BY <1>1
  <2> HIDE DEF E
  <2>2. QED  BY <2>1, WalkExists DEF E
<1>3. ASSUME NEW g \in [Nat -> [el : E, missed : BOOLEAN]]
      PROVE  Walk(el, Downs(b, path), g) <=> g = Body(g)
  <2>1. ASSUME NEW i \in Nat, i # 0
        PROVE  Downs(b, path)[i][g[i - 1].el] = find_child(b, g[i - 1].el, 1, path[i])
    <3>1. g[i - 1].el \in E
      BY <2>1
    <3>2. QED  BY <1>1, <3>1
  <2>2. QED  BY <2>1 DEF Walk
<1>4. f = Body(f)
  BY <1>2, <1>3
<1>5. w = Body(w)
  BY <1>4
<1>6. Qualify(b, find_child, el, path) = w[Passed(path)]
  BY DEF Qualify, Passed
<1> HIDE DEF w
<1>7. ASSUME NEW i \in Nat
      PROVE  w[i] = IF i = 0 THEN [el |-> el, missed |-> FALSE]
                    ELSE LET q == w[i - 1]
                             r == find_child(b, q.el, 1, path[i])
                         IN [el |-> IF r = None THEN q.el ELSE r,
                             missed |-> q.missed \/ r = None]
  <2>1. w[i] = Body(w)[i]
    BY <1>5
  <2>2. QED  BY <2>1
<1>8. w \in [Nat -> [el : E, missed : BOOLEAN]]
  <2> DEFINE V == [el : E, missed : BOOLEAN]
             W == {i \in Nat : w[i] \notin V}
  <2>1. W = {}
    <3>1. SUFFICES ASSUME W # {} PROVE FALSE
      OBVIOUS
    <3>2. PICK i \in W : \A j \in W : i <= j
      <4>1. W \in SUBSET Nat
        OBVIOUS
      <4> HIDE DEF W
      <4>2. QED  BY <3>1, <4>1, MinIsLeast
    <3>3. i # 0
      <4>1. w[0] = [el |-> el, missed |-> FALSE]
        BY <1>7
      <4>2. w[0] \in V
        BY <4>1
      <4>3. QED  BY <3>2, <4>2
    <3>4. i - 1 \in Nat /\ w[i - 1] \in V
      BY <3>2, <3>3
    <3> DEFINE q == w[i - 1]
               r == find_child(b, q.el, 1, path[i])
    <3>5. r \in E
      BY <1>1, <3>2, <3>4
    <3>6. w[i] = [el |-> IF r = None THEN q.el ELSE r, missed |-> q.missed \/ r = None]
      BY <1>7, <3>2, <3>3
    <3> HIDE DEF r
    <3>7. w[i] \in V
      BY <3>4, <3>5, <3>6
    <3>8. QED  BY <3>2, <3>7
  <2>2. w = [i \in Nat |-> w[i]]
    BY <1>5
  <2>3. QED  BY <2>1, <2>2
<1>9. Walk(el, Downs(b, path), w)
  BY <1>3, <1>5, <1>8
<1>10. QED  BY <1>6, <1>8, <1>9

\* And up.
LEMMA QualifyUp ==
  ASSUME NEW b, IsTree(b), NEW el \in Elements(b), NEW path
  PROVE  \E w \in [Nat -> [el : Elements(b), missed : BOOLEAN]] :
           /\ Walk(el, Ups(b, path), w)
           /\ Qualify(b, find_parent, el, path) = w[Passed(path)]
<1> DEFINE E == Elements(b)
           Body(f) ==
             [i \in Nat |->
                IF i = 0 THEN [el |-> el, missed |-> FALSE]
                ELSE LET q == f[i - 1]
                         r == find_parent(b, q.el, 1, path[i])
                     IN [el |-> IF r = None THEN q.el ELSE r,
                         missed |-> q.missed \/ r = None]]
           w == CHOOSE f : f = Body(f)
<1>1. \A i \in Nat : \A e \in E : /\ Ups(b, path)[i][e] = find_parent(b, e, 1, path[i])
                                 /\ Ups(b, path)[i][e] \in E
  <2>1. SUFFICES ASSUME NEW i \in Nat, NEW e \in E
                 PROVE  find_parent(b, e, 1, path[i]) \in E
    BY DEF Ups
  <2>2. QED  BY ParentIs
<1>2. PICK f \in [Nat -> [el : E, missed : BOOLEAN]] : Walk(el, Ups(b, path), f)
  <2>1. \A i \in Nat : \A e \in E : Ups(b, path)[i][e] \in E
    BY <1>1
  <2> HIDE DEF E
  <2>2. QED  BY <2>1, WalkExists DEF E
<1>3. ASSUME NEW g \in [Nat -> [el : E, missed : BOOLEAN]]
      PROVE  Walk(el, Ups(b, path), g) <=> g = Body(g)
  <2>1. ASSUME NEW i \in Nat, i # 0
        PROVE  Ups(b, path)[i][g[i - 1].el] = find_parent(b, g[i - 1].el, 1, path[i])
    <3>1. g[i - 1].el \in E
      BY <2>1
    <3>2. QED  BY <1>1, <3>1
  <2>2. QED  BY <2>1 DEF Walk
<1>4. f = Body(f)
  BY <1>2, <1>3
<1>5. w = Body(w)
  BY <1>4
<1>6. Qualify(b, find_parent, el, path) = w[Passed(path)]
  BY DEF Qualify, Passed
<1> HIDE DEF w
<1>7. ASSUME NEW i \in Nat
      PROVE  w[i] = IF i = 0 THEN [el |-> el, missed |-> FALSE]
                    ELSE LET q == w[i - 1]
                             r == find_parent(b, q.el, 1, path[i])
                         IN [el |-> IF r = None THEN q.el ELSE r,
                             missed |-> q.missed \/ r = None]
  <2>1. w[i] = Body(w)[i]
    BY <1>5
  <2>2. QED  BY <2>1
<1>8. w \in [Nat -> [el : E, missed : BOOLEAN]]
  <2> DEFINE V == [el : E, missed : BOOLEAN]
             W == {i \in Nat : w[i] \notin V}
  <2>1. W = {}
    <3>1. SUFFICES ASSUME W # {} PROVE FALSE
      OBVIOUS
    <3>2. PICK i \in W : \A j \in W : i <= j
      <4>1. W \in SUBSET Nat
        OBVIOUS
      <4> HIDE DEF W
      <4>2. QED  BY <3>1, <4>1, MinIsLeast
    <3>3. i # 0
      <4>1. w[0] = [el |-> el, missed |-> FALSE]
        BY <1>7
      <4>2. w[0] \in V
        BY <4>1
      <4>3. QED  BY <3>2, <4>2
    <3>4. i - 1 \in Nat /\ w[i - 1] \in V
      BY <3>2, <3>3
    <3> DEFINE q == w[i - 1]
               r == find_parent(b, q.el, 1, path[i])
    <3>5. r \in E
      BY <1>1, <3>2, <3>4
    <3>6. w[i] = [el |-> IF r = None THEN q.el ELSE r, missed |-> q.missed \/ r = None]
      BY <1>7, <3>2, <3>3
    <3> HIDE DEF r
    <3>7. w[i] \in V
      BY <3>4, <3>5, <3>6
    <3>8. QED  BY <3>2, <3>7
  <2>2. w = [i \in Nat |-> w[i]]
    BY <1>5
  <2>3. QED  BY <2>1, <2>2
<1>9. Walk(el, Ups(b, path), w)
  BY <1>3, <1>5, <1>8
<1>10. QED  BY <1>6, <1>8, <1>9

\* The names that procedures give.
Names == STRING \ {NoName}

\* The number and the path of arguments that are accepted.
LEMMA ArgumentsAre ==
  ASSUME NEW args \in Seq([is_num : BOOLEAN, num : Int, path : Seq(Names)])
  PROVE  Arguments(args).num \in Int /\ Arguments(args).path \in Seq(Names)
<1> DEFINE nums == {i \in 1 .. Len(args) : args[i].is_num}
           strs == 1 .. Len(args) \ nums
<1>1. Len(args) \in Nat /\ DOMAIN args = 1 .. Len(args)
  OBVIOUS
<1>2. nums # {} => Max(nums) \in 1 .. Len(args)
  <2>1. nums \in SUBSET Nat /\ \A i \in nums : i <= Len(args) /\ i \in 1 .. Len(args)
    OBVIOUS
  <2> HIDE DEF nums
  <2>2. QED  BY <1>1, <2>1, MaxIsGreatest
<1>3. strs # {} => Max(strs) \in 1 .. Len(args)
  <2>1. strs \in SUBSET Nat /\ \A i \in strs : i <= Len(args) /\ i \in 1 .. Len(args)
    OBVIOUS
  <2> HIDE DEF strs
  <2>2. QED  BY <1>1, <2>1, MaxIsGreatest
<1>4. \A i \in 1 .. Len(args) : args[i].num \in Int /\ args[i].path \in Seq(Names)
  <2>1. \A i \in 1 .. Len(args) :
          args[i] \in [is_num : BOOLEAN, num : Int, path : Seq(Names)]
    <3>1. PICK R : R = [is_num : BOOLEAN, num : Int, path : Seq(Names)]
      OBVIOUS
    <3>2. args \in Seq(R)
      BY <3>1
    <3>3. \A i \in 1 .. Len(args) : args[i] \in R
      BY <3>2
    <3>4. QED  BY <3>1, <3>3
  <2>2. ASSUME NEW r \in [is_num : BOOLEAN, num : Int, path : Seq(Names)]
        PROVE  r.num \in Int /\ r.path \in Seq(Names)
    OBVIOUS
  <2>3. QED  BY <2>1, <2>2
<1>5. <<>> \in Seq(Names)
  OBVIOUS
<1>6. /\ Arguments(args).num = IF nums = {} THEN 1 ELSE args[Max(nums)].num
      /\ Arguments(args).path = IF strs = {} THEN <<>> ELSE args[Max(strs)].path
  BY DEF Arguments
<1> HIDE DEF nums, strs
<1>7. Arguments(args).num \in Int
  BY <1>2, <1>4, <1>6
<1>8. Arguments(args).path \in Seq(Names)
  <2>1. CASE strs = {}
    BY <1>5, <1>6, <2>1
  <2>2. CASE strs # {}
    BY <1>3, <1>4, <1>6, <2>2
  <2>3. QED  BY <2>1, <2>2
<1>9. QED  BY <1>7, <1>8

\* A path of at most one name is that name.
LEMMA OneName ==
  ASSUME NEW path \in Seq(Names), Len(path) <= 1
  PROVE  LastName(path) = Name(path) /\ Passed(path) = 0
<1>1. CASE path = <<>>
  BY <1>1 DEF LastName, Name, Passed
<1>2. CASE path # <<>>
  <2>1. Len(path) = 1
    <3>1. Len(path) \in Nat \ {0}
      BY <1>2, EmptySeq
    <3>2. PICK k \in Nat : k = Len(path) /\ k # 0
      BY <3>1
    <3>3. k <= 1
      BY <3>2
    <3>4. QED  BY <3>2, <3>3
  <2>2. QED  BY <1>2, <2>1 DEF LastName, Name, Passed
<1>3. QED  BY <1>1, <1>2

(***************************************************************************)
(* What the commands that find elements answer                             *)
(***************************************************************************)
\* Each command finds the n-th of the name of what it looks through.
LEMMA AnswerIs ==
  ASSUME IsTree(book), NEW cmd \in Agreed, NEW el \in Els, NEW args,
         args \in Seq([is_num : BOOLEAN, num : Int, path : Seq(Names)]),
         Arguments(args).ok, Len(Arguments(args).path) <= 1
  PROVE  Answer(cmd, el, args) =
           NthNamed(book, Sought(cmd, el), Name(Arguments(args).path), None,
                    Arguments(args).num, Way(cmd))
<1> DEFINE a == Arguments(args)
           gi == Name(a.path)
<1>1. el \in Elements(book) /\ is_valid_el(book, el)
  BY TreeElements DEF Els, is_valid_el, get_next_sgml_obj
<1>2. a.num \in Int /\ a.path \in Seq(Names) /\ a.ok
  BY ArgumentsAre
<1>3. LastName(a.path) = gi /\ Passed(a.path) = 0
  BY <1>2, OneName
<1>4. /\ Qualify(book, find_child, el, a.path) = [el |-> el, missed |-> FALSE]
      /\ Qualify(book, find_parent, el, a.path) = [el |-> el, missed |-> FALSE]
  <2>1. PICK w : /\ Walk(el, Downs(book, a.path), w)
                 /\ Qualify(book, find_child, el, a.path) = w[Passed(a.path)]
    BY <1>1, QualifyDown
  <2>2. PICK v : /\ Walk(el, Ups(book, a.path), v)
                 /\ Qualify(book, find_parent, el, a.path) = v[Passed(a.path)]
    BY <1>1, QualifyUp
  <2> HIDE DEF a, gi
  <2>3. w[0] = [el |-> el, missed |-> FALSE] /\ v[0] = [el |-> el, missed |-> FALSE]
    BY <2>1, <2>2 DEF Walk
  <2>4. QED  BY <1>3, <2>1, <2>2, <2>3
<1> HIDE DEF gi
<1>5. CASE cmd = "ancestor"
  <2>1. Answer(cmd, el, args) = find_ancestor(book, el, a.num, gi)
    BY <1>1, <1>2, <1>3, <1>4, <1>5 DEF Answer, get_ana_ancestor, Qualified
  <2>2. Sought(cmd, el) = Above(el) \ {0} /\ Way(cmd) = "back"
    BY <1>5 DEF Sought, Way
  <2> HIDE DEF a
  <2>3. QED  BY <1>2, <2>1, <2>2, AncestorIs DEF a, gi
<1>6. CASE cmd = "leftSibling"
  <2>1. Answer(cmd, el, args) = find_lsibling(book, el, a.num, gi)
    BY <1>1, <1>2, <1>6 DEF Answer, get_ana_lsibling, Plain, gi
  <2>2. Sought(cmd, el) = {e \in Beside(book, el) : e < el} /\ Way(cmd) = "back"
    BY <1>6 DEF Sought, Way
  <2>3. QED  BY <1>1, <1>2, <2>1, <2>2, LSiblingIs DEF gi
<1>7. CASE cmd = "rightSibling"
  <2>1. Answer(cmd, el, args) = find_rsibling(book, el, a.num, gi)
    BY <1>1, <1>2, <1>7 DEF Answer, get_ana_rsibling, Plain, gi
  <2>2. Sought(cmd, el) = {e \in Beside(book, el) : e > el} /\ Way(cmd) = "on"
    BY <1>7 DEF Sought, Way
  <2>3. QED  BY <1>1, <1>2, <2>1, <2>2, RSiblingIs DEF gi
<1>8. CASE cmd = "child"
  <2>1. Answer(cmd, el, args) = find_child(book, el, a.num, gi)
    BY <1>1, <1>2, <1>3, <1>4, <1>8 DEF Answer, get_ana_child, Qualified
  <2>2. Sought(cmd, el) = Below(book, el) /\ Way(cmd) = "on"
    BY <1>8 DEF Sought, Way
  <2>3. QED  BY <1>1, <1>2, <2>1, <2>2, ChildIs DEF gi
<1>10. CASE cmd = "previous"
  <2>1. Answer(cmd, el, args) = find_prev_el(book, el, a.num, gi)
    BY <1>1, <1>2, <1>10 DEF Answer, get_ana_previous_el, Plain, gi
  <2>2. Sought(cmd, el) = 1 .. el - 1 /\ Way(cmd) = "back"
    BY <1>10 DEF Sought, Way
  <2>3. QED  BY <1>1, <1>2, <2>1, <2>2, PrevElIs DEF gi
<1>11. CASE cmd = "next"
  <2> DEFINE N == no_elements(book)
             S == {e \in Elements(book) : e > el}
             nth == Nth({e \in S : Matches(book, e, gi)}, a.num, "on")
  <2>1. Answer(cmd, el, args) = Max({None, find_next_el(book, el, a.num, gi)})
    BY <1>1, <1>2, <1>11 DEF Answer, get_ana_next_el, gi
  <2>2. Sought(cmd, el) = S /\ Way(cmd) = "on"
    BY <1>11 DEF Sought, Way, Els
  <2>3. find_next_el(book, el, a.num, gi) = NthNamed(book, S, gi, N, a.num, "on")
    BY <1>1, <1>2, NextElIs
  <2>4. N # None
    BY TreeElements DEF None
  <2>5. CASE nth = {}
    <3>1. NthNamed(book, S, gi, N, a.num, "on") = -1
      BY <2>4, <2>5 DEF NthNamed, Fail
    <3>2. Max({0, -1}) = 0
      BY MaxOfTwo
    <3>3. NthNamed(book, S, gi, None, a.num, "on") = 0
      BY <2>5 DEF NthNamed, None
    <3>4. QED  BY <2>1, <2>2, <2>3, <3>1, <3>2, <3>3 DEF None, gi
  <2>6. CASE nth # {}
    <3> DEFINE m == Max(nth)
    <3>1. /\ NthNamed(book, S, gi, N, a.num, "on") = m
          /\ NthNamed(book, S, gi, None, a.num, "on") = m
      BY <2>6 DEF NthNamed
    <3>2. m \in Nat
      <4>1. nth \subseteq S
        BY DEF Nth
      <4>2. nth \in SUBSET Nat /\ N \in Nat /\ \A x \in nth : x <= N
        <5>1. N \in Nat /\ \A x \in Elements(book) : x \in Nat /\ x <= N
          BY TreeElements
        <5> HIDE DEF nth
        <5>2. QED  BY <4>1, <5>1
      <4> HIDE DEF nth
      <4>3. m \in nth
        BY <2>6, <4>2, MaxIsGreatest
      <4>4. QED  BY <4>2, <4>3
    <3> HIDE DEF m
    <3>3. Max({0, m}) = m
      BY <3>2, MaxOfTwo
    <3>4. QED  BY <2>1, <2>2, <2>3, <3>1, <3>3 DEF None, gi
  <2>7. QED  BY <2>5, <2>6
<1>12. QED  BY <1>5, <1>6, <1>7, <1>8, <1>10, <1>11 DEF Commands, Agreed

(***************************************************************************)
(* Lists of lists                                                          *)
(***************************************************************************)
\* The recursive function of FlattenSeq: the first i lists, one after the other.
Joins(ss, out) ==
  /\ out[1] = ss[1]
  /\ \A i \in 2 .. Len(ss) : out[i] = out[i - 1] \o ss[i]

\* It has a value.
LEMMA FlattenIs ==
  ASSUME NEW A, NEW ss \in Seq(Seq(A)), Len(ss) # 0
  PROVE  \E out \in [1 .. Len(ss) -> Seq(A)] :
           Joins(ss, out) /\ FlattenSeq(ss) = out[Len(ss)]
<1> DEFINE S == 1 .. Len(ss)
           V == Seq(A)
           before == [i \in S |-> i - 1]
           rank == [i \in S |-> i]
           step == [i \in S |-> [v \in V |-> v \o ss[i]]]
           Body(f) == [i \in S |-> IF i = 1 THEN ss[i] ELSE f[i - 1] \o ss[i]]
<1>0. Len(ss) \in Nat /\ 1 \in S /\ Len(ss) \in S
  OBVIOUS
<1>1. Recursion(S, V, {1}, before, rank, ss, step)
  <2>1. Nearing(S, {1}, before, rank)
    BY <1>0 DEF Nearing
  <2>2. \A x \in S : ss[x] \in V
    OBVIOUS
  <2>3. ASSUME NEW x \in S \ {1}, NEW v \in V PROVE step[x][v] \in V
    <3>1. ss[x] \in V
      BY <2>2
    <3>2. v \o ss[x] \in V
      BY <3>1, ConcatProperties
    <3>3. QED  BY <3>2
  <2> HIDE DEF S, V, before, rank, step
  <2>4. QED  BY <2>1, <2>2, <2>3 DEF Recursion
<1>2. PICK f \in [S -> V] : \A x \in S : f[x] = StepAt({1}, before, ss, step, f, x)
  <2> HIDE DEF S, V, before, rank, step
  <2>1. QED  BY <1>1, StepsExist
<1>3. f = Body(f)
  <2>1. ASSUME NEW x \in S PROVE f[x] = Body(f)[x]
    <3>1. CASE x = 1
      BY <1>2, <3>1 DEF StepAt
    <3>2. CASE x # 1
      <4>1. x - 1 \in S /\ f[x - 1] \in V
        <5>1. x \in 1 .. Len(ss)
          OBVIOUS
        <5>2. x - 1 \in 1 .. Len(ss)
          BY <1>0, <3>2, <5>1
        <5> HIDE DEF V
        <5>3. QED  BY <1>2, <5>2
      <4>2. f[x] = step[x][f[x - 1]]
        BY <1>2, <3>2 DEF StepAt
      <4>3. QED  BY <3>2, <4>1, <4>2
    <3>3. QED  BY <3>1, <3>2
  <2>2. f = [x \in S |-> f[x]]
    BY <1>2
  <2>3. QED  BY <2>1, <2>2
<1> DEFINE out == CHOOSE g : g = Body(g)
<1>4. out = Body(out)
  BY <1>3
<1>5. FlattenSeq(ss) = out[Len(ss)]
  BY DEF FlattenSeq
<1> HIDE DEF out
<1>6. out[1] = ss[1]
  <2>1. Body(out)[1] = ss[1]
    BY <1>0
  <2>2. QED  BY <1>4, <2>1
<1>7. ASSUME NEW i \in 2 .. Len(ss) PROVE out[i] = out[i - 1] \o ss[i]
  <2>1. i \in S /\ i # 1
    BY <1>0
  <2>2. Body(out)[i] = out[i - 1] \o ss[i]
    BY <2>1
  <2>3. QED  BY <1>4, <2>2
<1>8. out \in [S -> V]
  <2> DEFINE W == {i \in S : out[i] \notin V}
  <2>1. W = {}
    <3>1. SUFFICES ASSUME W # {} PROVE FALSE
      OBVIOUS
    <3>2. PICK i \in W : \A j \in W : i <= j
      <4>1. W \in SUBSET Nat
        BY <1>0
      <4> HIDE DEF W
      <4>2. QED  BY <3>1, <4>1, MinIsLeast
    <3>3. i \in S /\ ss[i] \in V /\ out[i] \notin V
      OBVIOUS
    <3>4. i # 1
      BY <1>6, <3>3
    <3>5. i \in 2 .. Len(ss) /\ i - 1 \in S /\ ~ i <= i - 1
      BY <1>0, <3>3, <3>4
    <3>6. out[i - 1] \in V
      BY <3>2, <3>5
    <3>7. out[i - 1] \o ss[i] \in V
      BY <3>3, <3>6, ConcatProperties
    <3>8. QED  BY <1>7, <3>3, <3>5, <3>7
  <2>2. out = [i \in S |-> out[i]]
    BY <1>4
  <2>3. QED  BY <2>1, <2>2
<1>9. QED  BY <1>5, <1>6, <1>7, <1>8 DEF Joins

\* Two lists are equally long and what they have at a place is paired in R.
Paired(x, y, R) ==
  Len(x) = Len(y) /\ \A j \in 1 .. Len(x) : <<x[j], y[j]>> \in R

\* So are they when as long and paired lists are put behind them.
LEMMA PairedJoin ==
  ASSUME NEW A, NEW B, NEW R, NEW x \in Seq(A), NEW y \in Seq(B), Paired(x, y, R),
         NEW u \in Seq(A), NEW w \in Seq(B), Paired(u, w, R)
  PROVE  Paired(x \o u, y \o w, R)
<1>1. PICK m \in Nat, k \in Nat : m = Len(x) /\ m = Len(y) /\ k = Len(u) /\ k = Len(w)
  BY DEF Paired
<1>2. /\ Len(x \o u) = m + k
      /\ \A i \in 1 .. m + k : (x \o u)[i] = IF i <= m THEN x[i] ELSE u[i - m]
  <2>1. /\ Len(x \o u) = Len(x) + Len(u)
        /\ \A i \in 1 .. Len(x) + Len(u) :
             (x \o u)[i] = IF i <= Len(x) THEN x[i] ELSE u[i - Len(x)]
    BY ConcatProperties
  <2>2. QED  BY <1>1, <2>1
<1>3. /\ Len(y \o w) = m + k
      /\ \A i \in 1 .. m + k : (y \o w)[i] = IF i <= m THEN y[i] ELSE w[i - m]
  <2>1. /\ Len(y \o w) = Len(y) + Len(w)
        /\ \A i \in 1 .. Len(y) + Len(w) :
             (y \o w)[i] = IF i <= Len(y) THEN y[i] ELSE w[i - Len(y)]
    BY ConcatProperties
  <2>2. QED  BY <1>1, <2>1
<1>4. ASSUME NEW i \in 1 .. m + k PROVE <<(x \o u)[i], (y \o w)[i]>> \in R
  <2>1. CASE i <= m
    <3>1. i \in 1 .. m
      BY <2>1
    <3>2. QED  BY <1>1, <1>2, <1>3, <2>1, <3>1 DEF Paired
  <2>2. CASE ~(i <= m)
    <3>1. i - m \in 1 .. k
      BY <2>2
    <3>2. <<u[i - m], w[i - m]>> \in R
      BY <1>1, <3>1 DEF Paired
    <3>3. QED  BY <1>2, <1>3, <2>2, <3>2
  <2>3. QED  BY <2>1, <2>2
<1>5. QED  BY <1>2, <1>3, <1>4 DEF Paired

\* And so are the lists that are made of paired lists.
LEMMA PairedFlatten ==
  ASSUME NEW A, NEW B, NEW R, NEW xs \in Seq(Seq(A)), NEW ys \in Seq(Seq(B)),
         Len(xs) = Len(ys), \A i \in 1 .. Len(xs) : Paired(xs[i], ys[i], R)
  PROVE  /\ FlattenSeq(xs) \in Seq(A) /\ FlattenSeq(ys) \in Seq(B)
         /\ Paired(FlattenSeq(xs), FlattenSeq(ys), R)
<1>1. PICK n \in Nat : n = Len(xs) /\ n = Len(ys)
  OBVIOUS
<1>2. CASE n = 0
  <2>1. FlattenSeq(xs) = xs /\ FlattenSeq(ys) = ys
    BY <1>1, <1>2 DEF FlattenSeq
  <2>2. xs = <<>> /\ ys = <<>>
    BY <1>1, <1>2, EmptySeq
  <2>3. <<>> \in Seq(A) /\ <<>> \in Seq(B) /\ Len(<<>>) = 0
    BY EmptySeq
  <2>4. Paired(<<>>, <<>>, R)
    BY <2>3 DEF Paired
  <2>5. QED  BY <2>1, <2>2, <2>3, <2>4
<1>3. CASE n # 0
  <2>1. PICK f \in [1 .. n -> Seq(A)] : Joins(xs, f) /\ FlattenSeq(xs) = f[n]
    BY <1>1, <1>3, FlattenIs
  <2>2. PICK g \in [1 .. n -> Seq(B)] : Joins(ys, g) /\ FlattenSeq(ys) = g[n]
    BY <1>1, <1>3, FlattenIs
  <2> DEFINE W == {i \in 1 .. n : ~ Paired(f[i], g[i], R)}
  <2>3. W = {}
    <3>1. SUFFICES ASSUME W # {} PROVE FALSE
      OBVIOUS
    <3>2. PICK i \in W : \A j \in W : i <= j
      <4>1. W \in SUBSET Nat
        OBVIOUS
      <4> HIDE DEF W
      <4>2. QED  BY <3>1, <4>1, MinIsLeast
    <3>3. i \in 1 .. n /\ ~ Paired(f[i], g[i], R) /\ Paired(xs[i], ys[i], R)
      BY <1>1
    <3>4. i # 1
      BY <2>1, <2>2, <3>3 DEF Joins
    <3>5. PICK h \in 1 .. n : h = i - 1 /\ ~ i <= h
      BY <3>3, <3>4
    <3>6. Paired(f[h], g[h], R)
      BY <3>2, <3>5
    <3>7. f[i] = f[h] \o xs[i] /\ g[i] = g[h] \o ys[i]
      <4>1. i \in 2 .. n
        BY <3>3, <3>4
      <4>2. QED  BY <1>1, <2>1, <2>2, <3>5, <4>1 DEF Joins
    <3>8. xs[i] \in Seq(A) /\ ys[i] \in Seq(B)
      BY <1>1, <3>3, ElementOfSeq
    <3>9. f[h] \in Seq(A) /\ g[h] \in Seq(B)
      BY <3>5
    <3>10. Paired(f[h] \o xs[i], g[h] \o ys[i], R)
      BY <3>3, <3>6, <3>8, <3>9, PairedJoin
    <3>11. QED  BY <3>3, <3>7, <3>10
  <2>4. n \in 1 .. n
    BY <1>3
  <2>5. QED  BY <2>1, <2>2, <2>3, <2>4
<1>4. QED  BY <1>2, <1>3

\* The readings of a list of <app> elements, in their order.
ReadingsOf(apps) ==
  FlattenSeq([i \in 1 .. Len(apps) |->
    [j \in 1 .. Len(apps[i].rdgs) |->
       [el |-> apps[i].rdgs[j].el, type |-> apps[i].type, refs |-> apps[i].rdgs[j].refs]]])

\* A record and what it is the record of.
RecordOf(sigils) ==
  {p \in [el : Nat, type : STRING, refs : SUBSET STRING]
         \X [rdg_id : Nat, type : STRING, vlist : SUBSET Int] :
     p[2].rdg_id = p[1].el /\ p[2].vlist = Vlist(sigils, p[1].refs)}

\* There is a record for each reading, in the order of the readings.
LEMMA RecordsAre ==
  ASSUME NEW b, IsApparatus(b), NEW sigils
  PROVE  /\ ReadingsOf(b.apps) \in
              Seq([el : Nat, type : STRING, refs : SUBSET STRING])
         /\ Records(sigils, b.apps) \in
              Seq([rdg_id : Nat, type : STRING, vlist : SUBSET Int])
         /\ Paired(ReadingsOf(b.apps), Records(sigils, b.apps), RecordOf(sigils))
<1> DEFINE A == [el : Nat, type : STRING, refs : SUBSET STRING]
           B == [rdg_id : Nat, type : STRING, vlist : SUBSET Int]
           R == RecordOf(sigils)
           n == Len(b.apps)
           x(i) == [j \in 1 .. Len(b.apps[i].rdgs) |->
                      [el |-> b.apps[i].rdgs[j].el, type |-> b.apps[i].type,
                       refs |-> b.apps[i].rdgs[j].refs]]
           y(i) == [j \in 1 .. Len(b.apps[i].rdgs) |->
                      Record(sigils, b.apps[i], b.apps[i].rdgs[j])]
           xs == [i \in 1 .. n |-> x(i)]
           ys == [i \in 1 .. n |-> y(i)]
<1>1. n \in Nat
  BY DEF IsApparatus
<1>2. ASSUME NEW i \in 1 .. n
      PROVE  x(i) \in Seq(A) /\ y(i) \in Seq(B) /\ Paired(x(i), y(i), R)
  <2>1. PICK app \in [type : STRING, rdgs : Seq([el : Nat, refs : SUBSET STRING])] :
          app = b.apps[i]
    <3>1. b.apps \in Seq([type : STRING, rdgs : Seq([el : Nat, refs : SUBSET STRING])])
      BY DEF IsApparatus
    <3>2. i \in 1 .. Len(b.apps)
      OBVIOUS
    <3> HIDE DEF n
    <3>3. QED  BY <3>1, <3>2, ElementOfSeq
  <2>2. PICK m \in Nat : m = Len(app.rdgs)
    OBVIOUS
  <2>3. ASSUME NEW j \in 1 .. m
        PROVE  app.rdgs[j] \in [el : Nat, refs : SUBSET STRING]
    <3>1. app.rdgs \in Seq([el : Nat, refs : SUBSET STRING]) /\ j \in 1 .. Len(app.rdgs)
      BY <2>2
    <3>2. QED  BY <3>1, ElementOfSeq
  <2>4. ASSUME NEW j \in 1 .. m
        PROVE  /\ x(i)[j] \in A /\ y(i)[j] \in B /\ <<x(i)[j], y(i)[j]>> \in R
    <3>1. PICK rdg \in [el : Nat, refs : SUBSET STRING] : rdg = app.rdgs[j]
      BY <2>3
    <3>2. Vlist(sigils, rdg.refs) \in SUBSET Int
      BY DEF Vlist
    <3>3. x(i)[j] = [el |-> rdg.el, type |-> app.type, refs |-> rdg.refs]
      BY <2>1, <2>2, <3>1
    <3>4. y(i)[j] = [rdg_id |-> rdg.el, type |-> app.type, vlist |-> Vlist(sigils, rdg.refs)]
      BY <2>1, <2>2, <3>1 DEF Record
    <3> HIDE DEF x, y
    <3>5. x(i)[j] \in A /\ y(i)[j] \in B
      BY <3>2, <3>3, <3>4
    <3>6. QED  BY <3>3, <3>4, <3>5 DEF RecordOf
  <2>5. Len(x(i)) = m /\ Len(y(i)) = m
    BY <2>1, <2>2
  <2>6. x(i) \in Seq(A) /\ y(i) \in Seq(B)
    <3>1. x(i) \in [1 .. m -> A] /\ y(i) \in [1 .. m -> B]
      BY <2>1, <2>2, <2>4
    <3> HIDE DEF x, y, A, B
    <3>2. QED  BY <3>1, SeqDef
  <2> HIDE DEF x, y
  <2>7. QED  BY <2>4, <2>5, <2>6 DEF Paired
<1>3. xs \in Seq(Seq(A)) /\ ys \in Seq(Seq(B)) /\ Len(xs) = n /\ Len(ys) = n
  <2> HIDE DEF x, y, A, B, n
  <2>1. xs \in [1 .. n -> Seq(A)] /\ ys \in [1 .. n -> Seq(B)]
    BY <1>2
  <2> HIDE DEF xs, ys
  <2>2. QED  BY <1>1, <2>1, SeqDef
<1>4. \A i \in 1 .. n : Paired(xs[i], ys[i], R)
  <2> HIDE DEF x, y, R, n
  <2>1. QED  BY <1>2
<1>5. ReadingsOf(b.apps) = FlattenSeq(xs) /\ Records(sigils, b.apps) = FlattenSeq(ys)
  BY DEF ReadingsOf, Records
<1> HIDE DEF xs, ys, A, B, R, n
<1>6. FlattenSeq(xs) \in Seq(A) /\ FlattenSeq(ys) \in Seq(B)
      /\ Paired(FlattenSeq(xs), FlattenSeq(ys), R)
  BY <1>3, <1>4, PairedFlatten
<1>7. QED  BY <1>5, <1>6 DEF R, A, B

(***************************************************************************)
(* The inductive invariant: an answer is that of its command               *)
(***************************************************************************)
FindReplied ==
  reply.cmd \in Commands =>
    /\ reply.el \in Els \cup {-1, no_elements(book)} /\ reply.args \in Args
    /\ reply.found = Answer(reply.cmd, reply.el, reply.args)

NextReplied ==
  reply.cmd = "nextChars" =>
    /\ reply.el \in Els /\ reply.n \in Counts /\ reply.off \in Offsets(reply.el)
    /\ reply.bounds = calc_next_chars(book, reply.el, reply.off, reply.n, 0)
    /\ reply.text = get_next_chars_raw(book, reply.el, reply.off, reply.n)

PrevReplied ==
  reply.cmd = "prevChars" =>
    /\ reply.el \in Els /\ reply.n \in Counts /\ reply.off \in Offsets(reply.el)
    /\ reply.bounds = calc_prev_chars(book, reply.el, reply.off, reply.n)
    /\ reply.text = get_prev_chars_raw(book, reply.el, reply.off, reply.n)

\* What is made of the readings of a book.
BaseOf(b, m) ==
  /\ m.sigil_key = ReadWitList(b.witlist, m.exclude).sigils
  /\ m.rdgs = Records(m.sigil_key, b.apps)
FileMade(b, f) == f # NoFile /\ f[1].state = "made" => BaseOf(b, f[1])
BaseMade(b, base) == AsMade(base) => BaseOf(b, base[1])

SearchReplied ==
  reply.cmd = "searchVBase" =>
    /\ reply.conds \in Conds /\ reply.page \in Pages
    /\ BaseMade(book, reply.base)
    /\ AsMade(reply.base) =>
         reply.result = Searched(reply.base[1], reply.page.start, reply.page.end,
                                 reply.page.first, reply.page.num, reply.conds)

IInv ==
  /\ book \in Books /\ FileMade(book, vbs) /\ BaseMade(book, vbase)
  /\ FindReplied /\ NextReplied /\ PrevReplied /\ SearchReplied

\* It holds when a book is opened.
LEMMA InitIInv == Init => IInv
<1> SUFFICES ASSUME Init PROVE IInv
  OBVIOUS
<1>1. FileMade(book, vbs)
  <2>1. CASE vbs = NoFile
    BY <2>1 DEF FileMade
  <2>2. CASE vbs = EmptyFile
    BY <2>2 DEF EmptyFile, FileMade
  <2>3. QED  BY <2>1, <2>2 DEF Init
<1>2. BaseMade(book, vbase)
  BY DEF Init, BaseMade, AsMade
<1>3. FindReplied /\ NextReplied /\ PrevReplied /\ SearchReplied
  BY DEF Init, NoReply, Commands, FindReplied, NextReplied, PrevReplied, SearchReplied
<1>4. QED  BY <1>1, <1>2, <1>3 DEF Init, IInv

\* A file that makeVBase finishes has the readings of the book.
LEMMA MakingKeeps ==
  ASSUME NEW b, NEW exclude, NEW build, NEW f, FileMade(b, f),
         NEW g \in make_ana_vbase(b, exclude, f, build)
  PROVE  FileMade(b, g)
<1> DEFINE file == Begun(b, exclude)
<1>1. CASE g = f
  BY <1>1
<1>2. CASE g = <<Finished(file, build)>>
  <2>1. /\ g[1].exclude = exclude /\ g[1].sigil_key = ReadWitList(b.witlist, exclude).sigils
        /\ g[1].rdgs = Records(g[1].sigil_key, b.apps)
    BY <1>2 DEF Finished, Begun
  <2>2. QED  BY <2>1 DEF FileMade, BaseOf
<1>3. ASSUME NEW k \in 0 .. Len(file.rdgs), g = <<StoppedAfter(k, file)>>
      PROVE  FileMade(b, g)
  <2>1. g[1].state = "begun"
    BY <1>3 DEF StoppedAfter, Begun
  <2>2. QED  BY <2>1 DEF FileMade
<1>4. QED  BY <1>1, <1>2, <1>3 DEF make_ana_vbase

\* A base that is read whole has them, too.
LEMMA ReadingKeeps ==
  ASSUME NEW b, IsApparatus(b), NEW f, FileMade(b, f)
  PROVE  BaseMade(b, read_vbase(f))
<1>1. SUFFICES ASSUME AsMade(read_vbase(f)) PROVE BaseOf(b, read_vbase(f)[1])
  BY DEF BaseMade
<1>2. PICK file : file = f[1]
  OBVIOUS
<1>3. PICK base : base = read_vbase(f)[1]
  OBVIOUS
<1> DEFINE n == file.n_rdgs
           written == Len(file.rdgs)
<1>4. /\ f # NoFile
      /\ base = [sigil_key |-> file.sigil_key,
                 rdgs |-> IF n < written THEN SubSeq(file.rdgs, 1, n) ELSE file.rdgs,
                 sound |-> n = 0 \/ file.record_size = RecordSize,
                 whole |-> file.state = "made" /\ n = written,
                 exclude |-> file.exclude]
  BY <1>1, <1>2, <1>3 DEF AsMade, read_vbase
<1>5. base.whole
  BY <1>1, <1>3 DEF AsMade
<1>6. file.state = "made" /\ n = written
  BY <1>4, <1>5
<1>7. BaseOf(b, file)
  BY <1>2, <1>4, <1>6 DEF FileMade
<1>8. ~(n < written)
  <2>1. written \in Nat
    BY <1>7, RecordsAre DEF BaseOf
  <2>2. QED  BY <1>6, <2>1
<1>9. base.sigil_key = file.sigil_key /\ base.rdgs = file.rdgs /\ base.exclude = file.exclude
  BY <1>4, <1>8
<1>10. QED  BY <1>3, <1>7, <1>9 DEF BaseOf

\* And so has what the book holds after a search.
LEMMA SearchingKeeps ==
  ASSUME NEW b, NEW had, NEW base, BaseMade(b, base), NEW result
  PROVE  BaseMade(b, BaseAfter(had, base, result))
<1>1. CASE BaseAfter(had, base, result) = base
  BY <1>1
<1>2. CASE BaseAfter(had, base, result) = Freed(base) /\ base # NoBase
  <2>1. PICK m : m = Freed(base)[1] /\ m = [base[1] EXCEPT !.sound = FALSE]
    BY DEF Freed
  <2>2. QED  BY <1>2, <2>1 DEF BaseMade, AsMade
<1>3. QED  BY <1>1, <1>2 DEF BaseAfter

\* Every command keeps it.
LEMMA NextIInv == IInv /\ [Next]_vars => IInv'
<1> SUFFICES ASSUME IInv, [Next]_vars PROVE IInv'
  OBVIOUS
<1> USE DEF IInv
<1>0. ASSUME UNCHANGED <<book, vbs, vbase>>
      PROVE  book' \in Books /\ FileMade(book', vbs') /\ BaseMade(book', vbase')
  BY <1>0
<1>1. CASE Find /\ UNCHANGED <<book, vbs, vbase>>
  <2>1. PICK cmd \in Commands, el \in Els \cup {-1, no_elements(book)}, args \in Args :
          reply' = [cmd |-> cmd, el |-> el, args |-> args, found |-> Answer(cmd, el, args)]
    BY <1>1 DEF Find
  <2>2. /\ reply'.cmd = cmd /\ reply'.el = el /\ reply'.args = args
        /\ reply'.found = Answer(cmd, el, args) /\ book' = book
    BY <1>1, <2>1
  <2>3. FindReplied'
    BY <2>2 DEF FindReplied, Answer, Els
  <2>4. NextReplied' /\ PrevReplied' /\ SearchReplied'
    BY <2>2 DEF NextReplied, PrevReplied, SearchReplied, Commands
  <2>5. QED  BY <1>0, <1>1, <2>3, <2>4
<1>2. CASE NextChars /\ UNCHANGED <<book, vbs, vbase>>
  <2>1. PICK el \in Els, n \in Counts, off \in Offs :
          /\ off \in Offsets(el)
          /\ reply' = [cmd |-> "nextChars", el |-> el, off |-> off, n |-> n,
                       bounds |-> calc_next_chars(book, el, off, n, 0),
                       text |-> get_next_chars_raw(book, el, off, n)]
    BY <1>2 DEF NextChars, Offsets
  <2>2. /\ reply'.cmd = "nextChars" /\ reply'.el = el /\ reply'.off = off /\ reply'.n = n
        /\ off \in Offsets(el) /\ reply'.bounds = calc_next_chars(book, el, off, n, 0)
        /\ reply'.text = get_next_chars_raw(book, el, off, n) /\ book' = book
    BY <1>2, <2>1
  <2>3. NextReplied'
    BY <2>2 DEF NextReplied, Els, Offsets
  <2>4. FindReplied' /\ PrevReplied' /\ SearchReplied'
    BY <2>2 DEF FindReplied, PrevReplied, SearchReplied, Commands
  <2>5. QED  BY <1>0, <1>2, <2>3, <2>4
<1>3. CASE PrevChars /\ UNCHANGED <<book, vbs, vbase>>
  <2>1. PICK el \in Els, n \in Counts, off \in Offs :
          /\ off \in Offsets(el)
          /\ reply' = [cmd |-> "prevChars", el |-> el, off |-> off, n |-> n,
                       bounds |-> calc_prev_chars(book, el, off, n),
                       text |-> get_prev_chars_raw(book, el, off, n)]
    BY <1>3 DEF PrevChars, Offsets
  <2>2. /\ reply'.cmd = "prevChars" /\ reply'.el = el /\ reply'.off = off /\ reply'.n = n
        /\ off \in Offsets(el) /\ reply'.bounds = calc_prev_chars(book, el, off, n)
        /\ reply'.text = get_prev_chars_raw(book, el, off, n) /\ book' = book
    BY <1>3, <2>1
  <2>3. PrevReplied'
    BY <2>2 DEF PrevReplied, Els, Offsets
  <2>4. FindReplied' /\ NextReplied' /\ SearchReplied'
    BY <2>2 DEF FindReplied, NextReplied, SearchReplied, Commands
  <2>5. QED  BY <1>0, <1>3, <2>3, <2>4
<1>4. ASSUME reply'.cmd \notin Commands \cup {"nextChars", "prevChars", "searchVBase"},
             book' = book, FileMade(book', vbs'), BaseMade(book', vbase')
      PROVE  IInv'
  BY <1>4 DEF FindReplied, NextReplied, PrevReplied, SearchReplied, Commands
<1>5. CASE TheseChars /\ UNCHANGED <<book, vbs, vbase>>
  <2>1. reply'.cmd = "theseChars"
    BY <1>5 DEF TheseChars
  <2>2. QED  BY <1>0, <1>4, <1>5, <2>1 DEF Commands
<1>6. CASE Content /\ UNCHANGED <<book, vbs, vbase>>
  <2>1. reply'.cmd = "content"
    BY <1>6 DEF Content
  <2>2. QED  BY <1>0, <1>4, <1>6, <2>1 DEF Commands
<1>7. CASE MakeKwic /\ UNCHANGED <<book, vbs, vbase>>
  <2>1. reply'.cmd = "makeKWIC"
    BY <1>7 DEF MakeKwic
  <2>2. QED  BY <1>0, <1>4, <1>7, <2>1 DEF Commands
<1>8. CASE MakeVBase /\ UNCHANGED <<book, vbase>>
  <2>1. PICK exclude, build : /\ vbs' \in make_ana_vbase(book, exclude, vbs, build)
                              /\ reply' = [cmd |-> "makeVBase", exclude |-> exclude]
    BY <1>8 DEF MakeVBase
  <2>2. FileMade(book', vbs') /\ BaseMade(book', vbase')
    BY <1>8, <2>1, MakingKeeps
  <2>3. reply'.cmd = "makeVBase"
    BY <2>1
  <2>4. QED  BY <1>4, <1>8, <2>2, <2>3 DEF Commands
<1>9. CASE SearchVBase /\ UNCHANGED <<book, vbs>>
  <2>1. PICK conds, p, base, result :
          /\ conds \in Conds /\ p \in Pages
          /\ base = IF vbase = NoBase THEN read_vbase(vbs) ELSE vbase
          /\ result \in search_ana_vbase(base, p.start, p.end, p.first, p.num, conds)
          /\ reply' = [cmd |-> "searchVBase", opened |-> vbase = NoBase, base |-> base,
                       conds |-> conds, page |-> p, result |-> result]
          /\ vbase' = BaseAfter(vbase, base, result)
    BY <1>9 DEF SearchVBase
  <2>2. /\ reply'.cmd = "searchVBase" /\ reply'.base = base /\ reply'.conds = conds
        /\ reply'.page = p /\ reply'.result = result /\ book' = book /\ vbs' = vbs
    BY <1>9, <2>1
  <2>3. BaseMade(book, base)
    <3>1. IsApparatus(book)
      BY BooksAssumption
    <3>2. BaseMade(book, read_vbase(vbs))
      BY <3>1, ReadingKeeps
    <3>3. QED  BY <2>1, <3>2
  <2>4. AsMade(base) => result = Searched(base[1], p.start, p.end, p.first, p.num, conds)
    <3>1. ASSUME AsMade(base)
          PROVE  search_ana_vbase(base, p.start, p.end, p.first, p.num, conds) =
                   {Searched(base[1], p.start, p.end, p.first, p.num, conds)}
      BY <3>1 DEF AsMade, search_ana_vbase
    <3>2. QED  BY <2>1, <3>1
  <2>5. SearchReplied'
    <3>1. reply'.conds \in Conds /\ reply'.page \in Pages
      BY <2>1, <2>2
    <3>2. BaseMade(book', reply'.base)
      BY <2>2, <2>3
    <3>3. AsMade(reply'.base) =>
            reply'.result = Searched(reply'.base[1], reply'.page.start, reply'.page.end,
                                     reply'.page.first, reply'.page.num, reply'.conds)
      BY <2>2, <2>4
    <3>4. QED  BY <3>1, <3>2, <3>3 DEF SearchReplied
  <2>6. FindReplied' /\ NextReplied' /\ PrevReplied'
    BY <2>2 DEF FindReplied, NextReplied, PrevReplied, Commands
  <2>7. FileMade(book', vbs') /\ BaseMade(book', vbase')
    BY <2>1, <2>2, <2>3, SearchingKeeps
  <2>8. QED  BY <2>2, <2>5, <2>6, <2>7
<1>10. CASE GoOn /\ UNCHANGED <<book, vbs>>
  <2>1. reply'.cmd = "none" /\ vbase' \in {vbase, NoBase}
    BY <1>10 DEF GoOn, NoReply
  <2>2. BaseMade(book', vbase')
    BY <1>10, <2>1 DEF BaseMade, AsMade
  <2>3. QED  BY <1>4, <1>10, <2>1, <2>2 DEF Commands
<1>11. CASE UNCHANGED vars
  BY <1>11 DEF vars, FindReplied, NextReplied, PrevReplied, SearchReplied, Answer, Els, Offsets
<1>12. QED
  BY <1>1, <1>2, <1>3, <1>5, <1>6, <1>7, <1>8, <1>9, <1>10, <1>11 DEF Next, AsksTheBook

\* So it always holds.
THEOREM Replied == Spec => []IInv
BY InitIInv, NextIInv, PTL DEF Spec

\* A command that finds elements finds the n-th of the name: for every book
\* that is a tree, and every number and name.
LEMMA IInvFindsNth == IInv => FindsNth
<1>1. SUFFICES ASSUME IInv, Asked(Agreed), Arguments(reply.args).ok, reply.el \in Els,
                      Len(Arguments(reply.args).path) <= 1
               PROVE  LET a == Arguments(reply.args)
                          S == {e \in Sought(reply.cmd, reply.el) :
                                  Matches(book, e, Name(a.path))}
                          nth == Nth(S, a.num, Way(reply.cmd))
                      IN reply.found = IF nth = {} THEN 0 ELSE Max(nth)
  BY DEF FindsNth
<1>2. /\ reply.cmd \in Agreed /\ reply.args \in Args
      /\ reply.found = Answer(reply.cmd, reply.el, reply.args) /\ IsTree(book)
  BY <1>1, BooksAssumption DEF IInv, FindReplied, Asked, Agreed
<1>3. reply.args \in Seq([is_num : BOOLEAN, num : Int, path : Seq(Names)])
  BY <1>2, ArgsAssumption DEF Names
<1>4. reply.found = NthNamed(book, Sought(reply.cmd, reply.el),
                      Name(Arguments(reply.args).path), None,
                      Arguments(reply.args).num, Way(reply.cmd))
  BY <1>1, <1>2, <1>3, AnswerIs
<1>5. QED  BY <1>4 DEF NthNamed, None

\* The commands that find elements, but for descendant, find the n-th of the
\* name asked for in their direction, in every book.
THEOREM NthIsFound == Spec => []FindsNth
BY Replied, IInvFindsNth, PTL

(***************************************************************************)
(* Paths down, and the way back                                            *)
(***************************************************************************)
\* A line of descent from el along the names of the path: c[i] has the i-th
\* name and is below c[i - 1].
Descent(b, el, path, k, c) ==
  /\ c[0] = el
  /\ \A i \in 1 .. k : /\ c[i] \in Elements(b) \ {0} /\ b.ancestor[c[i]] = c[i - 1]
                       /\ b.gi[c[i]] = path[i]

\* A walk down that missed no name is one.
LEMMA WalkDescends ==
  ASSUME NEW b, IsTree(b), NEW el \in Elements(b), NEW path, NEW n \in Nat,
         \A i \in 1 .. n : path[i] \in Names,
         NEW w \in [Nat -> [el : Elements(b), missed : BOOLEAN]],
         Walk(el, Downs(b, path), w), ~w[n].missed, NEW c, c = [i \in 0 .. n |-> w[i].el]
  PROVE  Descent(b, el, path, n, c)
<1> DEFINE E == Elements(b)
<1>1. ASSUME NEW i \in Nat, i # 0
      PROVE  LET q == w[i - 1]
                 r == find_child(b, q.el, 1, path[i])
             IN q.el \in E /\ w[i].el = (IF r = None THEN q.el ELSE r)
                /\ w[i].missed = (q.missed \/ r = None)
  <2>1. i - 1 \in Nat /\ w[i - 1].el \in E
    BY <1>1
  <2>2. Downs(b, path)[i][w[i - 1].el] = find_child(b, w[i - 1].el, 1, path[i])
    BY <2>1 DEF Downs
  <2>3. w[i] = [el |-> IF Downs(b, path)[i][w[i - 1].el] = None THEN w[i - 1].el
                       ELSE Downs(b, path)[i][w[i - 1].el],
                missed |-> w[i - 1].missed \/ Downs(b, path)[i][w[i - 1].el] = None]
    BY <1>1 DEF Walk
  <2>4. QED  BY <2>1, <2>2, <2>3
<1>2. \A i \in 0 .. n : ~w[i].missed
  <2> DEFINE W == {j \in Nat : j <= n /\ w[n - j].missed}
  <2>1. W = {}
    <3>1. SUFFICES ASSUME W # {} PROVE FALSE
      OBVIOUS
    <3>2. PICK j \in W : \A h \in W : j <= h
      <4>1. W \in SUBSET Nat
        OBVIOUS
      <4> HIDE DEF W
      <4>2. QED  BY <3>1, <4>1, MinIsLeast
    <3>3. j \in Nat /\ j <= n /\ w[n - j].missed
      OBVIOUS
    <3>4. j # 0
      BY <3>3
    <3>5. j - 1 \in Nat /\ j - 1 <= n /\ ~(j <= j - 1) /\ n - (j - 1) \in Nat
          /\ n - (j - 1) # 0 /\ (n - (j - 1)) - 1 = n - j
      BY <3>3, <3>4
    <3>6. w[n - (j - 1)].missed
      <4>1. PICK i \in Nat : i = n - (j - 1) /\ i # 0 /\ i - 1 = n - j
        BY <3>5
      <4>2. w[i].missed = (w[i - 1].missed \/ find_child(b, w[i - 1].el, 1, path[i]) = None)
        BY <1>1, <4>1
      <4>3. QED  BY <3>3, <4>1, <4>2
    <3>7. QED  BY <3>2, <3>5, <3>6
  <2>2. ASSUME NEW i \in 0 .. n PROVE ~w[i].missed
    <3>1. PICK j \in Nat : j <= n /\ n - j = i
      <4>1. n - i \in Nat /\ n - i <= n /\ n - (n - i) = i
        OBVIOUS
      <4>2. QED  BY <4>1
    <3>2. j \notin W
      <4> HIDE DEF W
      <4>1. QED  BY <2>1
    <3>3. QED  BY <3>1, <3>2
  <2>3. QED  BY <2>2
<1>3. ASSUME NEW i \in 1 .. n
      PROVE  /\ w[i].el \in E \ {0} /\ b.ancestor[w[i].el] = w[i - 1].el
             /\ b.gi[w[i].el] = path[i]
  <2> DEFINE r == find_child(b, w[i - 1].el, 1, path[i])
  <2>1. i \in Nat /\ i # 0 /\ ~w[i].missed
    BY <1>2
  <2>2. w[i - 1].el \in E /\ w[i].el = (IF r = None THEN w[i - 1].el ELSE r)
        /\ w[i].missed = (w[i - 1].missed \/ r = None)
    BY <1>1, <2>1
  <2>3. r = NthNamed(b, Below(b, w[i - 1].el), path[i], None, 1, "on")
    BY <2>2, ChildIs
  <2> HIDE DEF r
  <2>4. r # None /\ w[i].el = r
    BY <2>1, <2>2
  <2>5. r \in Below(b, w[i - 1].el) /\ Matches(b, r, path[i])
    <3>1. Below(b, w[i - 1].el) \subseteq E
      BY DEF Below
    <3>2. QED  BY <2>3, <2>4, <3>1, NthNamedIn DEF None
  <2>6. r \in E \ {0} /\ b.ancestor[r] = w[i - 1].el
    BY <2>5 DEF Below
  <2>7. b.gi[r] = path[i]
    BY <2>5 DEF Matches, Names
  <2>8. QED  BY <2>4, <2>6, <2>7
<1>4. w[0].el = el
  BY DEF Walk
<1>5. c[0] = el
  BY <1>4
<1>6. ASSUME NEW i \in 1 .. n
      PROVE  c[i] = w[i].el /\ c[i - 1] = w[i - 1].el
  OBVIOUS
<1>7. QED  BY <1>3, <1>5, <1>6 DEF Descent

\* Going up from its end leads back along it.
LEMMA UpTheDescent ==
  ASSUME IsTree(book), NEW el, NEW path, NEW k \in Nat, NEW c,
         Descent(book, el, path, k, c), c[k] \in Els, NEW found, found = c[k]
  PROVE  \A j \in 0 .. k : Up(found, j) = c[k - j]
<1> DEFINE rank == [i \in Nat |-> i]
           before == [i \in Nat |-> i - 1]
           val == [i \in Nat |-> c[k]]
           step == [i \in Nat |-> book.ancestor]
           Body(f) == [i \in Nat |-> IF i = 0 THEN c[k] ELSE book.ancestor[f[i - 1]]]
<1>1. Recursion(Nat, Els, {0}, before, rank, val, step)
  <2>1. \A i \in Nat : val[i] \in Els
    OBVIOUS
  <2>2. \A i \in Nat : \A v \in Els : step[i][v] \in Els
    BY TreeLinks DEF Els
  <2>3. Nearing(Nat, {0}, before, rank)
    BY DEF Nearing
  <2> HIDE DEF val, step, before, rank
  <2>4. QED  BY <2>1, <2>2, <2>3 DEF Recursion
<1>2. PICK f \in [Nat -> Els] : \A i \in Nat : f[i] = StepAt({0}, before, val, step, f, i)
  <2> HIDE DEF val, step, before, rank
  <2>1. QED  BY <1>1, StepsExist
<1>3. f = Body(f)
  <2>1. ASSUME NEW i \in Nat PROVE f[i] = Body(f)[i]
    <3>1. CASE i = 0
      BY <1>2, <3>1 DEF StepAt
    <3>2. CASE i # 0
      BY <1>2, <3>2 DEF StepAt
    <3>3. QED  BY <3>1, <3>2
  <2>2. f = [i \in Nat |-> f[i]]
    BY <1>2
  <2>3. QED  BY <2>1, <2>2
<1> DEFINE up == CHOOSE g : g = Body(g)
<1>4. up = Body(up)
  BY <1>3
<1>5. \A j : Up(found, j) = up[j]
  BY DEF Up
<1> HIDE DEF up
<1>6. up[0] = c[k] /\ \A i \in Nat : i # 0 => up[i] = book.ancestor[up[i - 1]]
  BY <1>4
<1> DEFINE W == {j \in Nat : j <= k /\ up[j] # c[k - j]}
<1>7. W = {}
  <2>1. SUFFICES ASSUME W # {} PROVE FALSE
    OBVIOUS
  <2>2. PICK j \in W : \A h \in W : j <= h
    <3>1. W \in SUBSET Nat
      OBVIOUS
    <3> HIDE DEF W
    <3>2. QED  BY <2>1, <3>1, MinIsLeast
  <2>3. j \in Nat /\ j <= k /\ up[j] # c[k - j]
    OBVIOUS
  <2>4. j # 0
    BY <1>6, <2>3
  <2>5. PICK i \in 1 .. k : i = k - (j - 1) /\ i - 1 = k - j /\ j - 1 \in Nat
    BY <2>3, <2>4
  <2>6. up[j - 1] = c[i]
    <3>1. j - 1 \notin W /\ j - 1 <= k
      BY <2>2, <2>3, <2>5
    <3>2. QED  BY <2>5, <3>1
  <2>7. book.ancestor[c[i]] = c[i - 1]
    BY DEF Descent
  <2>8. QED  BY <1>6, <2>3, <2>4, <2>5, <2>6, <2>7
<1>8. ASSUME NEW j \in 0 .. k PROVE Up(found, j) = c[k - j]
  <2>1. j \in Nat /\ j <= k /\ j \notin W
    BY <1>7
  <2>2. QED  BY <1>5, <2>1
<1>9. QED  BY <1>8

\* The names on the way back up.
WayBack(b, el, path) ==
  [i \in 1 .. Len(path) |-> IF i = Len(path) THEN b.gi[el] ELSE path[Len(path) - i]]

\* The walk up by them goes along it.
LEMMA WalkAscends ==
  ASSUME NEW b, IsTree(b), NEW el, NEW path \in Seq(Names), NEW k \in Nat \ {0},
         k = Len(path), NEW c, Descent(b, el, path, k, c),
         NEW w \in [Nat -> [el : Elements(b), missed : BOOLEAN]],
         Walk(c[k], Ups(b, WayBack(b, el, path)), w)
  PROVE  w[k - 1].el = c[1] /\ ~w[k - 1].missed
<1> DEFINE back == WayBack(b, el, path)
           W == {j \in Nat : j < k /\ ~(w[j].el = c[k - j] /\ ~w[j].missed)}
<1>1. W = {}
  <2>1. SUFFICES ASSUME W # {} PROVE FALSE
    OBVIOUS
  <2>2. PICK j \in W : \A h \in W : j <= h
    <3>1. W \in SUBSET Nat
      OBVIOUS
    <3> HIDE DEF W
    <3>2. QED  BY <2>1, <3>1, MinIsLeast
  <2>3. j \in Nat /\ j < k /\ ~(w[j].el = c[k - j] /\ ~w[j].missed)
    OBVIOUS
  <2>4. j # 0
    <3>1. w[0] = [el |-> c[k], missed |-> FALSE]
      BY DEF Walk
    <3>2. QED  BY <2>3, <3>1
  <2>5. PICK i \in 1 .. k : i = k - (j - 1) /\ i - 1 = k - j /\ i - 1 \in 1 .. k /\ j - 1 \in Nat
    <3>1. k - (j - 1) \in 1 .. k /\ (k - (j - 1)) - 1 = k - j /\ k - j \in 1 .. k
          /\ j - 1 \in Nat
      BY <2>3, <2>4
    <3> HIDE DEF W
    <3>2. QED  BY <3>1
  <2>6. w[j - 1].el = c[i] /\ ~w[j - 1].missed
    <3>1. j - 1 \notin W /\ j - 1 < k
      BY <2>2, <2>3, <2>5
    <3>2. QED  BY <2>5, <3>1
  <2>7. /\ c[i] \in Elements(b) /\ b.ancestor[c[i]] = c[i - 1]
        /\ c[i - 1] # 0 /\ b.gi[c[i - 1]] = path[i - 1]
    BY <2>5 DEF Descent
  <2>8. back[j] = path[i - 1]
    <3>1. j \in 1 .. Len(path) /\ j # Len(path)
      BY <2>3, <2>4
    <3>2. back[j] = path[Len(path) - j]
      BY <3>1 DEF WayBack
    <3>3. QED  BY <2>5, <3>2
  <2>9. find_parent(b, c[i], 1, back[j]) = c[i - 1]
    BY <2>7, <2>8 DEF find_parent, None
  <2>10. Ups(b, back)[j][w[j - 1].el] = c[i - 1]
    BY <2>3, <2>6, <2>7, <2>9 DEF Ups
  <2>11. w[j] = [el |-> IF Ups(b, back)[j][w[j - 1].el] = None THEN w[j - 1].el
                        ELSE Ups(b, back)[j][w[j - 1].el],
                 missed |-> w[j - 1].missed \/ Ups(b, back)[j][w[j - 1].el] = None]
    BY <2>3, <2>4 DEF Walk
  <2>12. w[j].el = c[i - 1] /\ ~w[j].missed
    BY <2>6, <2>7, <2>10, <2>11 DEF None
  <2>13. QED  BY <2>3, <2>5, <2>12
<1>2. PICK j \in Nat : j = k - 1 /\ j < k /\ k - j = 1
  <2>1. k - 1 \in Nat /\ k - 1 < k /\ k - (k - 1) = 1
    OBVIOUS
  <2>2. QED  BY <2>1
<1>3. j \notin W
  <2> HIDE DEF W
  <2>1. QED  BY <1>1
<1>4. QED  BY <1>2, <1>3

\* So ancestor finds the way back.
LEMMA AncestorGoesBack ==
  ASSUME NEW b, IsTree(b), NEW el \in Elements(b), el # 0, NEW path \in Seq(Names),
         NEW k \in Nat \ {0}, k = Len(path), NEW c, Descent(b, el, path, k, c),
         NEW args, args = <<[is_num |-> FALSE, num |-> 0, path |-> WayBack(b, el, path)]>>
  PROVE  get_ana_ancestor(b, c[k], args) = el
<1> DEFINE back == WayBack(b, el, path)
<1>1. Len(back) = k /\ back # <<>> /\ back[k] = b.gi[el]
  BY DEF WayBack
<1>2. c[k] \in Elements(b) \ {0} /\ c[1] \in Elements(b) \ {0} /\ b.ancestor[c[1]] = el
  <2>1. k \in 1 .. k /\ 1 \in 1 .. k /\ 1 - 1 = 0
    OBVIOUS
  <2>2. QED  BY <2>1 DEF Descent
<1>3. Arguments(args).ok /\ Arguments(args).num = 1 /\ Arguments(args).path = back
  <2> DEFINE nums == {i \in 1 .. Len(args) : args[i].is_num}
             strs == 1 .. Len(args) \ nums
  <2>1. Len(args) = 1 /\ args[1].is_num = FALSE /\ args[1].path = back
    OBVIOUS
  <2>2. nums = {} /\ strs = {1}
    BY <2>1
  <2> HIDE DEF nums, strs
  <2>3. Cardinality(nums) = 0 /\ Cardinality(strs) = 1
    BY <2>2, FS_EmptySet, FS_Singleton
  <2>4. Max(strs) = 1
    <3>1. strs \in SUBSET Int /\ 1 \in strs /\ \A y \in strs : y <= 1
      BY <2>2
    <3>2. QED  BY <3>1, MaxOf
  <2>5. Arguments(args) =
          [ok |-> Cardinality(nums) <= 1 /\ Cardinality(strs) <= 1,
           num |-> IF nums = {} THEN 1 ELSE args[Max(nums)].num,
           path |-> IF strs = {} THEN <<>> ELSE args[Max(strs)].path]
    BY DEF Arguments, nums, strs
  <2> HIDE DEF back
  <2>6. /\ Arguments(args).ok = (Cardinality(nums) <= 1 /\ Cardinality(strs) <= 1)
        /\ Arguments(args).num = IF nums = {} THEN 1 ELSE args[Max(nums)].num
        /\ Arguments(args).path = IF strs = {} THEN <<>> ELSE args[Max(strs)].path
    BY <2>5
  <2>7. Arguments(args).ok
    <3>1. Cardinality(nums) <= 1 /\ Cardinality(strs) <= 1
      BY <2>3
    <3>2. QED  BY <2>6, <3>1, Zenon
  <2>8. Arguments(args).num = 1 /\ Arguments(args).path = back
    BY <2>1, <2>2, <2>4, <2>6
  <2>9. QED  BY <2>7, <2>8
<1>4. is_valid_el(b, c[k])
  BY <1>2, TreeElements DEF is_valid_el, get_next_sgml_obj
<1>5. PICK w \in [Nat -> [el : Elements(b), missed : BOOLEAN]] :
        /\ Walk(c[k], Ups(b, back), w)
        /\ Qualify(b, find_parent, c[k], back) = w[Passed(back)]
  BY <1>2, QualifyUp
<1>6. Passed(back) = k - 1
  BY <1>1 DEF Passed
<1>7. w[k - 1].el = c[1] /\ ~w[k - 1].missed
  BY <1>5, WalkAscends
<1>8. LastName(back) = b.gi[el]
  BY <1>1 DEF LastName
<1>9. get_ana_ancestor(b, c[k], args) = find_ancestor(b, c[1], 1, b.gi[el])
  BY <1>3, <1>4, <1>5, <1>6, <1>7, <1>8 DEF get_ana_ancestor, Qualified
<1>10. NthAlong(b, b.ancestor, el, 1, b.gi[el]) = el
  <2>1. Nearing(Int, Ends(b), b.ancestor, RankBackward(b))
    <3>1. \A e \in Elements(b) \ {0} : b.ancestor[e] \in Nat /\ b.ancestor[e] < e
      BY TreeLinks, TreeElements
    <3>2. QED  BY <3>1, OnwardBackward
  <2>2. el \in Int /\ 1 \in Int /\ Matches(b, el, b.gi[el])
    BY TreeElements DEF Matches
  <2>3. QED  BY <2>1, <2>2, NthAlongStep DEF None
<1>11. QED  BY <1>2, <1>9, <1>10 DEF find_ancestor

\* Something is found with a path.
Finds(b, el, args, found, path) ==
  /\ args \in Seq([is_num : BOOLEAN, num : Int, path : Seq(Names)])
  /\ path = Arguments(args).path /\ path # <<>> /\ found \notin {Fail, None}
  /\ found = get_ana_child(b, el, args)

\* It is at the end of a descent.
EndsDescent(b, el, path, found) ==
  /\ el \in Elements(b) /\ path \in Seq(Names) /\ Len(path) \in Nat \ {0}
  /\ \E c : Descent(b, el, path, Len(path), c) /\ c[Len(path)] = found

\* What child finds with a path is at the end of a descent.
LEMMA DescentFound ==
  ASSUME NEW b, IsTree(b), NEW el, NEW args, NEW found, NEW path,
         Finds(b, el, args, found, path)
  PROVE  EndsDescent(b, el, path, found)
<1> USE DEF Finds
<1> DEFINE num == Arguments(args).num
           k == Len(path)
<1>1. path \in Seq(Names) /\ num \in Int
  BY ArgumentsAre
<1>2. k \in Nat \ {0} /\ \A i \in 1 .. k : path[i] \in Names
  BY <1>1, EmptySeq, ElementOfSeq
<1>3. Arguments(args).ok /\ is_valid_el(b, el)
  BY DEF get_ana_child, Qualified
<1>4. el \in Elements(b)
  BY <1>3 DEF is_valid_el, get_next_sgml_obj
<1>5. PICK w \in [Nat -> [el : Elements(b), missed : BOOLEAN]] :
        Walk(el, Downs(b, path), w) /\ Qualify(b, find_child, el, path) = w[Passed(path)]
  BY <1>4, QualifyDown
<1>6. PICK n \in Nat : n = k - 1 /\ n = Passed(path) /\ k = n + 1
  <2>1. path # <<>>
    OBVIOUS
  <2>2. Passed(path) = k - 1
    BY <2>1 DEF Passed
  <2>3. k - 1 \in Nat /\ k = (k - 1) + 1
    BY <1>2
  <2> HIDE DEF Finds, k
  <2>4. QED  BY <2>2, <2>3
<1>7. w[n] \in [el : Elements(b), missed : BOOLEAN]
  OBVIOUS
<1>8. /\ ~w[n].missed
      /\ found = find_child(b, w[n].el, num, path[k])
  BY <1>3, <1>5, <1>6 DEF get_ana_child, Qualified, LastName
<1>9. found \in Below(b, w[n].el) /\ Matches(b, found, path[k])
  <2>1. w[n].el \in Elements(b)
    BY <1>7
  <2>2. found = NthNamed(b, Below(b, w[n].el), path[k], None, num, "on")
    BY <1>1, <1>8, <2>1, ChildIs
  <2>3. Below(b, w[n].el) \subseteq Elements(b)
    BY DEF Below
  <2>4. QED  BY <2>2, <2>3, NthNamedIn DEF None
<1>10. /\ found \in Elements(b) \ {0} /\ b.ancestor[found] = w[n].el
       /\ b.gi[found] = path[k]
  BY <1>2, <1>9 DEF Below, Matches, Names
<1>11. PICK d : d = [i \in 0 .. n |-> w[i].el] /\ Descent(b, el, path, n, d)
  <2>1. \A i \in 1 .. n : path[i] \in Names
    BY <1>2, <1>6
  <2>2. QED  BY <1>4, <1>5, <1>8, <2>1, WalkDescends
<1> DEFINE c == [i \in 0 .. k |-> IF i = k THEN found ELSE w[i].el]
<1>12. Descent(b, el, path, k, c)
  <2>1. c[0] = el
    BY <1>6, <1>11 DEF Descent
  <2>2. ASSUME NEW i \in 1 .. k
        PROVE  /\ c[i] \in Elements(b) \ {0} /\ b.ancestor[c[i]] = c[i - 1]
               /\ b.gi[c[i]] = path[i]
    <3>1. CASE i = k
      <4>1. c[i] = found /\ c[i - 1] = w[n].el
        BY <1>6, <3>1
      <4> HIDE DEF c
      <4>2. QED  BY <1>10, <3>1, <4>1
    <3>2. CASE i # k
      <4>1. i \in 1 .. n /\ c[i] = w[i].el /\ c[i - 1] = w[i - 1].el
            /\ d[i] = w[i].el /\ d[i - 1] = w[i - 1].el
        BY <1>6, <1>11, <3>2
      <4> HIDE DEF c
      <4>2. /\ d[i] \in Elements(b) \ {0} /\ b.ancestor[d[i]] = d[i - 1]
            /\ b.gi[d[i]] = path[i]
        BY <1>11, <4>1 DEF Descent
      <4>3. c[i] = d[i] /\ c[i - 1] = d[i - 1]
        BY <4>1
      <4>4. QED  BY <4>2, <4>3
    <3>3. QED  BY <3>1, <3>2
  <2> HIDE DEF c
  <2>3. QED  BY <2>1, <2>2 DEF Descent
<1>13. c[k] = found
  BY <1>2
<1> HIDE DEF c
<1>14. QED  BY <1>1, <1>2, <1>4, <1>12, <1>13 DEF EndsDescent

\* So a procedure is answered.
LEMMA IInvPathsInvert == IInv => PathsInvert
<1>0. PICK args, path, k, el, found :
        /\ args = reply.args /\ path = Arguments(args).path /\ k = Len(path)
        /\ el = reply.el /\ found = reply.found
  OBVIOUS
<1>1. SUFFICES ASSUME IInv, reply.cmd = "child", found > 0, k > 0
      PROVE  /\ Up(found, k) = el
             /\ \A i \in 1 .. k : book.gi[Up(found, k - i)] = path[i]
             /\ el # 0 =>
                  LET back == [i \in 1 .. k |-> IF i = k THEN book.gi[el] ELSE path[k - i]]
                  IN get_ana_ancestor(book, found,
                       <<[is_num |-> FALSE, num |-> 0, path |-> back]>>) = el
  BY <1>0 DEF PathsInvert, Asked
<1>2. /\ IsTree(book) /\ args \in Seq([is_num : BOOLEAN, num : Int, path : Seq(Names)])
      /\ found = get_ana_child(book, el, args)
  BY <1>0, <1>1, BooksAssumption, ArgsAssumption
     DEF IInv, FindReplied, Answer, Commands, Names
<1>3. found \notin {Fail, None} /\ path # <<>>
  <2>1. path = <<>> => Len(path) = 0
    OBVIOUS
  <2>2. QED  BY <1>0, <1>1, <2>1 DEF Fail, None
<1>4. /\ el \in Elements(book) /\ path \in Seq(Names) /\ k \in Nat \ {0}
      /\ \E c : Descent(book, el, path, k, c) /\ c[k] = found
  <2>1. Finds(book, el, args, found, path)
    BY <1>0, <1>2, <1>3 DEF Finds
  <2>2. EndsDescent(book, el, path, found)
    BY <1>2, <2>1, DescentFound
  <2>3. k = Len(path)
    BY <1>0
  <2>4. QED  BY <2>2, <2>3 DEF EndsDescent
<1>5. PICK c : Descent(book, el, path, k, c) /\ c[k] = found
  BY <1>4
<1>6. c[0] = el /\ c[k] \in Els
      /\ \A i \in 1 .. k : book.gi[c[i]] = path[i]
  <2>1. k \in 1 .. k
    BY <1>4
  <2>2. QED  BY <1>5, <2>1 DEF Descent, Els
<1>7. \A j \in 0 .. k : Up(found, j) = c[k - j]
  <2>1. k \in Nat /\ IsTree(book) /\ Descent(book, el, path, k, c) /\ c[k] \in Els
        /\ found = c[k]
    BY <1>2, <1>4, <1>5, <1>6
  <2>2. QED  BY <2>1, UpTheDescent
<1>8. Up(found, k) = el
  BY <1>4, <1>6, <1>7
<1>9. ASSUME NEW i \in 1 .. k PROVE book.gi[Up(found, k - i)] = path[i]
  <2>1. k - i \in 0 .. k /\ k - (k - i) = i
    BY <1>4
  <2>2. QED  BY <1>6, <1>7, <2>1
<1>10. ASSUME el # 0
       PROVE  LET back == [i \in 1 .. k |-> IF i = k THEN book.gi[el] ELSE path[k - i]]
              IN get_ana_ancestor(book, found,
                   <<[is_num |-> FALSE, num |-> 0, path |-> back]>>) = el
  <2>1. WayBack(book, el, path) =
          [i \in 1 .. k |-> IF i = k THEN book.gi[el] ELSE path[k - i]]
    BY <1>0 DEF WayBack
  <2>2. k = Len(path)
    BY <1>0
  <2>3. get_ana_ancestor(book, found,
          <<[is_num |-> FALSE, num |-> 0, path |-> WayBack(book, el, path)]>>) = el
    BY <1>2, <1>4, <1>5, <1>10, <2>2, AncestorGoesBack
  <2>4. QED  BY <2>1, <2>3
<1>11. QED  BY <1>8, <1>9, <1>10

\* child with a path, and ancestor with the names of the way
\* up, are each the other's inverse: in every tree and for every path.
THEOREM PathsLeadBack == Spec => []PathsInvert
BY Replied, IInvPathsInvert, PTL

(***************************************************************************)
(* Places in the text                                                      *)
(***************************************************************************)
\* Where an element starts and ends, and where the next one starts.
LEMMA Layout ==
  ASSUME NEW b, IsTree(b), IsLaidOut(b), NEW e \in Elements(b)
  PROVE  /\ e \in Nat /\ b.start_data[e] \in Nat /\ b.end_data[e] \in Nat
         /\ Len(b.text) \in Nat /\ Len(b.text) < UMax - 1
         /\ b.start_data[e] <= b.end_data[e] /\ b.end_data[e] <= Len(b.text)
         /\ Size(b, e) \in Nat /\ b.start_data[e] + Size(b, e) = b.end_data[e]
         /\ e + 1 \in Elements(b) =>
              b.start_data[e + 1] = IF IsText(b, e) THEN b.end_data[e] ELSE b.start_data[e]
<1>1. e \in Nat
  BY TreeElements
<1>2. /\ b.start_data[e] \in Nat /\ b.end_data[e] \in Nat
      /\ b.text \in Seq({"a", " ", "l", "c"}) /\ Len(b.text) < UMax - 1
      /\ b.start_data[e] <= b.end_data[e] /\ b.end_data[e] <= Len(b.text)
      /\ e + 1 \in Elements(b) =>
           b.start_data[e + 1] = IF IsText(b, e) THEN b.end_data[e] ELSE b.start_data[e]
  BY DEF IsLaidOut, IsUtf8
<1>3. Len(b.text) \in Nat
  <2>1. PICK C : C = {"a", " ", "l", "c"}
    OBVIOUS
  <2>2. b.text \in Seq(C)
    BY <1>2, <2>1
  <2>3. QED  BY <2>2
<1>4. Size(b, e) \in Nat /\ b.start_data[e] + Size(b, e) = b.end_data[e]
  <2>1. PICK x \in Nat : x = b.start_data[e]
    BY <1>2
  <2>2. PICK y \in Nat : y = b.end_data[e]
    BY <1>2
  <2>3. x <= y /\ Size(b, e) = y - x
    BY <1>2, <2>1, <2>2 DEF Size
  <2>4. QED  BY <2>1, <2>2, <2>3
<1>5. QED  BY <1>1, <1>2, <1>3, <1>4

\* A place in a text, or none.
InText(b, r, pos) ==
  r.ok => /\ r.el \in Elements(b) /\ IsText(b, r.el)
          /\ r.off \in Nat /\ r.off <= Size(b, r.el)
          /\ b.start_data[r.el] + r.off = pos

\* The equation of get_real_rel_pos, with the offset as it is read.
RealAt(b, el, o) ==
  LET real[e \in Int] ==
        [k \in Nat |->
           IF ~get_next_sgml_obj(b, e) THEN Nowhere
           ELSE IF ~IsText(b, e) THEN real[e + 1][k]
           ELSE IF k <= Size(b, e) THEN At(e, k)
           ELSE real[e + 1][k - Size(b, e)]]
  IN real[el][o]

\* It is that from one element and offset on.
LEMMA RealAtStep ==
  ASSUME NEW b, IsTree(b), IsLaidOut(b), NEW el \in Int, NEW o \in Nat
  PROVE  RealAt(b, el, o) =
           IF el \notin Elements(b) THEN Nowhere
           ELSE IF ~IsText(b, el) THEN RealAt(b, el + 1, o)
           ELSE IF o <= Size(b, el) THEN At(el, o)
           ELSE RealAt(b, el + 1, o - Size(b, el))
<1> DEFINE P == [ok : BOOLEAN, el : Int, off : Int]
           V == [Nat -> P]
           done == {e \in Int : e \notin Elements(b)}
           after == [e \in Int |-> e + 1]
           rank == [e \in Int |-> IF e \in Elements(b) THEN no_elements(b) - e ELSE 0]
           val == [e \in Int |-> [k \in Nat |-> Nowhere]]
           step == [e \in Int |-> [g \in V |->
                     [k \in Nat |->
                        IF ~IsText(b, e) THEN g[k]
                        ELSE IF k <= Size(b, e) THEN At(e, k) ELSE g[k - Size(b, e)]]]]
           Body(f) == [e \in Int |->
                        [k \in Nat |->
                           IF ~get_next_sgml_obj(b, e) THEN Nowhere
                           ELSE IF ~IsText(b, e) THEN f[e + 1][k]
                           ELSE IF k <= Size(b, e) THEN At(e, k)
                           ELSE f[e + 1][k - Size(b, e)]]]
<1>1. \A e \in Elements(b) : e \in Int /\ Size(b, e) \in Nat
  BY Layout
<1>2. Nowhere \in P /\ \A e \in Int, k \in Nat : At(e, k) \in P
  BY DEF Nowhere, At
<1>3. \A e \in Int \cap done : val[e] \in V
  BY <1>2
<1>4. ASSUME NEW e \in Int \ done, NEW v \in V
      PROVE  step[e][v] \in V
  <2>1. \A k \in Nat : ~(k <= Size(b, e)) => k - Size(b, e) \in Nat
    BY <1>1
  <2> HIDE DEF P
  <2>2. QED  BY <1>2, <2>1
<1>5. Nearing(Int, done, after, rank)
  <2>1. /\ no_elements(b) \in Nat
        /\ \A e \in Elements(b) : e \in Nat /\ e < no_elements(b)
    BY TreeElements
  <2>2. rank \in [Int -> Nat]
    BY <2>1
  <2>3. ASSUME NEW e \in Int \ done PROVE after[e] \in Int /\ rank[after[e]] < rank[e]
    BY <2>1
  <2>4. QED  BY <2>2, <2>3 DEF Nearing
<1>6. PICK f \in [Int -> V] : \A e \in Int : f[e] = StepAt(done, after, val, step, f, e)
  <2> HIDE DEF V, val, step, done, after, rank
  <2>1. Recursion(Int, V, done, after, rank, val, step)
    BY <1>3, <1>4, <1>5 DEF Recursion
  <2>2. QED  BY <2>1, StepsExist
<1>7. f = Body(f)
  <2>1. ASSUME NEW e \in Int PROVE f[e] = Body(f)[e]
    <3>1. CASE e \in done
      <4>1. f[e] = val[e]
        BY <1>6, <3>1 DEF StepAt
      <4>2. QED  BY <3>1, <4>1 DEF get_next_sgml_obj
    <3>2. CASE e \notin done
      <4>1. f[e + 1] \in V
        BY <1>6
      <4>2. f[e] = step[e][f[e + 1]]
        BY <1>6, <3>2 DEF StepAt
      <4> HIDE DEF P
      <4>3. QED  BY <3>2, <4>1, <4>2 DEF get_next_sgml_obj
    <3>3. QED  BY <3>1, <3>2
  <2>2. f = [e \in Int |-> f[e]]
    BY <1>6
  <2>3. QED  BY <2>1, <2>2
<1> DEFINE real == CHOOSE g : g = Body(g)
<1>8. real = Body(real)
  BY <1>7
<1>9. \A e, k : RealAt(b, e, k) = real[e][k]
  BY DEF RealAt
<1> HIDE DEF real
<1>10. real[el][o] = IF el \notin Elements(b) THEN Nowhere
                     ELSE IF ~IsText(b, el) THEN real[el + 1][o]
                     ELSE IF o <= Size(b, el) THEN At(el, o)
                     ELSE real[el + 1][o - Size(b, el)]
  <2>1. real[el][o] = Body(real)[el][o]
    BY <1>8
  <2>2. QED  BY <2>1 DEF get_next_sgml_obj
<1> HIDE DEF Body
<1>11. QED  BY <1>9, <1>10

\* It keeps the place.
LEMMA RealAtKeeps ==
  ASSUME NEW b, IsTree(b), IsLaidOut(b), NEW el \in Elements(b), NEW o \in Nat
  PROVE  InText(b, RealAt(b, el, o), b.start_data[el] + o)
<1> DEFINE rank == [e \in Elements(b) |-> no_elements(b) - e]
           W == {e \in Elements(b) :
                   \E k \in Nat : ~InText(b, RealAt(b, e, k), b.start_data[e] + k)}
<1>1. SUFFICES ASSUME W # {} PROVE FALSE
  OBVIOUS
<1>2. /\ no_elements(b) \in Nat
      /\ \A e \in Elements(b) : e \in Nat /\ e < no_elements(b)
  BY TreeElements
<1>3. PICK e \in W : \A y \in W : rank[e] <= rank[y]
  <2>1. rank \in [Elements(b) -> Nat] /\ W \in SUBSET Elements(b)
    BY <1>2
  <2> HIDE DEF W, rank
  <2>2. QED  BY <1>1, <2>1, LeastRank
<1>4. PICK k \in Nat : ~InText(b, RealAt(b, e, k), b.start_data[e] + k)
  BY <1>3
<1>5. e \in Elements(b) /\ e \in Int
  BY <1>2
<1>6. \A j \in Nat : e + 1 \in Elements(b) =>
        InText(b, RealAt(b, e + 1, j), b.start_data[e + 1] + j)
  <2>1. e + 1 \in Elements(b) => e + 1 \notin W
    BY <1>2, <1>3, <1>5
  <2>2. QED  BY <2>1
<1>7. e + 1 \notin Elements(b) => \A j \in Nat : ~RealAt(b, e + 1, j).ok
  <2>1. e + 1 \in Int /\ ~Nowhere.ok
    BY <1>5 DEF Nowhere
  <2>2. QED  BY <2>1, RealAtStep
<1>8. CASE ~IsText(b, e)
  <2>1. RealAt(b, e, k) = RealAt(b, e + 1, k)
    BY <1>5, <1>8, RealAtStep
  <2>2. e + 1 \in Elements(b) => b.start_data[e + 1] = b.start_data[e]
    BY <1>5, <1>8, Layout
  <2>3. QED  BY <1>4, <1>6, <1>7, <2>1, <2>2 DEF InText
<1>9. CASE IsText(b, e) /\ k <= Size(b, e)
  <2>1. RealAt(b, e, k) = At(e, k)
    BY <1>5, <1>9, RealAtStep
  <2>2. QED  BY <1>4, <1>5, <1>9, <2>1 DEF InText, At
<1>10. CASE IsText(b, e) /\ ~(k <= Size(b, e))
  <2>1. Size(b, e) \in Nat /\ k - Size(b, e) \in Nat
    BY <1>5, <1>10, Layout
  <2>2. RealAt(b, e, k) = RealAt(b, e + 1, k - Size(b, e))
    BY <1>5, <1>10, RealAtStep
  <2>3. e + 1 \in Elements(b) =>
          b.start_data[e + 1] + (k - Size(b, e)) = b.start_data[e] + k
    <3>1. b.start_data[e] \in Nat /\ b.start_data[e] + Size(b, e) = b.end_data[e]
      BY <1>5, Layout
    <3>2. e + 1 \in Elements(b) => b.start_data[e + 1] = b.end_data[e]
      BY <1>5, <1>10, Layout
    <3>3. QED  BY <2>1, <3>1, <3>2
  <2>4. QED  BY <1>4, <1>6, <1>7, <2>1, <2>2, <2>3 DEF InText
<1>11. QED  BY <1>8, <1>9, <1>10

\* get_real_rel_pos keeps the place; from the offset -1, which it reads as the
\* greatest number, it finds none.
LEMMA RealPosKeeps ==
  ASSUME NEW b, IsTree(b), IsLaidOut(b), NEW el \in Elements(b), NEW off \in Nat \cup {-1}
  PROVE  /\ InText(b, get_real_rel_pos(b, el, off), b.start_data[el] + off)
         /\ off = -1 => ~get_real_rel_pos(b, el, off).ok
<1> DEFINE o == Unsigned(off)
<1>1. o \in Nat /\ (off # -1 => o = off) /\ (off = -1 => o = UMax - 1)
  BY DEF Unsigned, UMax
<1>2. get_real_rel_pos(b, el, off) = RealAt(b, el, o)
  BY DEF get_real_rel_pos, RealAt
<1> HIDE DEF o
<1>3. InText(b, RealAt(b, el, o), b.start_data[el] + o)
  BY <1>1, RealAtKeeps
<1>4. ASSUME off = -1, RealAt(b, el, o).ok PROVE FALSE
  <2> DEFINE r == RealAt(b, el, o)
  <2>1. /\ r.el \in Elements(b) /\ r.off \in Nat /\ r.off <= Size(b, r.el)
        /\ b.start_data[r.el] + r.off = b.start_data[el] + o
    BY <1>3, <1>4 DEF InText
  <2> HIDE DEF r
  <2>2. /\ b.start_data[r.el] \in Nat /\ b.end_data[r.el] \in Nat /\ Size(b, r.el) \in Nat
        /\ b.start_data[r.el] + Size(b, r.el) = b.end_data[r.el]
        /\ b.end_data[r.el] <= Len(b.text) /\ Len(b.text) < UMax - 1 /\ Len(b.text) \in Nat
    BY <2>1, Layout
  <2>3. b.start_data[el] \in Nat
    BY Layout
  <2>4. PICK x, y, z, l \in Nat :
          /\ x = b.start_data[el] /\ y = b.start_data[r.el] /\ z = Size(b, r.el)
          /\ l = Len(b.text)
    BY <2>2, <2>3
  <2>5. PICK k \in Nat : k = r.off
    BY <2>1
  <2>6. k <= z /\ y + k = x + o /\ y + z <= l /\ l < UMax - 1 /\ o = UMax - 1
    BY <1>1, <1>4, <2>1, <2>2, <2>4, <2>5
  <2>7. QED  BY <1>1, <2>6 DEF UMax
<1>5. QED  BY <1>1, <1>2, <1>3, <1>4 DEF InText

\* A link that get_rel_pos follows goes to a greater element.
LEMMA DownLinks ==
  ASSUME NEW b, IsTree(b), NEW e \in Elements(b)
  PROVE  /\ b.child[e] # None => b.child[e] \in Elements(b) /\ b.child[e] > e
         /\ b.rsib[e] # None => b.rsib[e] \in Elements(b) /\ b.rsib[e] > e
<1>1. /\ NearestOf(Below(b, e), b.child[e], None, "on")
      /\ NearestOf({f \in Beside(b, e) : f > e}, b.rsib[e], None, "on")
  BY TreeLinks
<1>2. b.child[e] # None => b.child[e] \in Below(b, e)
  BY <1>1 DEF NearestOf
<1>3. b.rsib[e] # None => b.rsib[e] \in {f \in Beside(b, e) : f > e}
  <2> DEFINE T == {f \in Beside(b, e) : f > e}
  <2> HIDE DEF T
  <2>1. NearestOf(T, b.rsib[e], None, "on")
    BY <1>1 DEF T
  <2>2. b.rsib[e] # None => b.rsib[e] \in T
    BY <2>1 DEF NearestOf
  <2>3. QED  BY <2>2 DEF T
<1>4. \A f \in Below(b, e) : f \in Elements(b) /\ f > e
  <2>1. SUFFICES ASSUME NEW f \in Below(b, e) PROVE f \in Elements(b) /\ f > e
    OBVIOUS
  <2>2. f \in Elements(b) \ {0} /\ b.ancestor[f] = e
    BY <2>1 DEF Below
  <2>3. b.ancestor[f] < f
    BY <2>2, TreeLinks
  <2>4. f \in Nat /\ e \in Nat
    BY <2>2, TreeElements
  <2>5. QED  BY <2>2, <2>3, <2>4
<1>5. QED  BY <1>2, <1>3, <1>4 DEF Beside, Below

\* Where get_rel_pos ends: nowhere, or at an element that the position is in.
Holds(b, pos, e) == Inside(b, pos, e) \/ Edge(b, pos, e)
LEMMA DescendHolds ==
  ASSUME NEW b, IsTree(b), IsLaidOut(b), NEW pos \in Nat
  PROVE  \/ Descend(b, pos) = Endless
         \/ Descend(b, pos) \in Elements(b) /\ Holds(b, pos, Descend(b, pos))
<1> DEFINE S == Elements(b)
           V == S \cup {Endless}
           deeper(e) == Inside(b, pos, e) /\ b.child[e] # None
           done == {e \in S : ~deeper(e) /\ (Holds(b, pos, e) \/ b.rsib[e] = None)}
           next == [e \in S |-> IF deeper(e) THEN b.child[e] ELSE b.rsib[e]]
           rank == [e \in S |-> no_elements(b) - e]
           val == [e \in S |-> IF Holds(b, pos, e) THEN e ELSE Endless]
           step == [e \in S |-> [v \in V |-> v]]
           Body(f) == [e \in S |->
                        IF deeper(e) THEN f[b.child[e]]
                        ELSE IF Holds(b, pos, e) THEN e
                        ELSE IF b.rsib[e] # None THEN f[b.rsib[e]]
                        ELSE Endless]
<1>1. /\ no_elements(b) \in Nat
      /\ \A e \in S : e \in Nat /\ e < no_elements(b)
      /\ 0 \in S
  BY TreeElements
<1>2. \A e \in S \ done : next[e] \in S /\ next[e] > e
  BY DownLinks
<1> HIDE DEF deeper
<1>3. rank \in [S -> Nat]
  BY <1>1
<1>4. \A e \in S \ done : rank[next[e]] < rank[e]
  <2>1. SUFFICES ASSUME NEW e \in S \ done PROVE rank[next[e]] < rank[e]
    OBVIOUS
  <2> HIDE DEF done
  <2>2. PICK x \in S : x = next[e] /\ x > e
    BY <1>2
  <2>3. QED  BY <1>1, <2>2
<1>5. Nearing(S, done, next, rank)
  <2> HIDE DEF S, done, next, rank
  <2>1. QED  BY <1>2, <1>3, <1>4 DEF Nearing
<1>6. (\A e \in S \cap done : val[e] \in V) /\ \A e \in S \ done : \A v \in V : step[e][v] \in V
  OBVIOUS
<1>7. PICK f \in [S -> V] : \A e \in S : f[e] = StepAt(done, next, val, step, f, e)
  <2> HIDE DEF S, V, val, step, done, next, rank
  <2>1. Recursion(S, V, done, next, rank, val, step)
    BY <1>5, <1>6 DEF Recursion
  <2>2. QED  BY <2>1, StepsExist
<1>8. f = Body(f)
  <2>1. ASSUME NEW e \in S PROVE f[e] = Body(f)[e]
    <3>1. CASE e \in done
      <4>1. f[e] = val[e]
        BY <1>7, <3>1 DEF StepAt
      <4>2. QED  BY <3>1, <4>1
    <3>2. CASE e \notin done
      <4>1. next[e] \in S
        BY <1>2, <3>2
      <4>2. f[next[e]] \in V
        BY <1>7, <4>1
      <4>3. f[e] = f[next[e]]
        BY <1>7, <3>2, <4>2 DEF StepAt
      <4>4. QED  BY <3>2, <4>3
    <3>3. QED  BY <3>1, <3>2
  <2>2. f = [e \in S |-> f[e]]
    BY <1>7
  <2> HIDE DEF S
  <2>3. QED  BY <2>1, <2>2
<1> DEFINE down == CHOOSE g : g = Body(g)
<1>9. down = Body(down)
  BY <1>8
<1>10. Descend(b, pos) = down[0]
  BY DEF Descend, deeper, Holds
<1> HIDE DEF down
<1> DEFINE Good(v) == v = Endless \/ (v \in S /\ Holds(b, pos, v))
           W == {e \in S : ~Good(down[e])}
<1>11. W = {}
  <2>1. SUFFICES ASSUME W # {} PROVE FALSE
    OBVIOUS
  <2>2. PICK e \in W : \A y \in W : rank[e] <= rank[y]
    <3>1. W \in SUBSET S
      OBVIOUS
    <3> HIDE DEF W, rank
    <3>2. QED  BY <1>3, <2>1, <3>1, LeastRank
  <2>3. down[e] = Body(down)[e]
    BY <1>9
  <2>4. e \notin done
    BY <2>2, <2>3
  <2>5. next[e] \in S /\ next[e] > e
    BY <1>2, <2>2, <2>4
  <2>6. Good(down[next[e]])
    <3>1. PICK x \in S : x = next[e] /\ x > e
      BY <2>5
    <3>2. x \in Nat /\ e \in Nat /\ rank[x] < rank[e]
      BY <1>1, <2>2, <3>1
    <3>3. rank[x] \in Nat /\ rank[e] \in Nat
      BY <1>3, <2>2
    <3>4. x \notin W
      BY <2>2, <3>2, <3>3
    <3>5. QED  BY <3>1, <3>4
  <2>7. down[e] = down[next[e]]
    BY <2>2, <2>3, <2>4
  <2>8. QED  BY <2>2, <2>6, <2>7
<1>12. QED  BY <1>1, <1>10, <1>11

\* A place, in an element or at its end.
IsPlace(b, r, pos) ==
  r.el \in Elements(b) /\ r.off \in Nat /\ b.start_data[r.el] + r.off = pos

\* get_rel_pos goes that many characters on, but not to before the text.
LEMMA RelPosKeeps ==
  ASSUME NEW b, IsTree(b), IsLaidOut(b), NEW el \in Elements(b), NEW off \in Int, NEW n \in Int,
         NEW pos \in Int, pos = b.start_data[el] + off + n,
         NEW p, p = get_rel_pos(b, el, off, n), p.ok
  PROVE  IsPlace(b, p, IF pos < 0 THEN 0 ELSE pos)
<1>1. PICK x \in Nat : x = b.start_data[el]
  BY Layout
<1> DEFINE at == IF pos < 0 THEN 0 ELSE pos
           found == Descend(b, at)
<1>2. at \in Nat
  OBVIOUS
<1>3. Max({0, b.start_data[el] + off + n}) = at
  BY <1>1, MaxOfTwo
<1>4. found # Endless /\ p = At(found, at - b.start_data[found])
  BY <1>3 DEF get_rel_pos, Nowhere
<1> HIDE DEF at
<1>5. found \in Elements(b) /\ Holds(b, at, found)
  BY <1>2, <1>4, DescendHolds
<1> HIDE DEF found
<1>6. PICK y, z \in Nat : y = b.start_data[found] /\ z = b.end_data[found] /\ y <= z
  BY <1>5, Layout
<1>7. y <= at
  BY <1>2, <1>5, <1>6 DEF Holds, Inside, Edge
<1>8. IsPlace(b, p, at)
  BY <1>2, <1>4, <1>5, <1>6, <1>7 DEF At, IsPlace
<1>9. QED  BY <1>8 DEF at

\* So it does from a place.
LEMMA RelPosFrom ==
  ASSUME NEW b, IsTree(b), IsLaidOut(b), NEW e, NEW pos \in Nat, IsPlace(b, e, pos),
         NEW m \in Int, NEW p, p.ok,
         p \in {get_rel_pos(b, e.el, e.off, m), get_rel_pos(b, e.el, 0, e.off + m)}
  PROVE  IsPlace(b, p, IF pos + m < 0 THEN 0 ELSE pos + m)
<1>1. PICK off \in Nat, y \in Nat, el \in Elements(b) :
        el = e.el /\ off = e.off /\ y = b.start_data[el] /\ y + off = pos
  BY Layout DEF IsPlace
<1>2. /\ off \in Int /\ off + m \in Int /\ 0 \in Int /\ pos + m \in Int
      /\ pos + m = b.start_data[el] + off + m
      /\ pos + m = b.start_data[el] + 0 + (off + m)
  BY <1>1
<1> DEFINE at == pos + m
<1> HIDE DEF at
<1>3. CASE p = get_rel_pos(b, el, off, m)
  BY <1>2, <1>3, RelPosKeeps DEF at
<1>4. CASE p = get_rel_pos(b, el, 0, off + m)
  BY <1>2, <1>4, RelPosKeeps DEF at
<1>5. QED  BY <1>1, <1>3, <1>4

\* The less of two.
LEMMA MinOfTwo ==
  ASSUME NEW x \in Int, NEW y \in Int
  PROVE  Min({x, y}) = IF x <= y THEN x ELSE y
<1>1. PICK T \in SUBSET Int : T = {x, y}
  OBVIOUS
<1>2. CASE x <= y
  <2>1. x \in T /\ \A z \in T : x <= z
    BY <1>1, <1>2
  <2>2. QED  BY <1>1, <1>2, <2>1, MinOf
<1>3. CASE ~(x <= y)
  <2>1. y \in T /\ \A z \in T : y <= z
    BY <1>1, <1>3
  <2>2. QED  BY <1>1, <1>3, <2>1, MinOf
<1>4. QED  BY <1>2, <1>3

(***************************************************************************)
(* White space: the commands without a style                               *)
(***************************************************************************)
\* Where the text is cut: at a white space between two places.
LEMMA CutsAre ==
  ASSUME NEW b, NEW from \in Nat, NEW to \in Int,
         NEW cuts, cuts = Spaces(b, from, to), cuts # {}
  PROVE  \A m \in {Max(cuts), Min(cuts)} :
           m \in Nat /\ from <= m /\ m <= to - 1 /\ b.text[m + 1] = " "
<1>1. ASSUME NEW i \in cuts
      PROVE  i \in Nat /\ from <= i /\ i <= to - 1 /\ b.text[i + 1] = " "
  <2>1. i \in from .. to - 1
    BY DEF Spaces
  <2>2. i \in Nat /\ from <= i /\ i <= to - 1
    BY <2>1
  <2>3. b.text[i + 1] = " "
    BY DEF Spaces
  <2>4. QED  BY <2>2, <2>3
<1>2. to - 1 \in Nat
  <2>1. PICK i : i \in cuts
    OBVIOUS
  <2>2. i \in Nat /\ i <= to - 1
    BY <1>1, <2>1
  <2>3. QED  BY <2>2
<1>3. cuts \in SUBSET Nat /\ \A i \in cuts : i <= to - 1
  BY <1>1
<1>4. Max(cuts) \in cuts
  BY <1>2, <1>3, MaxIsGreatest
<1>5. Min(cuts) \in cuts
  BY <1>3, MinIsLeast
<1>6. QED  BY <1>1, <1>4, <1>5

\* What a command is asked: an element with an offset in it, and a number.
Asks(b, el, off, n) ==
  /\ IsTree(b) /\ IsLaidOut(b) /\ el \in Elements(b)
  /\ off \in Nat \cup {-1} /\ off <= Size(b, el)
  /\ n \in Nat \ {0}
AskedFrom(b, el, off) == b.start_data[el] + EndOr(b, el, off)

\* It is asked about a place in the text.
LEMMA AskedIs ==
  ASSUME NEW b, NEW el, NEW off, NEW n, Asks(b, el, off, n)
  PROVE  /\ EndOr(b, el, off) \in Nat /\ EndOr(b, el, off) <= Size(b, el)
         /\ AskedFrom(b, el, off) =
              IF off = -1 THEN b.end_data[el] ELSE b.start_data[el] + off
         /\ AskedFrom(b, el, off) \in Nat /\ AskedFrom(b, el, off) <= Len(b.text)
<1>1. PICK x, y, z, l \in Nat :
        /\ x = b.start_data[el] /\ y = b.end_data[el] /\ z = Size(b, el) /\ l = Len(b.text)
        /\ x + z = y /\ y <= l
  BY Layout DEF Asks
<1>2. QED  BY <1>1 DEF EndOr, AskedFrom, Asks

\* nextChars without a style ends before a white space.
LEMMA NextRawIsWhole ==
  ASSUME NEW b, NEW el, NEW off, NEW n, Asks(b, el, off, n),
         NEW r, r = get_next_chars_raw(b, el, off, n), r.ok
  PROVE  /\ r.from = AskedFrom(b, el, off)
         /\ b.text[r.to + 1] = " " /\ r.to - r.from < n
<1> DEFINE from == IF off = -1 THEN b.end_data[el] ELSE b.start_data[el] + off
           to == Min({from + n, Len(b.text)})
           cuts == Spaces(b, from + 1, to)
<1>1. from = AskedFrom(b, el, off) /\ from \in Nat /\ n \in Nat
  BY AskedIs DEF Asks
<1>2. cuts # {} /\ r = Slice(from, Max(cuts))
  BY DEF get_next_chars_raw, NoSlice
<1> HIDE DEF from
<1>3. to \in Int /\ to <= from + n
  <2>1. PICK l \in Nat : l = Len(b.text)
    BY Layout DEF Asks
  <2>2. from + n \in Int
    BY <1>1
  <2>3. QED  BY <2>1, <2>2, MinOfTwo
<1> HIDE DEF to
<1>4. Max(cuts) \in Nat /\ Max(cuts) <= to - 1 /\ b.text[Max(cuts) + 1] = " "
  <2>1. from + 1 \in Nat
    BY <1>1
  <2>2. QED  BY <1>2, <1>3, <2>1, CutsAre
<1> HIDE DEF cuts
<1>5. r.from = from /\ r.to = Max(cuts)
  BY <1>2 DEF Slice
<1>6. r.to - r.from < n
  <2>1. PICK x \in Nat, y \in Int, m \in Nat : x = from /\ y = to /\ m = Max(cuts)
    BY <1>1, <1>3, <1>4
  <2>2. m <= y - 1 /\ y <= x + n /\ r.to = m /\ r.from = x
    BY <1>3, <1>4, <1>5, <2>1
  <2>3. m - x < n
    BY <1>1, <2>1, <2>2
  <2>4. QED  BY <2>2, <2>3
<1>7. QED  BY <1>1, <1>4, <1>5, <1>6

\* What prevChars without a style returns.
WordsBefore(b, el, off, n, r) ==
  /\ r.to = AskedFrom(b, el, off)
  /\ r.from = AskedFrom(b, el, off) - n \/ b.text[r.from] = " "

\* It starts after a white space, or returns all.
LEMMA PrevRawIsWhole ==
  ASSUME NEW b, NEW el, NEW off, NEW n, Asks(b, el, off, n), n <= AskedFrom(b, el, off),
         NEW r, r = get_prev_chars_raw(b, el, off, n), r.ok
  PROVE  WordsBefore(b, el, off, n, r)
<1> DEFINE at == AskedFrom(b, el, off)
           start == IF off = -1 THEN b.end_data[el] - n ELSE b.start_data[el] + off - n
           from == Max({start, 0})
           to == IF start < 0 THEN off ELSE start + n
           cuts == Spaces(b, from, to)
<1>1. at \in Nat /\ start = at - n /\ start \in Nat /\ n \in Nat
  <2>0. el \in Elements(b) /\ off \in Int /\ n \in Nat
    BY DEF Asks
  <2>1. /\ at = IF off = -1 THEN b.end_data[el] ELSE b.start_data[el] + off
        /\ at \in Nat
    BY AskedIs
  <2>2. PICK a \in Nat : a = at /\ a >= n
    BY <2>1
  <2>3. PICK x, y \in Nat : x = b.start_data[el] /\ y = b.end_data[el]
    BY Layout DEF Asks
  <2> HIDE DEF at
  <2>4. start = a - n
    BY <2>0, <2>1, <2>2, <2>3
  <2>5. QED  BY <2>0, <2>2, <2>4
<1>2. r = Slice(from, to) \/ (cuts # {} /\ r = Slice(Min(cuts) + 1, to))
  BY DEF get_prev_chars_raw, NoSlice
<1> HIDE DEF start, at
<1>3. from = at - n /\ to = at
  <2>1. Max({start, 0}) = start
    BY <1>1, MaxOfTwo
  <2>2. QED  BY <1>1, <2>1
<1>4. from \in Nat /\ to \in Int
  BY <1>1, <1>3
<1> HIDE DEF from, to
<1>5. cuts # {} => b.text[Min(cuts) + 1] = " "
  BY <1>4, CutsAre
<1> HIDE DEF cuts
<1>6. r.to = at /\ (r.from = at - n \/ b.text[r.from] = " ")
  <2>1. CASE r = Slice(from, to)
    BY <1>3, <2>1 DEF Slice
  <2>2. CASE cuts # {} /\ r = Slice(Min(cuts) + 1, to)
    <3>1. r.to = to /\ r.from = Min(cuts) + 1
      BY <2>2 DEF Slice
    <3>2. QED  BY <1>3, <1>5, <2>2, <3>1
  <2>3. QED  BY <1>2, <2>1, <2>2
<1>7. QED  BY <1>6 DEF at, WordsBefore

\* What an answer was asked.
LEMMA IInvAsked ==
  ASSUME IInv, reply.cmd \in {"nextChars", "prevChars"}
  PROVE  /\ Asks(book, reply.el, reply.off, reply.n)
         /\ AskedPlace = AskedFrom(book, reply.el, reply.off)
<1>1. Asks(book, reply.el, reply.off, reply.n)
  BY BooksAssumption, ArgsAssumption DEF IInv, NextReplied, PrevReplied, Els, Offsets, Asks
<1>2. QED  BY <1>1 DEF AskedPlace, Place, AskedFrom

\* The commands without a style return whole words.
LEMMA IInvWholeWords == IInv => WholeWords
<1>1. SUFFICES ASSUME IInv PROVE WholeWords
  OBVIOUS
<1>2. ASSUME reply.cmd = "nextChars", reply.text.ok
      PROVE  /\ reply.text.from = AskedPlace /\ book.text[reply.text.to + 1] = " "
             /\ reply.text.to - reply.text.from < reply.n
  <2>1. reply.text = get_next_chars_raw(book, reply.el, reply.off, reply.n)
    BY <1>1, <1>2 DEF IInv, NextReplied
  <2>2. /\ Asks(book, reply.el, reply.off, reply.n)
        /\ AskedPlace = AskedFrom(book, reply.el, reply.off)
    BY <1>1, <1>2, IInvAsked
  <2>3. /\ reply.text.from = AskedFrom(book, reply.el, reply.off)
        /\ book.text[reply.text.to + 1] = " "
        /\ reply.text.to - reply.text.from < reply.n
    BY <1>2, <2>1, <2>2, NextRawIsWhole, Zenon
  <2>4. QED  BY <2>2, <2>3
<1>3. ASSUME reply.cmd = "prevChars", reply.text.ok, AskedPlace >= reply.n
      PROVE  /\ reply.text.to = AskedPlace
             /\ \/ reply.text.from = AskedPlace - reply.n
                \/ book.text[reply.text.from] = " "
  <2>1. reply.text = get_prev_chars_raw(book, reply.el, reply.off, reply.n)
    BY <1>1, <1>3 DEF IInv, PrevReplied
  <2>2. /\ Asks(book, reply.el, reply.off, reply.n)
        /\ AskedPlace = AskedFrom(book, reply.el, reply.off)
    BY <1>1, <1>3, IInvAsked
  <2>3. reply.n <= AskedFrom(book, reply.el, reply.off)
    BY <1>3, <2>2
  <2>4. WordsBefore(book, reply.el, reply.off, reply.n, reply.text)
    BY <1>3, <2>1, <2>2, <2>3, PrevRawIsWhole
  <2>5. QED  BY <2>2, <2>4 DEF WordsBefore
<1>4. QED  BY <1>2, <1>3 DEF WholeWords, Asked

\* nextChars and prevChars without a style cut the text at white space only.
THEOREM WordsAreWhole == Spec => []WholeWords
BY Replied, IInvWholeWords, PTL

(***************************************************************************)
(* Where characters begin                                                  *)
(***************************************************************************)
\* The bytes that are read around a bound.
LEMMA WindowIs ==
  ASSUME NEW b, IsLaidOut(b), NEW from \in Nat, NEW count \in Nat, NEW to \in Nat,
         to = IF from + count <= Len(b.text) THEN from + count ELSE Len(b.text),
         from < to, NEW where, NEW w, w = Window(b, from, count, where)
  PROVE  /\ Len(w) = to - from /\ w # <<>>
         /\ \A i \in 1 .. to - from : w[i] = b.text[from + i]
<1>1. PICK C : C = {"a", " ", "l", "c"}
  OBVIOUS
<1>2. b.text \in Seq(C)
  BY <1>1 DEF IsLaidOut, IsUtf8
<1>3. PICK t : t \in Seq(C) /\ t = b.text
  BY <1>2
<1>4. Len(t) \in Nat /\ to <= Len(t) /\ w = SubSeq(t, from + 1, to)
  <2>1. PICK l \in Nat : l = Len(t)
    BY <1>3
  <2>2. Min({from + count, l}) = to /\ to <= l
    BY <1>3, <2>1, MinOfTwo
  <2>3. ~(from < 0)
    OBVIOUS
  <2>4. QED  BY <1>3, <2>1, <2>2, <2>3 DEF Window
<1>5. \A i \in from + 1 .. to : t[i] \in C
  BY <1>3, <1>4
<1>6. Len(w) = to - from /\ \A i \in 1 .. to - from : w[i] = t[from + i]
  BY <1>4, <1>5, SubSeqProperties
<1>7. w # <<>>
  <2>1. to - from # 0
    OBVIOUS
  <2>2. QED  BY <1>6, <2>1
<1>8. QED  BY <1>3, <1>6, <1>7

\* What follows a character of its own begins one, and one does in any four.
LEMMA TextIs ==
  ASSUME NEW b, IsLaidOut(b)
  PROVE  /\ Len(b.text) \in Nat
         /\ \A i \in Nat \ {0} : i < Len(b.text) /\ Single(b.text[i]) => Begins(b.text[i + 1])
         /\ \A i \in Nat \ {0} : i + 3 <= Len(b.text) =>
              \E j \in Nat : i <= j /\ j <= i + 3 /\ Begins(b.text[j])
<1>1. /\ b.text \in Seq({"a", " ", "l", "c"})
      /\ \A i \in 1 .. Len(b.text) : ~Begins(b.text[i]) => i > 1 /\ ~Single(b.text[i - 1])
      /\ \A i \in 1 .. Len(b.text) - 3 : \E j \in i .. i + 3 : Begins(b.text[j])
  BY DEF IsLaidOut, IsUtf8
<1>2. Len(b.text) \in Nat
  <2>1. PICK C : C = {"a", " ", "l", "c"}
    OBVIOUS
  <2>2. b.text \in Seq(C)
    BY <1>1, <2>1
  <2>3. QED  BY <2>2
<1>3. ASSUME NEW i \in Nat \ {0}, i < Len(b.text), Single(b.text[i])
      PROVE  Begins(b.text[i + 1])
  <2>1. i + 1 \in 1 .. Len(b.text) /\ (i + 1) - 1 = i
    BY <1>2, <1>3
  <2>2. QED  BY <1>1, <1>3, <2>1
<1>4. ASSUME NEW i \in Nat \ {0}, i + 3 <= Len(b.text)
      PROVE  \E j \in Nat : i <= j /\ j <= i + 3 /\ Begins(b.text[j])
  <2>1. i \in 1 .. Len(b.text) - 3
    BY <1>2, <1>4
  <2>2. PICK j \in i .. i + 3 : Begins(b.text[j])
    BY <1>1, <2>1
  <2>3. j \in Nat /\ i <= j /\ j <= i + 3
    OBVIOUS
  <2>4. QED  BY <2>2, <2>3
<1>5. QED  BY <1>2, <1>3, <1>4

\* The first place from one on where a character begins.
LaterBegins(b, e) == {p \in e .. Len(b.text) - 1 : Begins(b.text[p + 1])}
EndsAt(b, e) == IF LaterBegins(b, e) = {} THEN e ELSE Min(LaterBegins(b, e))

\* It is this one when nothing begins later than the next bytes that are read.
LEMMA EndsHere ==
  ASSUME NEW b, IsLaidOut(b), NEW e \in Nat, e <= Len(b.text),
         \/ e < Len(b.text) => Begins(b.text[e + 1])
         \/ \A p \in Nat : e <= p /\ p < Len(b.text) => ~Begins(b.text[p + 1])
  PROVE  EndsAt(b, e) = e
<1> DEFINE T == LaterBegins(b, e)
<1>1. Len(b.text) \in Nat
  BY TextIs
<1>2. ASSUME NEW p \in T PROVE p \in Nat /\ e <= p /\ p < Len(b.text) /\ Begins(b.text[p + 1])
  <2>1. p \in e .. Len(b.text) - 1 /\ Begins(b.text[p + 1])
    BY DEF LaterBegins
  <2>2. p \in Nat /\ e <= p /\ p < Len(b.text)
    BY <1>1, <2>1
  <2>3. QED  BY <2>1, <2>2
<1>3. CASE e < Len(b.text) /\ Begins(b.text[e + 1])
  <2>1. e \in e .. Len(b.text) - 1
    BY <1>1, <1>3
  <2>2. e \in T
    BY <1>3, <2>1 DEF LaterBegins
  <2> HIDE DEF T
  <2>3. T \in SUBSET Int /\ \A p \in T : e <= p
    BY <1>2
  <2>4. Min(T) = e
    BY <2>2, <2>3, MinOf
  <2>5. QED  BY <2>2, <2>4 DEF EndsAt, T
<1>4. CASE ~(e < Len(b.text) /\ Begins(b.text[e + 1]))
  <2>1. T = {}
    <3>1. SUFFICES ASSUME NEW p \in T PROVE FALSE
      OBVIOUS
    <3>2. p \in Nat /\ e <= p /\ p < Len(b.text) /\ Begins(b.text[p + 1])
      BY <1>2
    <3>3. e < Len(b.text)
      BY <1>1, <3>2
    <3>4. QED  BY <1>4, <3>2, <3>3
  <2>2. QED  BY <2>1 DEF EndsAt
<1>5. QED  BY <1>3, <1>4

\* It is the one that a byte begins at and none before it.
LEMMA EndsThere ==
  ASSUME NEW b, IsLaidOut(b), NEW e \in Nat, NEW q \in Nat, e <= q, q < Len(b.text),
         Begins(b.text[q + 1]),
         \A p \in Nat : e <= p /\ p < q => ~Begins(b.text[p + 1])
  PROVE  EndsAt(b, e) = q
<1> DEFINE T == LaterBegins(b, e)
<1>1. Len(b.text) \in Nat
  BY TextIs
<1>2. ASSUME NEW p \in T PROVE p \in Nat /\ q <= p
  <2>1. p \in e .. Len(b.text) - 1 /\ Begins(b.text[p + 1])
    BY DEF LaterBegins
  <2>2. p \in Nat /\ e <= p
    BY <2>1
  <2>3. ~(p < q)
    BY <2>1, <2>2
  <2>4. QED  BY <2>2, <2>3
<1>3. q \in T
  <2>1. q \in e .. Len(b.text) - 1
    BY <1>1
  <2>2. QED  BY <2>1 DEF LaterBegins
<1> HIDE DEF T
<1>4. Min(T) = q
  <2>1. T \in SUBSET Int
    BY <1>2
  <2>2. QED  BY <1>2, <1>3, <2>1, MinOf
<1>5. QED  BY <1>3, <1>4 DEF EndsAt, T

\* The end of a span is moved to where a character begins.
LEMMA EndOfCharacterIs ==
  ASSUME NEW b, IsTree(b), IsLaidOut(b), NEW e, NEW where, NEW pos \in Nat \ {0},
         IsPlace(b, e, pos), e.ok, pos <= Len(b.text),
         NEW x, x = EndOfCharacter(b, e, where), x.ok
  PROVE  IsPlace(b, x, EndsAt(b, pos))
<1> DEFINE to == IF pos + 9 <= Len(b.text) THEN pos + 9 ELSE Len(b.text)
           w == Window(b, b.start_data[e.el] + e.off - 1, 10, where)
           starts == {i \in 1 .. Len(w) - 1 : Begins(w[i + 1])}
           k == Len(w)
<1>1. PICK l \in Nat : l = Len(b.text) /\ pos <= l
  BY TextIs
<1>2. PICK f \in Nat : f + 1 = pos /\ f = b.start_data[e.el] + e.off - 1
  <2>1. PICK off \in Nat, y \in Nat : off = e.off /\ y = b.start_data[e.el] /\ y + off = pos
    BY Layout DEF IsPlace
  <2>2. pos - 1 \in Nat /\ (pos - 1) + 1 = pos /\ y + off - 1 = pos - 1
    BY <2>1
  <2>3. QED  BY <2>1, <2>2
<1>3. to \in Nat /\ f < to /\ to = IF f + 10 <= l THEN f + 10 ELSE l
  BY <1>1, <1>2
<1>4. k = to - f /\ w # <<>> /\ \A i \in 1 .. k : w[i] = b.text[f + i]
  <2>1. PICK c \in Nat : c = 10 /\ w = Window(b, f, c, where)
    BY <1>2
  <2> HIDE DEF w, to
  <2>2. to = IF f + c <= Len(b.text) THEN f + c ELSE Len(b.text)
    BY <1>1, <1>3, <2>1
  <2>3. /\ Len(w) = to - f /\ w # <<>>
        /\ \A i \in 1 .. to - f : w[i] = b.text[f + i]
    BY <1>3, <2>1, <2>2, WindowIs
  <2>4. QED  BY <2>3
<1> HIDE DEF to
<1> HIDE DEF w, k
<1>5. k \in Nat /\ 1 <= k /\ k <= 10
  BY <1>1, <1>2, <1>3, <1>4
<1>6. \A i \in Nat : 1 <= i /\ i <= k => w[i] = b.text[pos + i - 1]
  <2>1. \A i \in Nat : 1 <= i /\ i <= k => i \in 1 .. k /\ f + i = pos + i - 1
    BY <1>2, <1>5
  <2>2. QED  BY <1>4, <2>1
<1>7. CASE Single(w[1])
  <2>1. w[1] = b.text[pos]
    BY <1>5, <1>6
  <2>2. pos < Len(b.text) => Begins(b.text[pos + 1])
    BY <1>7, <2>1, TextIs
  <2>3. EndsAt(b, pos) = pos
    BY <1>1, <2>2, EndsHere
  <2>4. x = e
    BY <1>7 DEF EndOfCharacter, w
  <2>5. QED  BY <2>3, <2>4
<1>8. starts \in SUBSET Nat
      /\ \A i \in Nat : i \in starts <=> 1 <= i /\ i < k /\ Begins(b.text[pos + i])
  <2>1. \A i \in starts : i \in Nat
    BY <1>5 DEF k
  <2>2. ASSUME NEW i \in Nat
        PROVE  i \in starts <=> 1 <= i /\ i < k /\ Begins(b.text[pos + i])
    <3>1. i \in 1 .. k - 1 <=> 1 <= i /\ i < k
      BY <1>5
    <3>2. 1 <= i /\ i < k => w[i + 1] = b.text[pos + i]
      <4>1. 1 <= i /\ i < k => /\ i + 1 \in Nat /\ 1 <= i + 1 /\ i + 1 <= k
                               /\ pos + (i + 1) - 1 = pos + i
        BY <1>5
      <4>2. QED  BY <1>6, <4>1
    <3>3. i \in starts <=> i \in 1 .. k - 1 /\ Begins(w[i + 1])
      BY DEF k
    <3>4. QED  BY <3>1, <3>2, <3>3
  <2>3. QED  BY <2>1, <2>2
<1>9. NextBegin(w) = IF starts = {} THEN k ELSE Min(starts)
  BY DEF NextBegin, k
<1> HIDE DEF starts
<1>10. CASE starts = {} /\ ~Single(w[1])
  <2>1. ASSUME NEW p \in Nat, pos <= p, p < l, Begins(b.text[p + 1]) PROVE FALSE
    <3>1. ~(p + 1 < pos + k)
      <4>1. p + 1 - pos \in Nat /\ 1 <= p + 1 - pos /\ pos + (p + 1 - pos) = p + 1
        BY <2>1
      <4>2. ~(p + 1 - pos < k)
        BY <1>8, <1>10, <2>1, <4>1
      <4>3. QED  BY <1>5, <4>2
    <3>2. k = 10 /\ pos + 9 <= l
      BY <1>1, <1>2, <1>3, <1>4, <2>1, <3>1
    <3>3. PICK j \in Nat : pos + 1 <= j /\ j <= pos + 4 /\ Begins(b.text[j])
      <4>1. pos + 1 \in Nat \ {0} /\ (pos + 1) + 3 <= Len(b.text)
        BY <1>1, <3>2
      <4>2. PICK j \in Nat : pos + 1 <= j /\ j <= (pos + 1) + 3 /\ Begins(b.text[j])
        BY <4>1, TextIs
      <4>3. QED  BY <4>2
    <3>4. j - pos \in Nat /\ 1 <= j - pos /\ j - pos < k /\ pos + (j - pos) = j
      BY <3>2, <3>3
    <3>5. j - pos \in starts
      BY <1>8, <3>3, <3>4
    <3>6. QED  BY <1>10, <3>5
  <2>2. \A p \in Nat : pos <= p /\ p < Len(b.text) => ~Begins(b.text[p + 1])
    BY <1>1, <2>1
  <2>3. EndsAt(b, pos) = pos
    BY <1>1, <2>2, EndsHere
  <2>4. x = e
    BY <1>9, <1>10 DEF EndOfCharacter, w, k
  <2>5. QED  BY <2>3, <2>4
<1>11. CASE starts # {} /\ ~Single(w[1])
  <2>1. PICK m \in Nat : m = Min(starts) /\ m \in starts /\ \A i \in starts : m <= i
    BY <1>8, <1>11, MinIsLeast
  <2>2. 1 <= m /\ m < k /\ Begins(b.text[pos + m])
    BY <1>8, <2>1
  <2>3. NextBegin(w) = m /\ m # Len(w)
    BY <1>5, <1>9, <1>11, <2>1, <2>2 DEF k
  <2>4. x = get_rel_pos(b, e.el, 0, e.off + m - 1)
    BY <1>4, <1>11, <2>3 DEF EndOfCharacter, w
  <2>5. IsPlace(b, x, pos + m - 1)
    <3>1. PICK off \in Nat : off = e.off
      BY DEF IsPlace
    <3>2. off + m - 1 = off + (m - 1) /\ m - 1 \in Int
      OBVIOUS
    <3>3. x = get_rel_pos(b, e.el, 0, e.off + (m - 1))
      BY <2>4, <3>1, <3>2
    <3>4. IsPlace(b, x, IF pos + (m - 1) < 0 THEN 0 ELSE pos + (m - 1))
      BY <3>2, <3>3, RelPosFrom
    <3>5. ~(pos + (m - 1) < 0) /\ pos + (m - 1) = pos + m - 1
      BY <2>2
    <3>6. QED  BY <3>4, <3>5
  <2>6. EndsAt(b, pos) = pos + m - 1
    <3>1. PICK q \in Nat : q = pos + m - 1 /\ q + 1 = pos + m /\ pos <= q
      BY <2>2
    <3>2. q < Len(b.text)
      BY <1>1, <1>2, <1>3, <1>4, <1>5, <2>2, <3>1
    <3>3. ASSUME NEW p \in Nat, pos <= p, p < q PROVE ~Begins(b.text[p + 1])
      <4>1. p + 1 - pos \in Nat /\ 1 <= p + 1 - pos /\ p + 1 - pos < m
            /\ pos + (p + 1 - pos) = p + 1
        BY <3>1, <3>3
      <4>2. p + 1 - pos < k /\ p + 1 - pos \notin starts
        BY <1>5, <2>1, <2>2, <4>1
      <4>3. QED  BY <1>8, <4>1, <4>2
    <3>4. Begins(b.text[q + 1])
      BY <2>2, <3>1
    <3>5. QED  BY <3>1, <3>2, <3>3, <3>4, EndsThere
  <2>7. QED  BY <2>5, <2>6
<1>12. QED  BY <1>7, <1>10, <1>11

(***************************************************************************)
(* The commands with a style                                               *)
(***************************************************************************)
\* A place in a text is one in the file, and not that of another text when
\* no element is one.
LEMMA InTextIsPlace ==
  ASSUME NEW b, IsTree(b), IsLaidOut(b), NEW r, NEW pos \in Int, InText(b, r, pos), r.ok
  PROVE  IsPlace(b, r, pos) /\ pos \in Nat /\ pos <= Len(b.text)
<1>1. r.el \in Elements(b) /\ r.off \in Nat /\ r.off <= Size(b, r.el)
      /\ b.start_data[r.el] + r.off = pos
  BY DEF InText
<1>2. PICK off, y, z \in Nat : off = r.off /\ y = b.start_data[r.el] /\ z = b.end_data[r.el]
  BY <1>1, Layout
<1>3. y <= z /\ z <= Len(b.text) /\ Len(b.text) \in Nat /\ Size(b, r.el) = z - y
  BY <1>1, <1>2, Layout DEF Size
<1>4. pos = y + off /\ off <= z - y
  BY <1>1, <1>2, <1>3
<1>5. pos \in Nat /\ pos <= z
  BY <1>2, <1>4
<1>6. pos <= Len(b.text)
  <2>1. PICK l \in Nat : l = Len(b.text)
    BY <1>3
  <2>2. QED  BY <1>2, <1>3, <1>5, <2>1
<1>7. QED  BY <1>1, <1>5, <1>6 DEF IsPlace

\* Where no element is SDATA no bound is moved off one.
LEMMA NoSdata ==
  ASSUME NEW b, \A e \in Elements(b) : b.gi[e] # "SDATA", NEW p, NEW off,
         p.ok => p.el \in Elements(b)
  PROVE  ~AfterSdata(b, p, off)
BY DEF AfterSdata

\* Bounds are good when both are.
LEMMA BoundsOk ==
  ASSUME NEW s, NEW e, Bounds(s, e).ok
  PROVE  s.ok /\ e.ok
BY DEF Bounds

\* The bounds are those of two places.
Spans(b, bd, from, to) ==
  /\ bd.start_el \in Elements(b) /\ b.start_data[bd.start_el] + bd.start_off = from
  /\ bd.end_el \in Elements(b) /\ b.start_data[bd.end_el] + bd.end_off = to

\* nextChars outputs from where it was asked to, to where a character begins.
LEMMA NextCharsAre ==
  ASSUME NEW b, NEW el, NEW off, NEW n, Asks(b, el, off, n),
         \A e \in Elements(b) : b.gi[e] # "SDATA",
         NEW where, NEW bd, bd = calc_next_chars(b, el, off, n, where), bd.ok
  PROVE  Spans(b, bd, AskedFrom(b, el, off), EndsAt(b, AskedFrom(b, el, off) + n))
<1>1. PICK a \in Nat : a = AskedFrom(b, el, off) /\ a <= Len(b.text)
  BY AskedIs
<1>2. PICK o \in Nat : o = EndOr(b, el, off) /\ b.start_data[el] + o = a
  BY <1>1, AskedIs DEF AskedFrom
<1>3. IsTree(b) /\ IsLaidOut(b) /\ el \in Elements(b) /\ n \in Nat /\ n # 0
  BY DEF Asks
<1>4. PICK s : s = get_real_rel_pos(b, el, o)
  OBVIOUS
<1>5. InText(b, s, a)
  BY <1>2, <1>3, <1>4, RealPosKeeps
<1>6. ~AfterSdata(b, s, o)
  BY <1>5, NoSdata DEF InText
<1>7. PICK e : e = get_rel_pos(b, s.el, s.off, n)
  OBVIOUS
<1>8. PICK r : r = get_real_rel_pos(b, e.el, e.off)
  OBVIOUS
<1>9. PICK x : x = EndOfCharacter(b, r, where)
  OBVIOUS
<1>10. s.ok /\ e.ok /\ r.ok /\ x.ok /\ bd = Bounds(s, x)
  <2> DEFINE e1 == IF s.ok THEN get_rel_pos(b, s.el, s.off, n) ELSE Nowhere
             r1 == IF e1.ok THEN get_real_rel_pos(b, e1.el, e1.off) ELSE Nowhere
  <2>1. bd = IF r1.ok THEN Bounds(s, EndOfCharacter(b, r1, where)) ELSE NoBounds
    BY <1>2, <1>4, <1>6 DEF calc_next_chars
  <2>2. ~NoBounds.ok /\ ~Nowhere.ok
    BY DEF NoBounds, Bounds, Nowhere
  <2>3. r1.ok /\ bd = Bounds(s, EndOfCharacter(b, r1, where))
    BY <2>1, <2>2
  <2>4. e1.ok /\ r1 = get_real_rel_pos(b, e1.el, e1.off)
    BY <2>2, <2>3
  <2>5. s.ok /\ e1 = e
    BY <1>7, <2>2, <2>4
  <2>6. r1 = r
    BY <1>8, <2>4, <2>5
  <2>7. bd = Bounds(s, x) /\ r.ok
    BY <1>9, <2>3, <2>6
  <2>8. Bounds(s, x).ok
    BY <2>7
  <2>9. x.ok
    BY <2>8, BoundsOk
  <2> HIDE DEF e1, r1
  <2>10. QED  BY <2>4, <2>5, <2>7, <2>9, Zenon
<1>11. IsPlace(b, s, a)
  BY <1>3, <1>5, <1>10, InTextIsPlace
<1>12. IsPlace(b, e, a + n)
  <2>1. ~(a + n < 0) /\ n \in Int
    BY <1>3
  <2>2. IsPlace(b, e, IF a + n < 0 THEN 0 ELSE a + n)
    BY <1>3, <1>7, <1>10, <1>11, <2>1, RelPosFrom
  <2>3. QED  BY <2>1, <2>2
<1>13. IsPlace(b, r, a + n) /\ a + n <= Len(b.text)
  <2>1. PICK c \in Elements(b), d \in Nat :
          c = e.el /\ d = e.off /\ b.start_data[c] + d = a + n
    BY <1>12 DEF IsPlace
  <2>2. InText(b, r, a + n)
    BY <1>3, <1>8, <2>1, RealPosKeeps
  <2>3. a + n \in Int
    BY <1>3
  <2>4. QED  BY <1>3, <1>10, <2>2, <2>3, InTextIsPlace
<1>14. IsPlace(b, x, EndsAt(b, a + n))
  <2>1. PICK q \in Nat \ {0} : q = a + n
    BY <1>3
  <2>2. QED  BY <1>3, <1>9, <1>10, <1>13, <2>1, EndOfCharacterIs
<1>15. QED  BY <1>1, <1>10, <1>11, <1>14 DEF Spans, IsPlace, Bounds

\* So a procedure is answered.
LEMMA IInvNextSpan == IInv => NextSpan
<1>1. SUFFICES ASSUME IInv, reply.cmd = "nextChars", reply.bounds.ok, ~HasSdata
               PROVE  /\ StartPlace(reply.bounds) = AskedPlace
                      /\ EndPlace(reply.bounds) = EndsAt(book, AskedPlace + reply.n)
  BY DEF NextSpan, Asked, EndsAt, LaterBegins
<1>2. /\ Asks(book, reply.el, reply.off, reply.n)
      /\ AskedPlace = AskedFrom(book, reply.el, reply.off)
  BY <1>1, IInvAsked
<1>3. reply.bounds = calc_next_chars(book, reply.el, reply.off, reply.n, 0)
  BY <1>1 DEF IInv, NextReplied
<1>4. \A e \in Elements(book) : book.gi[e] # "SDATA"
  BY <1>1 DEF HasSdata, Els
<1>5. Spans(book, reply.bounds, AskedPlace, EndsAt(book, AskedPlace + reply.n))
  BY <1>1, <1>2, <1>3, <1>4, NextCharsAre
<1>6. QED  BY <1>5 DEF Spans, StartPlace, EndPlace, Place

\* nextChars with a style outputs from where it was asked to, to the end of
\* the character in which the last byte asked for is: in every text, and
\* however its elements divide it.
THEOREM NextEndsACharacter == Spec => []NextSpan
BY Replied, IInvNextSpan, PTL

\* The last place up to one where a character begins.
StartsAt(b, q) ==
  Max({p \in 0 .. q : p >= Len(b.text) \/ Begins(b.text[p + 1])})

\* It is the one that a byte begins at and none after it.
LEMMA StartsThere ==
  ASSUME NEW b, NEW q \in Nat, NEW p \in Nat, p <= q, q < Len(b.text), Len(b.text) \in Nat,
         Begins(b.text[p + 1]),
         \A r \in Nat : p < r /\ r <= q => ~Begins(b.text[r + 1])
  PROVE  StartsAt(b, q) = p
<1> DEFINE T == {r \in 0 .. q : r >= Len(b.text) \/ Begins(b.text[r + 1])}
<1>1. ASSUME NEW r \in T PROVE r \in Int /\ r <= p
  <2>1. r \in 0 .. q /\ (r >= Len(b.text) \/ Begins(b.text[r + 1]))
    OBVIOUS
  <2>2. r \in Nat /\ r <= q
    BY <2>1
  <2>3. ~(r >= Len(b.text))
    BY <2>2
  <2>4. ~(p < r)
    BY <2>1, <2>2, <2>3
  <2>5. QED  BY <2>2, <2>4
<1>2. p \in T
  <2>1. p \in 0 .. q
    OBVIOUS
  <2>2. QED  BY <2>1
<1> HIDE DEF T
<1>3. Max(T) = p
  <2>1. T \in SUBSET Int
    BY <1>1
  <2>2. QED  BY <1>1, <1>2, <2>1, MaxOf
<1>4. QED  BY <1>3 DEF StartsAt, T

\* The start of a span is moved to where its character begins.
LEMMA StartOfCharacterIs ==
  ASSUME NEW b, IsTree(b), IsLaidOut(b), NEW s, NEW pos \in Nat,
         IsPlace(b, s, pos), s.ok, 9 <= pos, pos < Len(b.text),
         NEW x, x = StartOfCharacter(b, s), x.ok
  PROVE  IsPlace(b, x, StartsAt(b, pos))
<1> DEFINE at == b.start_data[s.el] + s.off - 9
           w == Window(b, Max({at, 0}), IF at < 0 THEN -at ELSE 10, 0)
           starts == {i \in 0 .. Len(w) - 1 : Begins(w[i + 1])}
<1>1. PICK l \in Nat : l = Len(b.text) /\ pos < l
  BY TextIs
<1>2. PICK f \in Nat : f + 9 = pos /\ at = f
  <2>1. PICK off \in Nat, y \in Nat : off = s.off /\ y = b.start_data[s.el] /\ y + off = pos
    BY Layout DEF IsPlace
  <2>2. pos - 9 \in Nat /\ (pos - 9) + 9 = pos /\ y + off - 9 = pos - 9
    BY <2>1
  <2>3. QED  BY <2>1, <2>2
<1>3. PICK c, where : c \in Nat /\ c = 10 /\ w = Window(b, f, c, where)
  <2>1. Max({f, 0}) = f /\ ~(f < 0)
    BY MaxOfTwo
  <2>2. QED  BY <1>2, <2>1
<1> HIDE DEF w
<1>4. PICK to \in Nat : to = f + 10
  OBVIOUS
<1>5. f < to /\ to = IF f + c <= Len(b.text) THEN f + c ELSE Len(b.text)
  BY <1>1, <1>2, <1>3, <1>4
<1>6. Len(w) = 10 /\ w # <<>> /\ \A i \in 1 .. 10 : w[i] = b.text[f + i]
  <2>1. /\ Len(w) = to - f /\ w # <<>>
        /\ \A i \in 1 .. to - f : w[i] = b.text[f + i]
    BY <1>3, <1>5, WindowIs
  <2>2. to - f = 10
    BY <1>4
  <2>3. QED  BY <2>1, <2>2
<1>7. w[10] = b.text[pos + 1]
  <2>1. 10 \in 1 .. 10 /\ f + 10 = pos + 1
    BY <1>2
  <2>2. QED  BY <1>6, <2>1
<1>8. ASSUME Begins(w[10]) PROVE StartsAt(b, pos) = pos
  <2>1. PICK p \in Nat : p = pos /\ p <= pos
    OBVIOUS
  <2>2. \A r \in Nat : p < r /\ r <= pos => ~Begins(b.text[r + 1])
    BY <2>1
  <2>3. Begins(b.text[p + 1])
    BY <1>7, <1>8, <2>1
  <2>4. StartsAt(b, pos) = p
    BY <1>1, <2>1, <2>2, <2>3, StartsThere
  <2>5. QED  BY <2>1, <2>4
<1>9. starts \in SUBSET Nat
      /\ \A i \in Nat : i \in starts <=> i <= 9 /\ Begins(b.text[f + i + 1])
  <2>1. starts = {i \in 0 .. 9 : Begins(w[i + 1])}
    BY <1>6
  <2>2. \A i \in starts : i \in Nat
    BY <2>1
  <2>3. ASSUME NEW i \in Nat
        PROVE  i \in starts <=> i <= 9 /\ Begins(b.text[f + i + 1])
    <3>1. i \in 0 .. 9 <=> i <= 9
      OBVIOUS
    <3>2. PICK k \in Nat : k = i + 1 /\ f + k = f + i + 1 /\ (i <= 9 => k \in 1 .. 10)
      OBVIOUS
    <3>3. i <= 9 => w[i + 1] = b.text[f + i + 1]
      <4>1. i <= 9 => w[k] = b.text[f + k]
        BY <1>6, <3>2
      <4>2. QED  BY <3>2, <4>1
    <3> HIDE DEF starts
    <3>4. QED  BY <2>1, <3>1, <3>3
  <2> HIDE DEF starts
  <2>4. QED  BY <2>2, <2>3
<1>10. LastBegin(w) = IF starts = {} THEN Fail ELSE Max(starts)
  BY DEF LastBegin
<1> HIDE DEF starts
<1>11. starts # {}
  <2>1. f + 1 \in Nat \ {0} /\ (f + 1) + 3 <= Len(b.text)
    BY <1>1, <1>2
  <2>2. PICK j \in Nat : f + 1 <= j /\ j <= (f + 1) + 3 /\ Begins(b.text[j])
    BY <2>1, TextIs
  <2>3. j - f - 1 \in Nat /\ j - f - 1 <= 9 /\ f + (j - f - 1) + 1 = j
    BY <2>2
  <2>4. j - f - 1 \in starts
    BY <1>9, <2>2, <2>3
  <2>5. QED  BY <2>4
<1>12. PICK i \in Nat : i = LastBegin(w) /\ i \in starts /\ \A k \in starts : k <= i
  <2>1. \A k \in starts : k <= 9
    BY <1>9
  <2>2. 9 \in Nat
    OBVIOUS
  <2>3. Max(starts) \in starts /\ \A k \in starts : k <= Max(starts)
    BY <1>9, <1>11, <2>1, <2>2, MaxIsGreatest
  <2>4. QED  BY <1>9, <1>10, <1>11, <2>3
<1>13. i <= 9 /\ Begins(b.text[f + i + 1])
  BY <1>9, <1>12
<1>14. x = IF Single(w[10]) \/ i = 9 THEN s
           ELSE get_rel_pos(b, s.el, 0, s.off + (i + 1) - 10)
  <2>1. ~(i = Fail)
    BY DEF Fail
  <2>2. x = IF ~s.ok \/ w = <<>> \/ Single(w[Len(w)]) \/ i = Len(w) - 1 THEN s
            ELSE get_rel_pos(b, s.el, 0, s.off + (IF i = Fail THEN -1 ELSE i + 1) - Len(w))
    BY <1>12 DEF StartOfCharacter, w
  <2>3. Len(w) - 1 = 9
    BY <1>6
  <2>4. QED  BY <1>6, <2>1, <2>2, <2>3
<1>15. CASE Single(w[10]) \/ i = 9
  <2>1. Begins(w[10])
    <3>1. CASE i = 9
      <4>1. f + i + 1 = pos + 1
        BY <1>2, <3>1
      <4>2. QED  BY <1>7, <1>13, <4>1
    <3>2. CASE Single(w[10])
      BY <3>2 DEF Single, Begins
    <3>3. QED  BY <1>15, <3>1, <3>2
  <2>2. QED  BY <1>8, <1>14, <1>15, <2>1
<1>16. CASE ~(Single(w[10]) \/ i = 9)
  <2>1. PICK p \in Nat : p = f + i /\ p <= pos /\ p = pos + (i - 9) /\ p + 1 = f + i + 1
    BY <1>2, <1>13
  <2>2. IsPlace(b, x, p)
    <3>1. PICK off \in Nat : off = s.off
      BY DEF IsPlace
    <3>2. off + (i + 1) - 10 = off + (i - 9) /\ i - 9 \in Int
      OBVIOUS
    <3>3. x = get_rel_pos(b, s.el, 0, s.off + (i - 9))
      BY <1>14, <1>16, <3>1, <3>2
    <3>4. IsPlace(b, x, IF pos + (i - 9) < 0 THEN 0 ELSE pos + (i - 9))
      BY <3>2, <3>3, RelPosFrom
    <3>5. ~(pos + (i - 9) < 0)
      BY <2>1
    <3>6. QED  BY <2>1, <3>4, <3>5
  <2>3. ASSUME NEW r \in Nat, p < r, r <= pos PROVE ~Begins(b.text[r + 1])
    <3>1. r - f \in Nat /\ r - f <= 9 /\ f + (r - f) + 1 = r + 1 /\ ~(r - f <= i)
      BY <1>2, <2>1, <2>3
    <3>2. r - f \notin starts
      BY <1>12, <3>1
    <3>3. QED  BY <1>9, <3>1, <3>2
  <2>4. Begins(b.text[p + 1])
    BY <1>13, <2>1
  <2>5. StartsAt(b, pos) = p
    BY <1>1, <2>1, <2>3, <2>4, StartsThere
  <2>6. QED  BY <2>2, <2>5
<1>17. QED  BY <1>15, <1>16

\* prevChars outputs to where it was asked to, and from where a character begins.
LEMMA PrevCharsAre ==
  ASSUME NEW b, NEW el, NEW off, NEW n, Asks(b, el, off, n),
         \A e \in Elements(b) : b.gi[e] # "SDATA",
         NEW bd, bd = calc_prev_chars(b, el, off, n), bd.ok
  PROVE  /\ bd.end_el \in Elements(b)
         /\ b.start_data[bd.end_el] + bd.end_off = AskedFrom(b, el, off)
         /\ AskedFrom(b, el, off) - n >= 9 =>
              Spans(b, bd, StartsAt(b, AskedFrom(b, el, off) - n), AskedFrom(b, el, off))
<1>1. PICK a \in Nat : a = AskedFrom(b, el, off) /\ a <= Len(b.text)
  BY AskedIs
<1>3. IsTree(b) /\ IsLaidOut(b) /\ el \in Elements(b) /\ n \in Nat /\ n # 0
      /\ off \in Nat \cup {-1}
  BY DEF Asks
<1>4. PICK e : e = get_real_rel_pos(b, el, off)
  OBVIOUS
<1>5. PICK p : p = get_rel_pos(b, e.el, e.off, -n)
  OBVIOUS
<1>6. PICK q : q = get_real_rel_pos(b, p.el, p.off)
  OBVIOUS
<1>7. PICK x : x = StartOfCharacter(b, q)
  OBVIOUS
<1> DEFINE p1 == IF e.ok THEN get_rel_pos(b, e.el, e.off, -n) ELSE Nowhere
           q1 == IF p1.ok THEN get_real_rel_pos(b, p1.el, p1.off) ELSE Nowhere
           s1 == IF AfterSdata(b, q1, q1.off) THEN get_real_rel_pos(b, q1.el + 1, 1) ELSE q1
<1>8. bd = IF s1.ok THEN Bounds(StartOfCharacter(b, s1), e) ELSE NoBounds
  BY <1>4 DEF calc_prev_chars
<1>9. ~NoBounds.ok /\ ~Nowhere.ok
  BY DEF NoBounds, Bounds, Nowhere
<1>10. s1.ok /\ bd = Bounds(StartOfCharacter(b, s1), e)
  BY <1>8, <1>9
<1>11. e.ok /\ StartOfCharacter(b, s1).ok
  <2> HIDE DEF s1
  <2>1. Bounds(StartOfCharacter(b, s1), e).ok
    BY <1>10
  <2>2. QED  BY <2>1, BoundsOk
<1>12. IsPlace(b, e, a) /\ b.gi[e.el] # "SDATA"
  <2>1. off # -1 /\ InText(b, e, b.start_data[el] + off)
    BY <1>3, <1>4, <1>11, RealPosKeeps
  <2>2. a = b.start_data[el] + off
    BY <1>1, <2>1 DEF AskedFrom, EndOr
  <2>3. QED  BY <1>1, <1>3, <1>11, <2>1, <2>2, InTextIsPlace DEF IsPlace
<1>13. bd.end_el = e.el /\ bd.end_off = e.off
  <2> HIDE DEF s1
  <2>1. QED  BY <1>10 DEF Bounds
<1>14. ASSUME a - n >= 9
       PROVE  Spans(b, bd, StartsAt(b, a - n), a)
  <2>1. q1.ok
    <3>1. ~q1.ok => s1 = q1
      BY DEF AfterSdata
    <3> HIDE DEF q1, s1
    <3>2. QED  BY <1>10, <3>1
  <2>2. p1.ok /\ p1 = p
    BY <1>5, <1>9, <1>11, <2>1
  <2>3. p.ok /\ q1 = q /\ q.ok
    BY <1>6, <2>1, <2>2
  <2>4. PICK m \in Nat : m = a - n /\ 9 <= m /\ m = a + (-n) /\ m < a
    BY <1>3, <1>14
  <2>5. IsPlace(b, p, m)
    <3>1. -n \in Int /\ ~(a + (-n) < 0)
      BY <1>3, <2>4
    <3>2. IsPlace(b, p, IF a + (-n) < 0 THEN 0 ELSE a + (-n))
      BY <1>3, <1>5, <1>12, <2>3, <3>1, RelPosFrom
    <3>3. QED  BY <2>4, <3>1, <3>2
  <2>6. IsPlace(b, q, m)
    <3>1. PICK c \in Elements(b), d \in Nat :
            c = p.el /\ d = p.off /\ b.start_data[c] + d = m
      BY <2>5 DEF IsPlace
    <3>2. InText(b, q, m)
      BY <1>3, <1>6, <3>1, RealPosKeeps
    <3>3. QED  BY <1>3, <2>3, <3>2, InTextIsPlace
  <2>7. s1 = q
    <3>1. ~AfterSdata(b, q, q.off)
      BY <2>6 DEF AfterSdata, IsPlace
    <3>2. QED  BY <2>3, <3>1
  <2>8. x.ok /\ bd = Bounds(x, e)
    BY <1>7, <1>10, <1>11, <2>7
  <2>9. m < Len(b.text)
    BY <1>1, <2>4, <1>3, TextIs
  <2>10. IsPlace(b, x, StartsAt(b, m))
    BY <1>3, <1>7, <2>3, <2>4, <2>6, <2>8, <2>9, StartOfCharacterIs
  <2>11. bd.start_el = x.el /\ bd.start_off = x.off
    BY <2>8 DEF Bounds
  <2>12. QED  BY <1>12, <1>13, <2>4, <2>10, <2>11 DEF Spans, IsPlace
<1>15. QED  BY <1>1, <1>12, <1>13, <1>14 DEF IsPlace

\* So a procedure is answered.
LEMMA IInvPrevSpan == IInv => PrevSpan
<1>1. SUFFICES ASSUME IInv, reply.cmd = "prevChars", reply.bounds.ok, ~HasSdata
               PROVE  /\ EndPlace(reply.bounds) = AskedPlace
                      /\ AskedPlace - reply.n >= 9 =>
                           StartPlace(reply.bounds) = StartsAt(book, AskedPlace - reply.n)
  BY DEF PrevSpan, Asked, StartsAt, Boundary
<1>2. /\ Asks(book, reply.el, reply.off, reply.n)
      /\ AskedPlace = AskedFrom(book, reply.el, reply.off)
  BY <1>1, IInvAsked
<1>3. reply.bounds = calc_prev_chars(book, reply.el, reply.off, reply.n)
  BY <1>1 DEF IInv, PrevReplied
<1>4. \A e \in Elements(book) : book.gi[e] # "SDATA"
  BY <1>1 DEF HasSdata, Els
<1>5. PICK el, off, n, bd :
        el = reply.el /\ off = reply.off /\ n = reply.n /\ bd = reply.bounds
  OBVIOUS
<1>6. /\ bd.end_el \in Elements(book)
      /\ book.start_data[bd.end_el] + bd.end_off = AskedPlace
      /\ AskedPlace - n >= 9 => Spans(book, bd, StartsAt(book, AskedPlace - n), AskedPlace)
  BY <1>1, <1>2, <1>3, <1>4, <1>5, PrevCharsAre
<1>7. QED  BY <1>5, <1>6 DEF Spans, StartPlace, EndPlace, Place

\* prevChars with a style outputs to where it was asked to, and from the start
\* of the character in which the first byte asked for is: in every text whose
\* characters have at most four bytes.
THEOREM PrevStartsACharacter == Spec => []PrevSpan
BY Replied, IInvPrevSpan, PTL

(***************************************************************************)
(* What a loop keeps                                                       *)
(***************************************************************************)
\* The recursive function of Kept: what is kept of the first i.
Keeps(s, T, out) ==
  /\ out[0] = <<>>
  /\ \A i \in 1 .. Len(s) :
       out[i] = IF s[i] \in T THEN Append(out[i - 1], s[i]) ELSE out[i - 1]

\* It has a value.
LEMMA KeptIs ==
  ASSUME NEW A, NEW s \in Seq(A), NEW T
  PROVE  \E out \in [0 .. Len(s) -> Seq(A)] :
           Keeps(s, T, out) /\ Kept(s, T) = out[Len(s)]
<1> DEFINE S == 0 .. Len(s)
           V == Seq(A)
           before == [i \in S |-> i - 1]
           rank == [i \in S |-> i]
           val == [i \in S |-> <<>>]
           step == [i \in S |-> [v \in V |-> IF s[i] \in T THEN Append(v, s[i]) ELSE v]]
           Body(f) == [i \in S |->
                        IF i = 0 THEN <<>>
                        ELSE IF s[i] \in T THEN Append(f[i - 1], s[i])
                        ELSE f[i - 1]]
<1>0. Len(s) \in Nat
  OBVIOUS
<1>1. Recursion(S, V, {0}, before, rank, val, step)
  <2>1. Nearing(S, {0}, before, rank)
    BY <1>0 DEF Nearing
  <2>2. \A x \in S \cap {0} : val[x] \in V
    OBVIOUS
  <2>3. ASSUME NEW x \in S \ {0}, NEW v \in V PROVE step[x][v] \in V
    <3>1. s[x] \in A
      BY <1>0, ElementOfSeq
    <3>2. Append(v, s[x]) \in V
      BY <3>1
    <3>3. QED  BY <3>2
  <2> HIDE DEF S, V, before, rank, val, step
  <2>4. QED  BY <2>1, <2>2, <2>3 DEF Recursion
<1>2. PICK f \in [S -> V] : \A x \in S : f[x] = StepAt({0}, before, val, step, f, x)
  <2> HIDE DEF S, V, before, rank, val, step
  <2>1. QED  BY <1>1, StepsExist
<1>3. f = Body(f)
  <2>1. ASSUME NEW x \in S PROVE f[x] = Body(f)[x]
    <3>1. CASE x = 0
      BY <1>2, <3>1 DEF StepAt
    <3>2. CASE x # 0
      <4>1. x - 1 \in S /\ f[x - 1] \in V
        BY <1>0, <1>2, <3>2
      <4>2. f[x] = step[x][f[x - 1]]
        BY <1>2, <3>2 DEF StepAt
      <4>3. QED  BY <3>2, <4>1, <4>2
    <3>3. QED  BY <3>1, <3>2
  <2>2. f = [x \in S |-> f[x]]
    BY <1>2
  <2>3. QED  BY <2>1, <2>2
<1> DEFINE kept == CHOOSE g : g = Body(g)
<1>4. kept = Body(kept)
  BY <1>3
<1>5. Kept(s, T) = kept[Len(s)]
  BY DEF Kept
<1> HIDE DEF kept
<1>6. kept[0] = <<>>
  <2>1. 0 \in S
    BY <1>0
  <2>2. Body(kept)[0] = <<>>
    BY <2>1
  <2>3. QED  BY <1>4, <2>2
<1>7. ASSUME NEW i \in 1 .. Len(s)
      PROVE  kept[i] = IF s[i] \in T THEN Append(kept[i - 1], s[i]) ELSE kept[i - 1]
  <2>1. i \in S /\ i # 0
    BY <1>0
  <2>2. Body(kept)[i] = IF s[i] \in T THEN Append(kept[i - 1], s[i]) ELSE kept[i - 1]
    BY <2>1
  <2>3. QED  BY <1>4, <2>2
<1>8. kept \in [S -> V]
  <2> DEFINE W == {i \in S : kept[i] \notin V}
  <2>1. W = {}
    <3>1. SUFFICES ASSUME W # {} PROVE FALSE
      OBVIOUS
    <3>2. PICK i \in W : \A j \in W : i <= j
      <4>1. W \in SUBSET Nat
        BY <1>0
      <4> HIDE DEF W
      <4>2. QED  BY <3>1, <4>1, MinIsLeast
    <3>3. i # 0 /\ i \in 1 .. Len(s) /\ i - 1 \in S
      <4>1. i \in 0 .. Len(s) /\ kept[i] \notin Seq(A)
        OBVIOUS
      <4>2. <<>> \in Seq(A)
        OBVIOUS
      <4>3. i # 0
        BY <1>6, <4>1, <4>2
      <4>4. QED  BY <1>0, <4>1, <4>3
    <3>4. kept[i - 1] \in V
      BY <1>0, <3>2, <3>3
    <3>5. s[i] \in A
      BY <1>0, <3>3, ElementOfSeq
    <3>6. kept[i] \in V
      <4>1. Append(kept[i - 1], s[i]) \in Seq(A)
        BY <3>4, <3>5, AppendProperties
      <4>2. kept[i] = Append(kept[i - 1], s[i]) \/ kept[i] = kept[i - 1]
        BY <1>7, <3>3
      <4>3. QED  BY <3>4, <4>1, <4>2
    <3>7. QED  BY <3>6
  <2>2. kept = [i \in S |-> kept[i]]
    BY <1>4
  <2>3. QED  BY <2>1, <2>2
<1>9. QED  BY <1>5, <1>6, <1>7, <1>8 DEF Keeps

\* Of a list n elements of T, as many as there are, in their order, and all.
Picks(s, hits, kept) ==
  /\ Len(kept) = Cardinality(hits)
  /\ \A j \in 1 .. Len(kept) : \E k \in Nth(hits, j, "on") : kept[j] = s[k]
  /\ \A k \in hits : \E j \in 1 .. Len(kept) : kept[j] = s[k]

\* One more at the end.
LEMMA PicksOneMore ==
  ASSUME NEW s, NEW Q \in SUBSET Nat, IsFiniteSet(Q), NEW i \in Nat,
         \A k \in Q : k < i, NEW v, Len(v) \in Nat, Picks(s, Q, v),
         NEW w, Len(w) = Len(v) + 1, w[Len(v) + 1] = s[i],
         \A j \in 1 .. Len(v) : w[j] = v[j]
  PROVE  Picks(s, Q \cup {i}, w)
<1> DEFINE R == Q \cup {i}
<1>1. PICK m \in Nat : m = Len(v) /\ m = Cardinality(Q) /\ m + 1 = Len(w)
  BY DEF Picks
<1>2. i \notin Q /\ Cardinality(R) = m + 1
  <2>1. i \notin Q
    OBVIOUS
  <2>2. QED  BY <1>1, <2>1, FS_AddElement
<1>3. ASSUME NEW j \in 1 .. m + 1
      PROVE  \E k \in Nth(R, j, "on") : w[j] = s[k]
  <2>1. CASE j = m + 1
    <3>1. {f \in R : f <= i} = R /\ i \in R
      <4>1. \A f \in R : f \in Nat /\ f <= i
        OBVIOUS
      <4> HIDE DEF R
      <4>2. {f \in R : f <= i} = R
        BY <4>1
      <4>3. QED  BY <4>2 DEF R
    <3>2. i \in Nth(R, j, "on")
      BY <1>2, <2>1, <3>1 DEF Nth
    <3>3. QED  BY <1>1, <2>1, <3>2
  <2>2. CASE j # m + 1
    <3>1. j \in 1 .. m
      BY <2>2
    <3>2. PICK k \in Nth(Q, j, "on") : v[j] = s[k]
      BY <1>1, <3>1 DEF Picks
    <3>3. k \in Q /\ j = Cardinality({f \in Q : f <= k})
      BY <3>2 DEF Nth
    <3>4. {f \in R : f <= k} = {f \in Q : f <= k}
      BY <3>3
    <3>5. k \in Nth(R, j, "on")
      BY <3>3, <3>4 DEF Nth
    <3>6. QED  BY <1>1, <3>1, <3>2, <3>5
  <2>3. QED  BY <2>1, <2>2
<1>4. ASSUME NEW k \in R
      PROVE  \E j \in 1 .. m + 1 : w[j] = s[k]
  <2>1. CASE k = i
    <3>1. m + 1 \in 1 .. m + 1
      OBVIOUS
    <3>2. QED  BY <1>1, <2>1, <3>1
  <2>2. CASE k \in Q
    <3>1. PICK j \in 1 .. m : v[j] = s[k]
      BY <1>1, <2>2 DEF Picks
    <3>2. j \in 1 .. m + 1 /\ w[j] = v[j]
      BY <1>1, <3>1
    <3>3. QED  BY <3>1, <3>2
  <2>3. QED  BY <2>1, <2>2
<1>5. QED  BY <1>1, <1>2, <1>3, <1>4 DEF Picks

\* What is kept are the elements that are in T, each at its place.
LEMMA KeptPicks ==
  ASSUME NEW A, NEW s \in Seq(A), NEW T
  PROVE  /\ Kept(s, T) \in Seq(A)
         /\ Picks(s, {k \in 1 .. Len(s) : s[k] \in T}, Kept(s, T))
<1> DEFINE P(i) == {k \in 1 .. i : s[k] \in T}
<1>1. PICK out \in [0 .. Len(s) -> Seq(A)] : Keeps(s, T, out) /\ Kept(s, T) = out[Len(s)]
  BY KeptIs
<1>2. PICK n \in Nat : n = Len(s)
  OBVIOUS
<1>3. \A i \in 0 .. n : out[i] \in Seq(A) /\ Len(out[i]) \in Nat
  BY <1>1, <1>2
<1> DEFINE W == {i \in 0 .. n : ~ Picks(s, P(i), out[i])}
<1>4. W = {}
  <2>1. SUFFICES ASSUME W # {} PROVE FALSE
    OBVIOUS
  <2>2. PICK i \in W : \A j \in W : i <= j
    <3>1. W \in SUBSET Nat
      OBVIOUS
    <3> HIDE DEF W
    <3>2. QED  BY <2>1, <3>1, MinIsLeast
  <2>3. i \in Nat /\ i <= n /\ ~ Picks(s, P(i), out[i])
    OBVIOUS
  <2>4. i # 0
    <3>1. SUFFICES ASSUME i = 0 PROVE FALSE
      OBVIOUS
    <3>2. P(0) = {} /\ out[0] = <<>>
      BY <1>1 DEF Keeps
    <3>3. Len(<<>>) = 0 /\ Cardinality({}) = 0
      BY FS_EmptySet
    <3>4. Picks(s, {}, <<>>)
      BY <3>3 DEF Picks
    <3>5. QED  BY <2>3, <3>1, <3>2, <3>4
  <2>5. PICK h \in Nat : h = i - 1 /\ i = h + 1 /\ h < n
    BY <2>3, <2>4
  <2>6. Picks(s, P(h), out[h])
    <3>1. h \in 0 .. n /\ ~ i <= h
      BY <2>3, <2>5
    <3>2. h \notin W
      BY <2>2, <3>1
    <3>3. QED  BY <3>1, <3>2
  <2>7. PICK v \in Seq(A) : v = out[h] /\ Len(v) \in Nat
    BY <1>3, <2>5
  <2>8. out[i] = IF s[i] \in T THEN Append(v, s[i]) ELSE v
    <3>1. i \in 1 .. Len(s) /\ out[i - 1] = v
      BY <1>2, <2>3, <2>4, <2>5, <2>7
    <3>2. out[i] = IF s[i] \in T THEN Append(out[i - 1], s[i]) ELSE out[i - 1]
      BY <1>1, <3>1 DEF Keeps
    <3>3. QED  BY <3>1, <3>2
  <2>9. CASE s[i] \notin T
    <3>1. P(i) = P(h)
      BY <2>5, <2>9
    <3>2. QED  BY <2>3, <2>6, <2>7, <2>8, <2>9, <3>1
  <2>10. CASE s[i] \in T
    <3> DEFINE Q == P(h)
    <3>1. /\ P(i) = Q \cup {i} /\ i \notin Q /\ Q \in SUBSET Nat
          /\ \A k \in Q : k \in Nat /\ k < i
      BY <2>5, <2>10
    <3>2. IsFiniteSet(Q) /\ Cardinality(Q) \in Nat
      <4>1. \A k \in Q : k <= i
        BY <3>1
      <4> HIDE DEF Q
      <4>2. QED  BY <2>3, <3>1, <4>1, FS_BoundedSetOfNaturals, FS_CardinalityType
    <3>3. PICK w \in Seq(A) : w = Append(v, s[i])
      <4>1. s[i] \in A
        BY <1>2, <2>3, <2>4, ElementOfSeq
      <4>2. QED  BY <4>1, AppendProperties
    <3>4. /\ Len(w) = Len(v) + 1 /\ w[Len(v) + 1] = s[i]
          /\ \A j \in 1 .. Len(v) : w[j] = v[j]
      <4>1. s[i] \in A
        BY <1>2, <2>3, <2>4, ElementOfSeq
      <4>2. QED  BY <3>3, <4>1, AppendProperties
    <3> HIDE DEF Q
    <3>5. Picks(s, Q, v)
      BY <2>6, <2>7 DEF Q
    <3>6. Picks(s, Q \cup {i}, w)
      BY <2>3, <2>7, <3>1, <3>2, <3>4, <3>5, PicksOneMore
    <3>7. QED  BY <2>3, <2>8, <2>10, <3>1, <3>3, <3>6
  <2>11. QED  BY <2>9, <2>10
<1>5. n \in 0 .. n /\ n \notin W
  BY <1>4
<1>6. QED  BY <1>1, <1>2, <1>3, <1>5

\* What is kept has the values that s and T have in common, and each once
\* where s has.
LEMMA KeptOnce ==
  ASSUME NEW A, NEW s \in Seq(A), NEW T
  PROVE  /\ ToSet(Kept(s, T)) = ToSet(s) \cap T
         /\ IsInjective(s) => IsInjective(Kept(s, T))
<1> DEFINE hits == {k \in 1 .. Len(s) : s[k] \in T}
<1>1. PICK v \in Seq(A) : v = Kept(s, T) /\ Picks(s, hits, v)
  BY KeptPicks
<1>2. DOMAIN s = 1 .. Len(s) /\ DOMAIN v = 1 .. Len(v)
  OBVIOUS
<1>3. \A j \in 1 .. Len(v) : \E k \in hits : v[j] = s[k] /\ k \in Nth(hits, j, "on")
  BY <1>1 DEF Picks, Nth
<1>4. \A k \in hits : \E j \in 1 .. Len(v) : v[j] = s[k]
  BY <1>1 DEF Picks
<1>5. ToSet(v) = ToSet(s) \cap T
  <2>1. ASSUME NEW x \in ToSet(v) PROVE x \in ToSet(s) \cap T
    <3>1. PICK j \in 1 .. Len(v) : x = v[j]
      BY <1>2 DEF ToSet
    <3>2. PICK k \in hits : v[j] = s[k]
      BY <1>3
    <3>3. k \in 1 .. Len(s) /\ s[k] \in T
      OBVIOUS
    <3>4. QED  BY <1>2, <3>1, <3>2, <3>3 DEF ToSet
  <2>2. ASSUME NEW x \in ToSet(s) \cap T PROVE x \in ToSet(v)
    <3>1. PICK k \in 1 .. Len(s) : x = s[k]
      BY <1>2 DEF ToSet
    <3>2. k \in hits
      BY <3>1
    <3>3. PICK j \in 1 .. Len(v) : v[j] = s[k]
      BY <1>4, <3>2
    <3>4. QED  BY <1>2, <3>1, <3>3 DEF ToSet
  <2>3. QED  BY <2>1, <2>2
<1>6. ASSUME IsInjective(s), NEW i \in 1 .. Len(v), NEW j \in 1 .. Len(v), v[i] = v[j]
      PROVE  i = j
  <2>1. PICK k \in hits : v[i] = s[k] /\ k \in Nth(hits, i, "on")
    BY <1>3
  <2>2. PICK m \in hits : v[j] = s[m] /\ m \in Nth(hits, j, "on")
    BY <1>3
  <2>3. k = m
    BY <1>2, <1>6, <2>1, <2>2 DEF IsInjective
  <2>4. QED  BY <2>1, <2>2, <2>3 DEF Nth
<1>7. QED  BY <1>1, <1>2, <1>5, <1>6 DEF IsInjective

(***************************************************************************)
(* Counting                                                                *)
(***************************************************************************)
\* Two sets of which one is numbered by the other have as many elements.
LEMMA CountsAlike ==
  ASSUME NEW S, IsFiniteSet(S), NEW T, NEW f \in [S -> T],
         \A a, b \in S : f[a] = f[b] => a = b,
         \A t \in T : \E a \in S : f[a] = t
  PROVE  IsFiniteSet(T) /\ Cardinality(T) = Cardinality(S) /\ Cardinality(S) \in Nat
<1>1. f \in Bijection(S, T)
  BY DEF Bijection, Injection, Surjection, IsInjective
<1>2. ExistsBijection(S, T)
  BY <1>1 DEF ExistsBijection
<1>3. QED  BY <1>2, FS_Bijection, FS_CardinalityType

\* A list of distinct values is as long as there are values in it.
LEMMA CountsValues ==
  ASSUME NEW A, NEW s \in Seq(A), IsInjective(s)
  PROVE  IsFiniteSet(ToSet(s)) /\ Cardinality(ToSet(s)) = Len(s)
<1>1. PICK n \in Nat : n = Len(s)
  OBVIOUS
<1>2. DOMAIN s = 1 .. n
  BY <1>1
<1>3. IsFiniteSet(1 .. n) /\ Cardinality(1 .. n) = n
  BY FS_Interval
<1> DEFINE f == [i \in 1 .. n |-> s[i]]
<1>4. f \in [1 .. n -> ToSet(s)]
  BY <1>2 DEF ToSet
<1>5. \A a, b \in 1 .. n : f[a] = f[b] => a = b
  BY <1>2 DEF IsInjective
<1>6. \A t \in ToSet(s) : \E a \in 1 .. n : f[a] = t
  BY <1>2 DEF ToSet
<1> HIDE DEF f
<1>7. QED  BY <1>1, <1>3, <1>4, <1>5, <1>6, CountsAlike

(***************************************************************************)
(* Conditions of a search of the variant database                          *)
(***************************************************************************)
\* The witnesses of a database, each once.
Witnesses(base, L) ==
  /\ base.sigil_key \in Seq(STRING) /\ IsInjective(base.sigil_key)
  /\ L = ToSet(base.sigil_key)

\* The number of a witness is its place in the list.
LEMMA NumberIs ==
  ASSUME NEW base, NEW L, Witnesses(base, L), NEW d \in Mss(base)
  PROVE  base.sigil_key[d + 1] \in L /\ Number(base, base.sigil_key[d + 1]) = d
<1>1. PICK n \in Nat : n = Len(base.sigil_key)
  BY DEF Witnesses
<1>2. DOMAIN base.sigil_key = 1 .. n /\ Mss(base) = 0 .. n - 1
  BY <1>1 DEF Witnesses, Mss
<1>3. d + 1 \in 1 .. n /\ d \in Int
  BY <1>2
<1> DEFINE T == {m \in Mss(base) : base.sigil_key[m + 1] = base.sigil_key[d + 1]}
<1>4. ASSUME NEW m \in T PROVE m \in Int /\ d <= m
  <2>1. m + 1 \in 1 .. n /\ m \in Int
    BY <1>2
  <2>2. m + 1 = d + 1
    BY <1>2, <1>3, <2>1 DEF Witnesses, IsInjective
  <2>3. QED  BY <1>3, <2>1, <2>2
<1>5. d \in T
  OBVIOUS
<1> HIDE DEF T
<1>6. T \in SUBSET Int
  BY <1>4
<1>7. Min(T) = d
  BY <1>4, <1>5, <1>6, MinOf
<1>8. QED  BY <1>2, <1>3, <1>7 DEF Number, T, Witnesses, ToSet

\* Every witness has one.
LEMMA NumberOf ==
  ASSUME NEW base, NEW L, Witnesses(base, L), NEW w \in L
  PROVE  Number(base, w) \in Mss(base) /\ base.sigil_key[Number(base, w) + 1] = w
<1>1. PICK n \in Nat : n = Len(base.sigil_key)
  BY DEF Witnesses
<1>2. DOMAIN base.sigil_key = 1 .. n /\ Mss(base) = 0 .. n - 1
  BY <1>1 DEF Witnesses, Mss
<1>3. PICK i \in 1 .. n : base.sigil_key[i] = w
  BY <1>2 DEF Witnesses, ToSet
<1>4. PICK d \in Mss(base) : d + 1 = i
  <2>1. i - 1 \in 0 .. n - 1 /\ (i - 1) + 1 = i
    OBVIOUS
  <2>2. QED  BY <1>2, <2>1
<1>5. Number(base, w) = d
  BY <1>3, <1>4, NumberIs
<1>6. QED  BY <1>3, <1>4, <1>5

\* The witnesses that a condition names, and a list of the numbers of witnesses,
\* each once.
NamedBy(c, L) == IF "all" \in Range(c.sigils) THEN L ELSE Range(c.sigils) \cap L
Numbered(base, mss, named) ==
  /\ mss \in Seq(Mss(base)) /\ IsInjective(mss)
  /\ ToSet(mss) = {m \in Mss(base) : base.sigil_key[m + 1] \in named}

\* The numbers that a condition takes are those of the witnesses that it names.
LEMMA ConditionNames ==
  ASSUME NEW base, NEW L, Witnesses(base, L), NEW c, c.sigils \in Seq(STRING),
         IsInjective(c.sigils)
  PROVE  Numbered(base, cond_mss(base, c), NamedBy(c, L))
<1>1. PICK n \in Nat : n = Len(base.sigil_key)
  BY DEF Witnesses
<1>2. DOMAIN base.sigil_key = 1 .. n /\ Mss(base) = 0 .. n - 1
  BY <1>1 DEF Witnesses, Mss
<1>3. DOMAIN c.sigils = 1 .. Len(c.sigils)
  OBVIOUS
<1>4. AllAt(c) # {} <=> "all" \in Range(c.sigils)
  BY <1>3 DEF AllAt, Range
<1>5. CASE AllAt(c) # {}
  <2>1. IsFiniteSet(0 .. n - 1) /\ Cardinality(0 .. n - 1) = n
    <3>1. Cardinality(0 .. n - 1) = IF 0 > n - 1 THEN 0 ELSE n - 1 - 0 + 1
      BY FS_Interval
    <3>2. IsFiniteSet(0 .. n - 1)
      BY FS_Interval
    <3>3. QED  BY <3>1, <3>2
  <2> DEFINE mss == [i \in 1 .. n |-> i - 1]
  <2>2. cond_mss(base, c) = mss
    BY <1>2, <1>5, <2>1 DEF cond_mss
  <2>3. mss \in Seq(Mss(base)) /\ IsInjective(mss)
    <3>1. \A i \in 1 .. n : i - 1 \in Mss(base)
      BY <1>2
    <3>2. mss \in Seq(Mss(base))
      BY <3>1, SeqDef
    <3>3. QED  BY <3>2 DEF IsInjective
  <2>4. ToSet(mss) = Mss(base)
    <3>1. ASSUME NEW m \in Mss(base) PROVE m \in ToSet(mss)
      <4>1. m + 1 \in 1 .. n /\ mss[m + 1] = m
        BY <1>2
      <4>2. QED  BY <4>1 DEF ToSet
    <3>2. ASSUME NEW m \in ToSet(mss) PROVE m \in Mss(base)
      BY <1>2, <3>2 DEF ToSet
    <3>3. QED  BY <3>1, <3>2
  <2>5. {m \in Mss(base) : base.sigil_key[m + 1] \in L} = Mss(base)
    BY NumberIs
  <2>6. NamedBy(c, L) = L
    BY <1>4, <1>5 DEF NamedBy
  <2>7. QED  BY <2>2, <2>3, <2>4, <2>5, <2>6 DEF Numbered
<1>6. CASE ~(AllAt(c) # {})
  <2> DEFINE known == Kept(c.sigils, ToSet(base.sigil_key))
             named == Range(c.sigils) \cap L
  <2>1. known \in Seq(STRING) /\ IsInjective(known) /\ ToSet(known) = named
    <3>1. ToSet(c.sigils) = Range(c.sigils)
      BY DEF ToSet, Range
    <3>2. QED  BY <3>1, KeptPicks, KeptOnce DEF Witnesses
  <2>2. PICK k \in Nat : k = Len(known) /\ DOMAIN known = 1 .. k
    <3> HIDE DEF known
    <3>1. QED  BY <2>1
  <2> DEFINE mss == [i \in 1 .. k |-> Number(base, known[i])]
  <2>3. cond_mss(base, c) = mss
    BY <1>6, <2>2 DEF cond_mss
  <2> HIDE DEF known, named
  <2>4. \A i \in 1 .. k : known[i] \in L /\ known[i] \in named
    BY <2>1, <2>2 DEF ToSet, named
  <2>5. mss \in Seq(Mss(base))
    <3>1. \A i \in 1 .. k : mss[i] \in Mss(base)
      BY <2>4, NumberOf
    <3>2. QED  BY <3>1, SeqDef
  <2>6. ASSUME NEW i \in 1 .. k, NEW j \in 1 .. k, mss[i] = mss[j] PROVE i = j
    <3>1. known[i] = known[j]
      BY <2>4, <2>6, NumberOf
    <3>2. QED  BY <2>1, <2>2, <3>1 DEF IsInjective
  <2>7. ASSUME NEW m \in ToSet(mss)
        PROVE  m \in Mss(base) /\ base.sigil_key[m + 1] \in named
    <3>1. PICK i \in 1 .. k : m = Number(base, known[i])
      BY DEF ToSet
    <3>2. QED  BY <2>4, <3>1, NumberOf
  <2>8. ASSUME NEW m \in Mss(base), base.sigil_key[m + 1] \in named
        PROVE  m \in ToSet(mss)
    <3>1. PICK i \in 1 .. k : known[i] = base.sigil_key[m + 1]
      BY <2>1, <2>2, <2>8 DEF ToSet
    <3>2. mss[i] = m
      BY <3>1, NumberIs
    <3>3. QED  BY <3>2 DEF ToSet
  <2>9. NamedBy(c, L) = named
    BY <1>4, <1>6 DEF NamedBy, named
  <2>10. IsInjective(mss)
    BY <2>6 DEF IsInjective
  <2> HIDE DEF mss
  <2>11. QED  BY <2>3, <2>5, <2>7, <2>8, <2>9, <2>10 DEF Numbered
<1>7. QED  BY <1>5, <1>6

\* The bits of a reading are the numbers of the listed witnesses that have it.
LEMMA BitsAre ==
  ASSUME NEW base, NEW L, Witnesses(base, L), NEW refs
  PROVE  Vlist(base.sigil_key, refs) = {d \in Mss(base) : base.sigil_key[d + 1] \in refs}
<1>1. PICK n \in Nat : n = Len(base.sigil_key)
  BY DEF Witnesses
<1>2. DOMAIN base.sigil_key = 1 .. n /\ Mss(base) = 0 .. n - 1
  BY <1>1 DEF Witnesses, Mss
<1>3. ASSUME NEW d \in 0 .. n - 1, NEW e \in 0 .. d - 1
      PROVE  base.sigil_key[e + 1] # base.sigil_key[d + 1]
  <2>1. e + 1 \in 1 .. n /\ d + 1 \in 1 .. n /\ e + 1 # d + 1
    OBVIOUS
  <2>2. QED  BY <1>2, <2>1 DEF Witnesses, IsInjective
<1>4. QED  BY <1>1, <1>2, <1>3 DEF Vlist

\* The numbers of a set of witnesses.
NumbersOf(base, ws) == {m \in Mss(base) : base.sigil_key[m + 1] \in ws}

\* They are as many as the witnesses.
LEMMA CountsNumbers ==
  ASSUME NEW base, NEW L, Witnesses(base, L), NEW ws \in SUBSET L
  PROVE  /\ IsFiniteSet(NumbersOf(base, ws)) /\ IsFiniteSet(ws)
         /\ Cardinality(ws) = Cardinality(NumbersOf(base, ws)) /\ Cardinality(ws) \in Nat
<1> DEFINE ms == {m \in Mss(base) : base.sigil_key[m + 1] \in ws}
<1>1. PICK n \in Nat : n = Len(base.sigil_key)
  BY DEF Witnesses
<1>2. DOMAIN base.sigil_key = 1 .. n /\ Mss(base) = 0 .. n - 1
  BY <1>1 DEF Witnesses, Mss
<1>3. IsFiniteSet(ms)
  <2>1. IsFiniteSet(0 .. n - 1)
    BY FS_Interval
  <2>2. ms \in SUBSET (0 .. n - 1)
    BY <1>2
  <2> HIDE DEF ms
  <2>3. QED  BY <2>1, <2>2, FS_Subset
<1> DEFINE f == [m \in ms |-> base.sigil_key[m + 1]]
<1>4. f \in [ms -> ws]
  OBVIOUS
<1>5. \A a, b \in ms : f[a] = f[b] => a = b
  BY NumberIs
<1>6. \A w \in ws : \E a \in ms : f[a] = w
  <2>1. SUFFICES ASSUME NEW w \in ws PROVE \E a \in ms : f[a] = w
    OBVIOUS
  <2>2. w \in L
    OBVIOUS
  <2>3. Number(base, w) \in Mss(base) /\ base.sigil_key[Number(base, w) + 1] = w
    BY <2>2, NumberOf
  <2>4. Number(base, w) \in ms
    BY <2>3
  <2>5. QED  BY <2>3, <2>4
<1> HIDE DEF f, ms
<1>7. IsFiniteSet(ws) /\ Cardinality(ws) = Cardinality(ms) /\ Cardinality(ms) \in Nat
  BY <1>3, <1>4, <1>5, <1>6, CountsAlike
<1>8. QED  BY <1>3, <1>7 DEF ms, NumbersOf

\* What a condition that was read has of the named, what a record has of the
\* witnesses of its reading, and what is counted of both.
NumbersIn(base, cond, named) == Numbered(base, cond.mss, named)
Bits(base, rdg, refs) == rdg.vlist = Vlist(base.sigil_key, refs)
Counted(base, L, cond, named, rdg, refs) ==
  /\ Len(cond.mss) = Cardinality(named)
  /\ these_mss(base, rdg, cond) = Cardinality(named \cap refs)
  /\ Cardinality(rdg.vlist) = Cardinality(L \cap refs)

\* A condition counts the witnesses that it names and that have the reading.
LEMMA CountsNamed ==
  ASSUME NEW base, NEW L, Witnesses(base, L), NEW cond, NEW named \in SUBSET L,
         NumbersIn(base, cond, named), NEW rdg, NEW refs, Bits(base, rdg, refs)
  PROVE  Counted(base, L, cond, named, rdg, refs)
<1>1. PICK mss \in Seq(Mss(base)) :
        mss = cond.mss /\ IsInjective(mss) /\ ToSet(mss) = NumbersOf(base, named)
  BY DEF NumbersIn, Numbered, NumbersOf
<1>2. PICK k \in Nat : k = Len(mss) /\ DOMAIN mss = 1 .. k
  OBVIOUS
<1>3. k = Cardinality(named)
  <2>1. Cardinality(ToSet(mss)) = Len(mss)
    BY <1>1, CountsValues
  <2>2. Cardinality(named) = Cardinality(NumbersOf(base, named))
    BY CountsNumbers
  <2>3. QED  BY <1>1, <1>2, <2>1, <2>2
<1>4. k <= Cardinality(Mss(base)) /\ Cardinality(Mss(base)) \in Nat
  <2>1. L \in SUBSET L /\ NumbersOf(base, L) = Mss(base)
    BY NumberIs DEF NumbersOf
  <2>2. IsFiniteSet(NumbersOf(base, L))
    BY <2>1, CountsNumbers
  <2>3. IsFiniteSet(Mss(base))
    BY <2>1, <2>2
  <2>4. NumbersOf(base, named) \in SUBSET Mss(base)
    BY DEF NumbersOf
  <2>5. Cardinality(NumbersOf(base, named)) <= Cardinality(Mss(base))
    BY <2>3, <2>4, FS_Subset
  <2>6. Cardinality(named) = Cardinality(NumbersOf(base, named))
    BY CountsNumbers
  <2>7. QED  BY <1>3, <2>3, <2>5, <2>6, FS_CardinalityType
<1>5. rdg.vlist = NumbersOf(base, refs)
  BY BitsAre DEF NumbersOf, Bits
<1>6. Cardinality(rdg.vlist) = Cardinality(L \cap refs)
  <2>1. NumbersOf(base, refs) = NumbersOf(base, L \cap refs)
    BY NumberIs DEF NumbersOf
  <2>2. Cardinality(L \cap refs) = Cardinality(NumbersOf(base, L \cap refs))
    BY CountsNumbers
  <2>3. QED  BY <1>5, <2>1, <2>2
<1> DEFINE I == {i \in 1 .. k : mss[i] \in NumbersOf(base, refs)}
           f == [i \in I |-> base.sigil_key[mss[i] + 1]]
<1>7. these_mss(base, rdg, cond) = Cardinality(I)
  <2> DEFINE J == {i \in 1 .. k : i <= Cardinality(Mss(base)) /\ mss[i] \in NumbersOf(base, refs)}
  <2>1. J = I
    BY <1>4
  <2>2. these_mss(base, rdg, cond) = Cardinality(J)
    BY <1>1, <1>2, <1>5 DEF these_mss
  <2>3. QED  BY <2>1, <2>2
<1>8. IsFiniteSet(I)
  <2>1. IsFiniteSet(1 .. k) /\ I \in SUBSET (1 .. k)
    BY FS_Interval
  <2> HIDE DEF I
  <2>2. QED  BY <2>1, FS_Subset
<1>9. \A i \in 1 .. k : mss[i] \in NumbersOf(base, named)
  BY <1>1, <1>2 DEF ToSet
<1>10. f \in [I -> named \cap refs]
  BY <1>9 DEF NumbersOf
<1>11. \A a, b \in I : f[a] = f[b] => a = b
  <2>1. SUFFICES ASSUME NEW a \in I, NEW b \in I, f[a] = f[b] PROVE a = b
    OBVIOUS
  <2>2. a \in 1 .. k /\ b \in 1 .. k /\ mss[a] \in Mss(base) /\ mss[b] \in Mss(base)
    BY <1>9 DEF NumbersOf
  <2>3. base.sigil_key[mss[a] + 1] = base.sigil_key[mss[b] + 1]
    BY <2>1
  <2>4. mss[a] = mss[b]
    BY <2>2, <2>3, NumberIs
  <2>5. QED  BY <1>1, <1>2, <2>2, <2>4 DEF IsInjective
<1>12. \A w \in named \cap refs : \E a \in I : f[a] = w
  <2>1. SUFFICES ASSUME NEW w \in named \cap refs PROVE \E a \in I : f[a] = w
    OBVIOUS
  <2>2. w \in L
    OBVIOUS
  <2>3. PICK m \in Mss(base) : base.sigil_key[m + 1] = w
    BY <2>2, NumberOf
  <2>4. m \in NumbersOf(base, named) /\ m \in NumbersOf(base, refs)
    BY <2>3 DEF NumbersOf
  <2>5. PICK i \in 1 .. k : mss[i] = m
    BY <1>1, <1>2, <2>4 DEF ToSet
  <2>6. i \in I /\ f[i] = w
    BY <2>3, <2>4, <2>5
  <2>7. QED  BY <2>6
<1> HIDE DEF f, I
<1>13. Cardinality(named \cap refs) = Cardinality(I)
  BY <1>8, <1>10, <1>11, <1>12, CountsAlike
<1>14. QED  BY <1>1, <1>2, <1>3, <1>6, <1>7, <1>13 DEF Counted

\* Of the witnesses that are named all have the reading when as many have it,
\* and only they when no more have it.
LEMMA CountsDecide ==
  ASSUME NEW base, NEW L, Witnesses(base, L), NEW named \in SUBSET L, NEW refs
  PROVE  /\ Cardinality(named \cap refs) \in Nat /\ Cardinality(named) \in Nat
         /\ Cardinality(named \cap refs) <= Cardinality(named)
         /\ Cardinality(named \cap refs) = Cardinality(named) <=> named \subseteq refs
         /\ Cardinality(L \cap refs) = Cardinality(named \cap refs) <=>
              (refs \cap L) \subseteq named
<1>1. IsFiniteSet(named) /\ IsFiniteSet(L \cap refs)
  <2>1. L \cap refs \in SUBSET L
    OBVIOUS
  <2>2. QED  BY <2>1, CountsNumbers
<1>2. named \cap refs \in SUBSET named /\ named \cap refs \in SUBSET (L \cap refs)
  OBVIOUS
<1>3. /\ Cardinality(named \cap refs) <= Cardinality(named) /\ IsFiniteSet(named \cap refs)
      /\ Cardinality(named) = Cardinality(named \cap refs) => named = named \cap refs
  BY <1>1, <1>2, FS_Subset
<1>4. Cardinality(L \cap refs) = Cardinality(named \cap refs) => L \cap refs = named \cap refs
  BY <1>1, <1>2, FS_Subset
<1>5. named \subseteq refs <=> named = named \cap refs
  OBVIOUS
<1>6. (refs \cap L) \subseteq named <=> L \cap refs = named \cap refs
  OBVIOUS
<1>7. Cardinality(named \cap refs) \in Nat /\ Cardinality(named) \in Nat
  BY <1>1, <1>3, FS_CardinalityType
<1>8. Cardinality(named \cap refs) = Cardinality(named) <=> named \subseteq refs
  BY <1>3, <1>5
<1>9. Cardinality(L \cap refs) = Cardinality(named \cap refs) <=> (refs \cap L) \subseteq named
  BY <1>4, <1>6
<1>10. QED  BY <1>3, <1>7, <1>8, <1>9

\* A condition that is given.
Condition(c) == c \in [neg : BOOLEAN, op : Ops, n : Nat, sigils : Seq(STRING),
                       type : STRING, bang : BOOLEAN]

\* Searching tests a condition for what it says.
LEMMA ConditionMeant ==
  ASSUME NEW base, Witnesses(base, Listed), NEW c, Condition(c), Simple(c),
         read_query_cond(base, c).ok, NEW rdg, NEW refs,
         Bits(base, rdg, refs)
  PROVE  tst_srch_cond(base, rdg, read_query_cond(base, c)) <=> Meant(c, refs)
<1>0. PICK L, named, cond :
        /\ L = Listed /\ Witnesses(base, L)
        /\ named = NamedBy(c, L) /\ cond = read_query_cond(base, c)
  OBVIOUS
<1>1. named \in SUBSET L /\ IsInjective(c.sigils) /\ c.type = NoType
  BY <1>0 DEF NamedBy, Simple
<1>2. NumbersIn(base, cond, named)
  BY <1>0, <1>1, ConditionNames DEF NumbersIn, Condition, read_query_cond
<1>3. /\ Len(cond.mss) = Cardinality(named)
      /\ these_mss(base, rdg, cond) = Cardinality(named \cap refs)
      /\ Cardinality(rdg.vlist) = Cardinality(L \cap refs)
  <2>1. Counted(base, L, cond, named, rdg, refs)
    BY <1>0, <1>1, <1>2, CountsNamed
  <2>2. QED  BY <2>1 DEF Counted
<1>4. /\ Cardinality(named \cap refs) \in Nat /\ Cardinality(named) \in Nat
      /\ Cardinality(named \cap refs) <= Cardinality(named)
      /\ Cardinality(named \cap refs) = Cardinality(named) <=> named \subseteq refs
      /\ Cardinality(L \cap refs) = Cardinality(named \cap refs) <=>
           (refs \cap L) \subseteq named
  <2>1. Witnesses(base, L) /\ named \in SUBSET L
    BY <1>0, <1>1
  <2>2. QED  BY <2>1, CountsDecide
<1>5. PICK k \in Nat, a \in Nat :
        /\ k = these_mss(base, rdg, cond) /\ k = Cardinality(named \cap refs)
        /\ a = Len(cond.mss) /\ a = Cardinality(named)
  BY <1>3, <1>4
<1> DEFINE only == (refs \cap L) \subseteq named
<1>6. /\ k \in Nat /\ a \in Nat /\ k <= a /\ (k = a <=> named \subseteq refs)
      /\ Cardinality(rdg.vlist) = k <=> only
  BY <1>3, <1>4, <1>5
<1> DEFINE num == CASE c.op = "" -> IF c.neg THEN k = 0 ELSE named \subseteq refs
                    [] c.op \in {"2", "=", "=="} -> (k = c.n) <=> ~c.neg
                    [] c.op \in {"<", "<<"} -> (k < c.n) <=> ~c.neg
                    [] c.op \in {">", ">>"} -> (k > c.n) <=> ~c.neg
<1>7. Meant(c, refs) <=> num /\ (c.op \in {"==", "<<", ">>"} => only)
  BY <1>0, <1>5 DEF Meant, NamedBy
<1>8. cond.num = num_cond(c) /\ cond.seek = seek_mss(base, c) /\ cond.type = var_type(c)
      /\ cond.others = others(c) /\ a = Len(cond_mss(base, c))
  BY <1>0, <1>5 DEF read_query_cond
<1>9. c.neg \in BOOLEAN /\ c.op \in Ops /\ c.n \in Nat
  BY DEF Condition
<1> HIDE DEF only
<1>10. NumberHolds(k, cond) <=> num
  <2>1. CASE c.op = ""
    BY <1>6, <1>8, <1>9, <2>1 DEF NumberHolds, num_cond, seek_mss
  <2>2. CASE c.op = "2"
    BY <1>6, <1>8, <1>9, <2>2 DEF NumberHolds, num_cond, seek_mss, Simple
  <2>3. CASE c.op \in {"=", "=="}
    BY <1>6, <1>8, <1>9, <2>3 DEF NumberHolds, num_cond, seek_mss
  <2>4. CASE c.op \in {"<", "<<"}
    <3>1. CASE c.neg
      <4>1. cond.num = "MoreNom" /\ cond.seek = c.n - 1
        BY <1>8, <2>4, <3>1 DEF num_cond, seek_mss
      <4>2. NumberHolds(k, cond) <=> k > c.n - 1
        BY <4>1 DEF NumberHolds
      <4>3. num <=> ~(k < c.n)
        BY <2>4, <3>1
      <4> HIDE DEF num
      <4>4. QED  BY <1>6, <1>9, <4>2, <4>3
    <3>2. CASE ~c.neg
      <4>1. cond.num = "LessNom" /\ cond.seek = c.n
        BY <1>8, <2>4, <3>2 DEF num_cond, seek_mss
      <4>2. NumberHolds(k, cond) <=> k < c.n
        BY <4>1 DEF NumberHolds
      <4>3. num <=> k < c.n
        BY <1>9, <2>4, <3>2
      <4> HIDE DEF num
      <4>4. QED  BY <4>2, <4>3
    <3>3. QED  BY <3>1, <3>2
  <2>5. CASE c.op \in {">", ">>"}
    <3>1. CASE c.neg
      <4>1. cond.num = "LessNom" /\ cond.seek = c.n + 1
        BY <1>8, <2>5, <3>1 DEF num_cond, seek_mss
      <4>2. NumberHolds(k, cond) <=> k < c.n + 1
        BY <4>1 DEF NumberHolds
      <4>3. num <=> ~(k > c.n)
        BY <2>5, <3>1
      <4> HIDE DEF num
      <4>4. QED  BY <1>6, <1>9, <4>2, <4>3
    <3>2. CASE ~c.neg
      <4>1. cond.num = "MoreNom" /\ cond.seek = c.n
        BY <1>8, <2>5, <3>2 DEF num_cond, seek_mss
      <4>2. NumberHolds(k, cond) <=> k > c.n
        BY <4>1 DEF NumberHolds
      <4>3. num <=> k > c.n
        BY <1>9, <2>5, <3>2
      <4> HIDE DEF num
      <4>4. QED  BY <4>2, <4>3
    <3>3. QED  BY <3>1, <3>2
  <2>6. QED  BY <1>9, <2>1, <2>2, <2>3, <2>4, <2>5 DEF Ops
<1> HIDE DEF num
<1>11. ~OtherType(rdg, cond) /\ ~BarredType(rdg, cond)
  BY <1>1, <1>8 DEF OtherType, BarredType, var_type
<1>12. cond.others <=> ~(c.op \in {"==", "<<", ">>"})
  BY <1>8 DEF others
<1>13. tst_srch_cond(base, rdg, cond) <=> num /\ (cond.others \/ only)
  BY <1>5, <1>6, <1>10, <1>11 DEF tst_srch_cond
<1>14. QED  BY <1>0, <1>7, <1>12, <1>13

(***************************************************************************)
(* Making and searching the variant database                               *)
(***************************************************************************)
\* No witness is twice in the list of a book.
WitnessesOnce == \A b \in Books : IsInjective(b.witlist)

\* The witnesses that makeVBase takes are those of the list that are not left
\* out, each once.
LEMMA TakenAre ==
  ASSUME NEW b, IsApparatus(b), IsInjective(b.witlist), NEW base, BaseOf(b, base)
  PROVE  Witnesses(base, {b.witlist[i] : i \in 1 .. Len(b.witlist)} \ base.exclude)
<1> DEFINE T == ToSet(b.witlist) \ base.exclude
<1>1. b.witlist \in Seq(STRING) /\ DOMAIN b.witlist = 1 .. Len(b.witlist)
  BY DEF IsApparatus
<1>2. PICK w \in Seq(STRING) : w = b.witlist /\ SubSeq(w, 1, Len(w)) = w
  BY <1>1
<1>3. base.sigil_key = Kept(w, T)
  BY <1>2 DEF BaseOf, ReadWitList
<1>4. Kept(w, T) \in Seq(STRING) /\ IsInjective(Kept(w, T))
      /\ ToSet(Kept(w, T)) = ToSet(w) \cap T
  BY <1>2, KeptPicks, KeptOnce
<1>5. {b.witlist[i] : i \in 1 .. Len(b.witlist)} = ToSet(w)
  BY <1>1, <1>2 DEF ToSet
<1>6. ToSet(w) \cap T = ToSet(w) \ base.exclude
  BY <1>2
<1>7. QED  BY <1>3, <1>4, <1>5, <1>6 DEF Witnesses

\* Of an interval the j-th element is the start and j - 1.
LEMMA NthOfInterval ==
  ASSUME NEW lo \in Int, NEW hi \in Int, NEW j \in Nat, NEW k \in Nth(lo .. hi, j, "on")
  PROVE  k = lo + j - 1
<1>1. k \in lo .. hi /\ j = Cardinality({f \in lo .. hi : f <= k})
  BY DEF Nth
<1>2. {f \in lo .. hi : f <= k} = lo .. k
  BY <1>1
<1>3. Cardinality(lo .. k) = IF lo > k THEN 0 ELSE k - lo + 1
  BY <1>1, FS_Interval
<1>4. j = Cardinality(lo .. k)
  BY <1>1, <1>2
<1>5. lo <= k /\ k \in Int
  BY <1>1
<1>6. j = k - lo + 1
  BY <1>3, <1>4, <1>5
<1>7. QED  BY <1>5, <1>6

\* The numbers from first on of n, at most num of them.
IsPage(n, first, num, page) ==
  LET rest == {k \in 1 .. n : k >= first}
  IN  /\ page \in Seq(Nat)
      /\ Len(page) = IF Cardinality(rest) < num THEN Cardinality(rest) ELSE Max({num, 0})
      /\ \A j \in 1 .. Len(page) :
           page[j] = Max({first, 1}) + j - 1 /\ page[j] \in 1 .. n

\* They are those of the hits that a page has.
LEMMA PageIs ==
  ASSUME NEW n \in Nat, NEW first \in Int, NEW num \in Int
  PROVE  IsPage(n, first, num, Page(n, first, num))
<1> DEFINE rest == {k \in 1 .. n : k >= first}
           page == Page(n, first, num)
           all == [i \in 1 .. n |-> i]
<1>1. PICK m \in Nat \ {0} : m = Max({first, 1}) /\ m = (IF first >= 1 THEN first ELSE 1)
  <2>1. Max({first, 1}) = IF first >= 1 THEN first ELSE 1
    BY MaxOfTwo
  <2>2. QED  BY <2>1
<1>2. PICK hi \in Int : hi = IF n <= m + num - 1 THEN n ELSE m + num - 1
  OBVIOUS
<1>3. all \in Seq(Nat) /\ Len(all) = n
  <2>1. all \in [1 .. n -> Nat]
    OBVIOUS
  <2>2. QED  BY <2>1, SeqDef
<1>4. page = Kept(all, first .. m + num - 1)
  BY <1>1 DEF Page
<1>5. {k \in 1 .. Len(all) : all[k] \in first .. m + num - 1} = m .. hi
  BY <1>1, <1>2, <1>3
<1> HIDE DEF page
<1>6. page \in Seq(Nat) /\ Picks(all, m .. hi, page)
  <2> HIDE DEF all
  <2>1. Picks(all, {k \in 1 .. Len(all) : all[k] \in first .. m + num - 1}, page)
        /\ page \in Seq(Nat)
    BY <1>3, <1>4, KeptPicks
  <2>2. QED  BY <1>5, <2>1
<1>7. Len(page) = (IF m > hi THEN 0 ELSE hi - m + 1)
  <2>1. Cardinality(m .. hi) = IF m > hi THEN 0 ELSE hi - m + 1
    BY FS_Interval
  <2>2. QED  BY <1>6, <2>1 DEF Picks
<1>8. Cardinality(rest) = (IF m > n THEN 0 ELSE n - m + 1)
  <2>1. rest = m .. n
    BY <1>1
  <2>2. Cardinality(m .. n) = IF m > n THEN 0 ELSE n - m + 1
    BY FS_Interval
  <2>3. QED  BY <2>1, <2>2
<1>9. Max({num, 0}) = IF num >= 0 THEN num ELSE 0
  BY MaxOfTwo
<1>10. Len(page) = IF Cardinality(rest) < num THEN Cardinality(rest) ELSE Max({num, 0})
  <2> HIDE DEF rest
  <2>1. PICK r \in Nat : r = Cardinality(rest) /\ r = (IF m > n THEN 0 ELSE n - m + 1)
    BY <1>8
  <2>2. (IF m > hi THEN 0 ELSE hi - m + 1) = IF r < num THEN r ELSE IF num >= 0 THEN num ELSE 0
    BY <1>2, <2>1
  <2>3. QED  BY <1>7, <1>9, <2>1, <2>2
<1>11. ASSUME NEW j \in 1 .. Len(page)
       PROVE  page[j] = m + j - 1 /\ page[j] \in 1 .. n
  <2>1. PICK k \in Nth(m .. hi, j, "on") : page[j] = all[k]
    BY <1>6 DEF Picks
  <2>2. j \in Nat
    BY <1>6
  <2>3. k = m + j - 1
    BY <2>2, NthOfInterval
  <2>4. k \in m .. hi
    BY DEF Nth
  <2>5. k \in 1 .. n
    BY <1>2, <2>4
  <2>6. QED  BY <2>1, <2>3, <2>5
<1> HIDE DEF rest
<1>12. QED  BY <1>1, <1>6, <1>10, <1>11 DEF page, rest, IsPage

\* The readings of rs that simple conditions mean, and what a search for them
\* returns.
HitsOf(rs, start, end, conds) ==
  {k \in 1 .. Len(rs) :
     /\ rs[k].el \in start .. end
     /\ \A i \in 1 .. Len(conds) : Meant(conds[i], rs[k].refs)}

Found(rs, p, conds, result) ==
  LET hits == HitsOf(rs, p.start, p.end, conds)
      rest == {n \in 1 .. Cardinality(hits) : n >= p.first}
  IN /\ result.found = Cardinality(hits)
     /\ Len(result.ids) = IF Cardinality(rest) < p.num THEN Cardinality(rest)
                          ELSE Max({p.num, 0})
     /\ \A i \in 1 .. Len(result.ids) :
          \E k \in Nth(hits, Max({p.first, 1}) + i - 1, "on") :
            result.ids[i] = rs[k].el

\* The hits are the records of the readings that are meant.
LEMMA HitsAre ==
  ASSUME NEW base, Witnesses(base, Listed), NEW rs,
         Paired(rs, base.rdgs, RecordOf(base.sigil_key)), Len(rs) \in Nat,
         NEW start, NEW end, NEW conds,
         \A i \in 1 .. Len(conds) :
           /\ Condition(conds[i]) /\ Simple(conds[i])
           /\ read_query_cond(base, conds[i]).ok,
         DOMAIN base.rdgs = 1 .. Len(base.rdgs)
  PROVE  {k \in 1 .. Len(base.rdgs) :
            base.rdgs[k] \in {r \in ToSet(base.rdgs) :
                                r.rdg_id \in start .. end /\ Meets(base, r, conds)}} =
         HitsOf(rs, start, end, conds)
<1>1. PICK n \in Nat : n = Len(rs) /\ n = Len(base.rdgs)
  BY DEF Paired
<1>2. ASSUME NEW k \in 1 .. n
      PROVE  /\ base.rdgs[k] \in ToSet(base.rdgs)
             /\ base.rdgs[k].rdg_id = rs[k].el
             /\ Meets(base, base.rdgs[k], conds) <=>
                  \A i \in 1 .. Len(conds) : Meant(conds[i], rs[k].refs)
  <2>1. PICK x, y : x = rs[k] /\ y = base.rdgs[k] /\ <<x, y>> \in RecordOf(base.sigil_key)
    BY <1>1 DEF Paired
  <2>2. y.rdg_id = x.el /\ Bits(base, y, x.refs)
    BY <2>1 DEF RecordOf, Bits
  <2>3. y \in ToSet(base.rdgs)
    BY <1>1, <2>1 DEF ToSet
  <2>4. \A i \in 1 .. Len(conds) :
          tst_srch_cond(base, y, read_query_cond(base, conds[i])) <=> Meant(conds[i], x.refs)
    BY <2>2, ConditionMeant
  <2>5. Meets(base, y, conds) <=> \A i \in 1 .. Len(conds) : Meant(conds[i], x.refs)
    BY <2>4 DEF Meets
  <2>6. QED  BY <2>1, <2>2, <2>3, <2>5
<1>3. QED  BY <1>1, <1>2 DEF HitsOf

\* A search for simple conditions finds what they say.
LEMMA SearchFinds ==
  ASSUME NEW b, IsApparatus(b), NEW base, Witnesses(base, Listed),
         base.rdgs = Records(base.sigil_key, b.apps),
         NEW p \in [start : Int, end : Int, first : Int, num : Int], NEW conds,
         NEW result,
         result = Searched(base, p.start, p.end, p.first, p.num, conds), result.ok,
         \A i \in 1 .. Len(conds) : Condition(conds[i]) /\ Simple(conds[i])
  PROVE  Found(ReadingsOf(b.apps), p, conds, result)
<1> DEFINE B == [rdg_id : Nat, type : STRING, vlist : SUBSET Int]
<1>1. PICK rs, rdgs :
        /\ rs = ReadingsOf(b.apps) /\ rdgs = base.rdgs /\ rdgs \in Seq(B) /\ Len(rs) \in Nat
        /\ Paired(rs, base.rdgs, RecordOf(base.sigil_key))
  <2>1. Len(ReadingsOf(b.apps)) \in Nat
    BY RecordsAre
  <2>2. QED  BY <2>1, RecordsAre
<1>2. \A i \in 1 .. Len(conds) : read_query_cond(base, conds[i]).ok
  BY DEF Searched, NoAnswer
<1> DEFINE T == {r \in ToSet(rdgs) : r.rdg_id \in p.start .. p.end /\ Meets(base, r, conds)}
           H == HitsOf(rs, p.start, p.end, conds)
<1>3. {k \in 1 .. Len(rdgs) : rdgs[k] \in T} = H
  <2>1. DOMAIN rdgs = 1 .. Len(rdgs)
    BY <1>1
  <2>2. \A i \in 1 .. Len(conds) :
          /\ Condition(conds[i]) /\ Simple(conds[i])
          /\ read_query_cond(base, conds[i]).ok
    BY <1>2
  <2>3. QED  BY <1>1, <2>1, <2>2, HitsAre
<1>4. PICK hits \in Seq(B) : hits = Kept(rdgs, T) /\ Picks(rdgs, H, hits)
  <2> HIDE DEF T, H, B
  <2>1. QED  BY <1>1, <1>3, KeptPicks
<1>5. PICK n \in Nat : n = Len(hits) /\ n = Cardinality(H)
  <2> HIDE DEF T, H, B
  <2>1. QED  BY <1>4 DEF Picks
<1>6. PICK page : page = Page(n, p.first, p.num)
  OBVIOUS
<1>7. /\ result.found = n
      /\ result.ids = [i \in 1 .. Len(page) |-> hits[page[i]].rdg_id]
  <2>1. hits = Hits(base, p.start, p.end, conds)
    BY <1>1, <1>4 DEF Hits
  <2> HIDE DEF T, H
  <2>2. result = [ok |-> TRUE, found |-> n,
                  ids |-> [i \in 1 .. Len(page) |-> hits[page[i]].rdg_id]]
    BY <1>2, <1>5, <1>6, <2>1 DEF Searched
  <2>3. QED  BY <2>2
<1> DEFINE rest == {k \in 1 .. n : k >= p.first}
<1>8. /\ page \in Seq(Nat)
      /\ Len(page) = IF Cardinality(rest) < p.num THEN Cardinality(rest)
                     ELSE Max({p.num, 0})
      /\ \A j \in 1 .. Len(page) :
           page[j] = Max({p.first, 1}) + j - 1 /\ page[j] \in 1 .. n
  <2>1. p.first \in Int /\ p.num \in Int
    OBVIOUS
  <2>2. IsPage(n, p.first, p.num, page)
    BY <1>6, <2>1, PageIs
  <2>3. QED  BY <2>2 DEF IsPage
<1>9. PICK l \in Nat : l = Len(page) /\ Len(result.ids) = l
  <2>1. Len(page) \in Nat
    BY <1>8
  <2>2. QED  BY <1>7, <2>1
<1>10. ASSUME NEW i \in 1 .. l
       PROVE  \E k \in Nth(H, Max({p.first, 1}) + i - 1, "on") : result.ids[i] = rs[k].el
  <2>1. PICK j \in 1 .. n : j = page[i] /\ j = Max({p.first, 1}) + i - 1
    BY <1>8, <1>9
  <2>2. result.ids[i] = hits[j].rdg_id
    BY <1>7, <1>9, <2>1
  <2>3. PICK k \in Nth(H, j, "on") : hits[j] = rdgs[k]
    BY <1>4, <1>5 DEF Picks
  <2>4. k \in 1 .. Len(rs)
    BY DEF Nth, HitsOf
  <2>5. PICK x, y : x = rs[k] /\ y = rdgs[k] /\ <<x, y>> \in RecordOf(base.sigil_key)
    BY <1>1, <2>4 DEF Paired
  <2>6. y.rdg_id = x.el
    BY <2>5 DEF RecordOf
  <2> HIDE DEF H
  <2>7. QED  BY <2>1, <2>2, <2>3, <2>5, <2>6
<1>11. Found(rs, p, conds, result)
  <2>1. result.found = Cardinality(H)
    BY <1>5, <1>7
  <2>2. Len(result.ids) = IF Cardinality(rest) < p.num THEN Cardinality(rest)
                         ELSE Max({p.num, 0})
    BY <1>8, <1>9
  <2>3. rest = {m \in 1 .. Cardinality(H) : m >= p.first}
    BY <1>5
  <2> HIDE DEF rest
  <2>4. QED  BY <1>9, <1>10, <2>1, <2>2, <2>3 DEF Found
<1>12. QED  BY <1>1, <1>11

\* So a procedure is answered.
LEMMA SearchFindsReadings ==
  ASSUME WitnessesOnce, book \in Books, SearchReplied
  PROVE  FindsReadings
<1>1. SUFFICES ASSUME reply.cmd = "searchVBase", AsMade(reply.base), reply.result.ok,
                      \A i \in 1 .. Len(reply.conds) : Simple(reply.conds[i])
               PROVE  Found(ReadingsOf(book.apps), reply.page, reply.conds, reply.result)
  BY DEF FindsReadings, Asked, Found, HitsOf, Readings, ReadingsOf
<1>2. PICK b, base, p, conds, result :
        /\ b = book /\ base = reply.base[1] /\ p = reply.page /\ conds = reply.conds
        /\ result = reply.result
  OBVIOUS
<1>3. BaseOf(b, base)
  BY <1>1, <1>2 DEF SearchReplied, BaseMade
<1>4. /\ conds \in Conds /\ p \in Pages
      /\ result = Searched(base, p.start, p.end, p.first, p.num, conds)
  BY <1>1, <1>2 DEF SearchReplied
<1>5. IsApparatus(b) /\ IsInjective(b.witlist)
  BY <1>2, BooksAssumption DEF WitnessesOnce
<1>6. /\ Witnesses(base, Listed) /\ base.rdgs = Records(base.sigil_key, b.apps)
  <2>1. Listed = {b.witlist[i] : i \in 1 .. Len(b.witlist)} \ base.exclude
    BY <1>2 DEF Listed
  <2>2. base.rdgs = Records(base.sigil_key, b.apps)
    BY <1>3 DEF BaseOf
  <2>3. QED  BY <1>3, <1>5, <2>1, <2>2, TakenAre
<1>7. p \in [start : Int, end : Int, first : Int, num : Int]
  BY <1>4, ArgsAssumption
<1>8. \A i \in 1 .. Len(conds) : Condition(conds[i]) /\ Simple(conds[i])
  <2>1. conds \in Seq([neg : BOOLEAN, op : Ops, n : Nat, sigils : Seq(STRING),
                       type : STRING, bang : BOOLEAN])
    BY <1>4, ArgsAssumption
  <2>2. \A i \in 1 .. Len(conds) : Condition(conds[i])
    BY <2>1, ElementOfSeq DEF Condition
  <2>3. QED  BY <1>1, <1>2, <2>2
<1>9. Found(ReadingsOf(b.apps), p, conds, result)
  BY <1>1, <1>2, <1>4, <1>5, <1>6, <1>7, <1>8, SearchFinds
<1>10. QED  BY <1>2, <1>9

\* Where the list of a book has every witness once, searchVBase finds, of a
\* base that was read as it was made and is still there, the readings whose
\* witnesses are as the conditions say, all of them, and returns those of the
\* page in the order of the book: for every apparatus, every condition without
\* a type and every page, and after any makings and searches.
THEOREM ReadingsAreFound == WitnessesOnce => (Spec => []FindsReadings)
<1> SUFFICES ASSUME WitnessesOnce PROVE Spec => []FindsReadings
  OBVIOUS
<1>1. IInv => FindsReadings
  BY SearchFindsReadings DEF IInv
<1>2. QED  BY <1>1, Replied, PTL
=============================================================================
