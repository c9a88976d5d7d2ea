-------------------------- MODULE OutputEngineOrder --------------------------
(***************************************************************************)
(* Proofs about OutputEngine that need the order of the book: that         *)
(* elements are begun in it (DocumentOrder), that they nest (Nested), and  *)
(* that each text is output whole, with its hits begun and ended in it     *)
(* (TextComplete, HitsPaired).                                             *)
(***************************************************************************)
EXTENDS OutputEngineProofs

(***************************************************************************)
(* What is begun comes after what was begun: last[e] is the last element   *)
(* of those below e.                                                       *)
(***************************************************************************)
\* Where the calls of f stand when b was begun last and l is last_el: what it
\* begins next is greater than b.
AtPlace(last, f, b, l) ==
  CASE f.fn = "element" /\ f.at = "top" -> b < f.el
    [] f.fn = "element" /\ f.at \in {"content", "next"} -> b <= last[f.el]
    [] f.fn = "element" /\ f.at = "climb" ->
         f.right /\ l \in Els \ {0} /\ b <= last[l]
    [] f.fn = "element" /\ f.at = "jump" ->
         /\ f.next \in Els /\ (f.next # 0 => b < f.next)
         /\ ~f.right => b <= last[f.el] /\ f.next = Rsib[f.el]
    [] f.fn = "content" /\ f.at = "children" -> b <= last[f.el]
    [] f.fn = "content" /\ f.at # "children" -> b <= f.el
    [] OTHER -> TRUE

Placed(f) ==
  /\ f.fn # "span" => f.el \in Els
  /\ f.fn = "element" /\ f.at \in {"content", "next"} => f.next = Rsib[f.el]

\* f has called g: for its content, for its children, or for a span, which
\* keeps its place, and the bounds of the span in whose procedure it is.
Linked(last, f, g) ==
  /\ g.fn = "content" => g.el = f.el
  /\ g.fn = "element" /\ f.fn = "content" =>
       ~g.right /\ g.el # 0 /\ Ancestor[g.el] = f.el
  /\ g.fn = "span" =>
       /\ g.saved.begun \in Int /\ AtPlace(last, f, g.saved.begun, g.saved.last_el)
       /\ f.fn = "span" /\ f.at = "down" =>
            g.saved.begun = -1 /\ g.saved.bounds.start_el \in Els

IsLinked(last, s) ==
  \A k \in DOMAIN s : Placed(s[k]) /\ (k > 1 => Linked(last, s[k - 1], s[k]))

\* A span that has not called output_element yet.
Unbegun(f, r) == f.fn = "span" /\ (f.at = "down" \/ (f.at = "output" /\ r = Running))

InOrder(last) ==
  /\ begun \in Int
  /\ page = "begin" => begun = -1
  /\ page = "output" =>
       /\ stack # <<>> => AtPlace(last, Last(stack), begun, last_el)
       /\ IsLinked(last, stack)
       /\ stack # <<>> /\ Unbegun(Last(stack), ret) =>
            begun = -1 /\ bounds.start_el \in Els

\* A call returns.
LEMMA LinkedPopped ==
  ASSUME NEW last, NEW s, IsStack(s), s # <<>>, IsLinked(last, s)
  PROVE  /\ IsLinked(last, Front(s)) /\ Placed(Last(s))
         /\ Front(s) # <<>> => /\ Placed(Last(Front(s)))
                               /\ Linked(last, Last(Front(s)), Last(s))
<1>1. PICK t : t = Front(s)
  OBVIOUS
<1>2. PICK m \in Nat : /\ Len(s) = m + 1 /\ DOMAIN s = 1 .. m + 1 /\ Last(s) = s[m + 1]
                       /\ IsList(t) /\ Len(t) = m /\ DOMAIN t = 1 .. m
                       /\ \A k \in 1 .. m : t[k] = s[k]
  BY <1>1, Popped DEF IsStack
<1>3. \A k \in 1 .. m : k \in 1 .. m + 1 /\ (k > 1 => k - 1 \in 1 .. m)
  OBVIOUS
<1>4. m + 1 \in 1 .. m + 1
  OBVIOUS
<1>5. Placed(Last(s))
  BY <1>2, <1>4 DEF IsLinked
<1>6. IsLinked(last, t)
  BY <1>2, <1>3 DEF IsLinked
<1>7. ASSUME t # <<>> PROVE Placed(Last(t)) /\ Linked(last, Last(t), Last(s))
  <2>1. PICK S : t \in Seq(S)
    BY <1>2 DEF IsList
  <2>2. m # 0
    BY <1>2, <1>7, <2>1
  <2>3. m \in 1 .. m + 1 /\ m \in 1 .. m /\ m + 1 > 1 /\ (m + 1) - 1 = m
    BY <2>2
  <2>4. Placed(s[m]) /\ Linked(last, s[m], s[m + 1])
    BY <1>2, <1>4, <2>3 DEF IsLinked
  <2>5. Last(t) = s[m]
    BY <1>2, <2>3 DEF Last
  <2>6. QED  BY <1>2, <2>4, <2>5
<1>8. QED  BY <1>1, <1>5, <1>6, <1>7

\* A call is made.
LEMMA LinkedPushed ==
  ASSUME NEW last, NEW s, IsStack(s), IsLinked(last, s), NEW g, Placed(g),
         s # <<>> => Linked(last, Last(s), g)
  PROVE  IsLinked(last, Append(s, g))
<1>1. PICK t : t = Append(s, g)
  OBVIOUS
<1>2. PICK n \in Nat : /\ n = Len(s) /\ DOMAIN s = 1 .. n
                       /\ DOMAIN t = 1 .. n + 1
                       /\ \A k \in 1 .. n : t[k] = s[k]
                       /\ t[n + 1] = g
  BY <1>1, Pushed DEF IsStack
<1>3. s = <<>> => n = 0
  BY <1>2
<1>4. ASSUME NEW k \in 1 .. n PROVE Placed(t[k]) /\ (k > 1 => Linked(last, t[k - 1], t[k]))
  <2>1. k > 1 => k - 1 \in 1 .. n
    OBVIOUS
  <2>2. QED  BY <1>2, <2>1 DEF IsLinked
<1>5. n + 1 > 1 => Linked(last, t[(n + 1) - 1], t[n + 1])
  <2>1. SUFFICES ASSUME n # 0 PROVE Linked(last, t[(n + 1) - 1], t[n + 1])
    BY SMT
  <2>2. n \in 1 .. n /\ (n + 1) - 1 = n
    BY <2>1
  <2>3. s # <<>>
    BY <1>2, <2>1
  <2>4. QED  BY <1>2, <2>2, <2>3 DEF Last
<1>6. \A k \in 1 .. n + 1 : k = n + 1 \/ k \in 1 .. n
  OBVIOUS
<1>7. IsLinked(last, t)
  BY <1>2, <1>4, <1>5, <1>6 DEF IsLinked
<1>8. QED  BY <1>1, <1>7

\* The innermost call goes on as f, which is linked like the call that it was.
LEMMA LinkedReplaced ==
  ASSUME NEW last, NEW s, IsStack(s), s # <<>>, IsLinked(last, s), NEW f, Placed(f),
         \A e : Linked(last, e, Last(s)) => Linked(last, e, f),
         NEW t, Replaces(t, s, f)
  PROVE  IsLinked(last, t)
<1>0. IsList(s)
  BY DEF IsStack
<1>1. PICK m \in Nat :
        /\ DOMAIN s = 1 .. m + 1 /\ Last(s) = s[m + 1] /\ DOMAIN t = 1 .. m + 1
        /\ \A k \in 1 .. m : t[k] = s[k]
        /\ t[m + 1] = f
  BY <1>0, LastReplaced
<1>2. ASSUME NEW k \in 1 .. m PROVE Placed(t[k]) /\ (k > 1 => Linked(last, t[k - 1], t[k]))
  <2>1. k \in 1 .. m + 1 /\ (k > 1 => k - 1 \in 1 .. m)
    OBVIOUS
  <2>2. QED  BY <1>1, <2>1 DEF IsLinked
<1>3. m + 1 > 1 => Linked(last, t[(m + 1) - 1], t[m + 1])
  <2>1. SUFFICES ASSUME m # 0 PROVE Linked(last, t[(m + 1) - 1], t[m + 1])
    BY SMT
  <2>2. m \in 1 .. m /\ (m + 1) - 1 = m /\ m + 1 > 1 /\ m + 1 \in 1 .. m + 1
    BY <2>1
  <2>3. Linked(last, s[m], s[m + 1])
    BY <1>1, <2>2 DEF IsLinked
  <2>4. QED  BY <1>1, <2>2, <2>3
<1>4. \A k \in 1 .. m + 1 : k = m + 1 \/ k \in 1 .. m
  OBVIOUS
<1>5. QED  BY <1>1, <1>2, <1>3, <1>4 DEF IsLinked

(***************************************************************************)
(* Kinds of steps                                                          *)
(***************************************************************************)
\* What is known of the innermost call.
LEMMA OrderAt ==
  ASSUME IInv, NEW last, InOrder(last), NEW fn, NEW at, At(fn, at)
  PROVE  /\ page = "output" /\ stack # <<>> /\ Top = Last(stack) /\ IsStack(stack)
         /\ IsFrame(Top) /\ Top.fn = fn /\ Top.at = at
         /\ begun \in Int /\ AtPlace(last, Top, begun, last_el)
         /\ IsLinked(last, stack) /\ Placed(Top)
<1>1. /\ page = "output" /\ stack # <<>> /\ Top = Last(stack) /\ IsStack(stack)
      /\ IsFrame(Top) /\ Top.fn = fn /\ Top.at = at
  BY AtIs
<1>2. begun \in Int /\ AtPlace(last, Top, begun, last_el) /\ IsLinked(last, stack)
  BY <1>1 DEF InOrder
<1>3. Placed(Top)
  BY <1>1, <1>2, LinkedPopped
<1>4. QED  BY <1>1, <1>2, <1>3

\* A span is called back when its first element was begun.
LEMMA ReturnsBegun ==
  ASSUME IsStack(stack), stack # <<>>, Last(stack).fn # "span", NEW s, s = Front(stack),
         s # <<>>, NEW r, Last(stack).fn = "element" => r # Running
  PROVE  ~Unbegun(Last(s), r)
<1>1. Calls(Last(s), Last(stack))
  BY StackPopped
<1>2. Last(s).fn = "span" => Last(s).at = "output" /\ Last(stack).fn = "element"
  BY <1>1 DEF Calls
<1>3. QED  BY <1>2 DEF Unbegun

\* A call returns: all that it has begun is below the element of its caller.
LEMMA OrderReturns ==
  ASSUME IInv, NEW last \in [Els -> Els], Numbered(last), InOrder(last),
         NEW fn, NEW at, At(fn, at),
         \/ fn = "element" /\ at \in {"top", "content", "climb", "jump"}
         \/ fn = "content",
         stack' = Front(stack), fn = "element" => ret' # Running,
         page' = "output", begun' = begun
  PROVE  InOrder(last)'
<1>1. /\ page = "output" /\ stack # <<>> /\ Top = Last(stack) /\ IsStack(stack)
      /\ IsFrame(Top) /\ Top.fn = fn /\ Top.at = at
      /\ begun \in Int /\ AtPlace(last, Top, begun, last_el)
      /\ IsLinked(last, stack) /\ Placed(Top)
  BY OrderAt
<1>2. IsLinked(last, stack')
  BY <1>1, LinkedPopped
<1>3. ASSUME stack' # <<>> PROVE AtPlace(last, Last(stack'), begun, last_el')
  <2>1. PICK e : e = Last(stack')
    OBVIOUS
  <2>2. Calls(e, Top) /\ Linked(last, e, Top) /\ Placed(e)
    BY <1>1, <1>3, <2>1, LinkedPopped, StackPopped
  <2>3. Els \subseteq Nat
    BY BookAssumption
  <2>4. CASE fn = "content"
    <3>1. e.fn = "element" /\ e.at = "content" /\ e.el = Top.el
      BY <1>1, <2>2, <2>4 DEF Calls, Linked
    <3>2. Top.el \in Els /\ Top.el <= last[Top.el]
      BY <1>1, <2>4 DEF Placed, Numbered
    <3>3. begun <= Top.el \/ begun <= last[Top.el]
      <4>1. Top.fn = "content"
        BY <1>1, <2>4
      <4>2. CASE Top.at = "children"
        BY <1>1, <4>1, <4>2 DEF AtPlace
      <4>3. CASE Top.at # "children"
        BY <1>1, <4>1, <4>3 DEF AtPlace
      <4>4. QED  BY <4>2, <4>3
    <3>4. PICK i, j \in Nat : i = Top.el /\ j = last[Top.el]
      BY <2>3, <3>2
    <3>5. begun <= last[Top.el]
      BY <1>1, <3>2, <3>3, <3>4
    <3>6. QED  BY <2>1, <3>1, <3>5 DEF AtPlace
  <2>5. CASE fn = "element" /\ e.fn = "content"
    <3>1. e.at = "children" /\ ~Top.right /\ Top.el # 0 /\ Ancestor[Top.el] = e.el
      BY <1>1, <2>2, <2>5 DEF Calls, Linked
    <3>2. Top.el \in Els /\ e.el \in Els
      BY <1>1, <2>2, <2>5 DEF Placed
    <3>3. Top.el <= last[Top.el] /\ last[Top.el] <= last[e.el]
      BY <3>1, <3>2 DEF Numbered
    <3>4. begun < Top.el \/ begun <= last[Top.el]
      BY <1>1, <2>5, <3>1 DEF AtPlace
    <3>5. PICK i, j, k \in Nat : i = Top.el /\ j = last[Top.el] /\ k = last[e.el]
      BY <2>3, <3>2
    <3>6. begun <= last[e.el]
      BY <1>1, <3>3, <3>4, <3>5
    <3>7. e.fn = "content" /\ e.at = "children"
      BY <2>5, <3>1
    <3>8. QED  BY <2>1, <3>6, <3>7 DEF AtPlace
  <2>6. CASE e.fn = "span"
    BY <2>1, <2>6 DEF AtPlace
  <2>7. QED  BY <1>1, <2>2, <2>4, <2>5, <2>6 DEF Calls
<1>4. ASSUME stack' # <<>> PROVE ~Unbegun(Last(stack'), ret')
  BY <1>1, <1>4, ReturnsBegun
<1>5. QED  BY <1>1, <1>2, <1>3, <1>4 DEF InOrder

\* f is linked like the call of Top that goes on as f.
SameLinks(f) ==
  /\ f.fn = Top.fn
  /\ f.fn = "content" => f.el = Top.el
  /\ f.fn = "element" => f.right = Top.right
  /\ f.fn = "element" /\ ~f.right =>
       f.el = Top.el \/ (f.el # 0 /\ Ancestor[f.el] = Ancestor[Top.el])
  /\ f.fn = "span" => f.saved = Top.saved

\* It is.
LEMMA SameLinksLinked ==
  ASSUME NEW f, SameLinks(f), NEW last, NEW e, Linked(last, e, Top)
  PROVE  Linked(last, e, f)
BY DEF SameLinks, Linked

\* A call goes on, as f.
LEMMA OrderGoesOn ==
  ASSUME IInv, NEW last, InOrder(last), NEW fn, NEW at, At(fn, at),
         NEW f, SameLinks(f), Placed(f), IsFrame(f),
         stack' = Replace(f), page' = "output", begun' \in Int,
         AtPlace(last, f, begun', last_el'),
         fn = "span" => f.at = "up" \/ (begun' = -1 /\ bounds'.start_el \in Els)
  PROVE  InOrder(last)'
<1>1. /\ stack # <<>> /\ Top = Last(stack) /\ IsStack(stack) /\ Top.fn = fn
      /\ IsLinked(last, stack)
  BY OrderAt
<1>2. Replaces(stack', stack, f)
  BY DEF Replace, Replaces
<1>3. f.fn = Last(stack).fn
  BY <1>1 DEF SameLinks
<1>4. IsLinked(last, stack')
  BY <1>1, <1>2, SameLinksLinked, LinkedReplaced
<1>5. Last(stack') = f
  BY <1>1, <1>2, <1>3, StackReplaced
<1>6. Unbegun(f, ret') => begun' = -1 /\ bounds'.start_el \in Els
  BY <1>1, <1>3 DEF Unbegun
<1>7. QED  BY <1>4, <1>5, <1>6 DEF InOrder

\* A call goes on, as f, with a call of g.
LEMMA OrderGoesOnWith ==
  ASSUME IInv, NEW last, InOrder(last), NEW fn, NEW at, At(fn, at),
         NEW f, SameLinks(f), Placed(f), IsFrame(f),
         NEW g, IsFrame(g), ~g.holds, Calls(f, g), Placed(g), Linked(last, f, g),
         g.fn # "span",
         stack' = Call(f, g), page' = "output", begun' \in Int,
         AtPlace(last, g, begun', last_el')
  PROVE  InOrder(last)'
<1>1. /\ stack # <<>> /\ Top = Last(stack) /\ IsStack(stack) /\ Top.fn = fn
      /\ IsLinked(last, stack)
  BY OrderAt
<1>2. PICK t : Replaces(t, stack, f)
  BY DEF Replaces
<1>3. stack' = Append(t, g)
  BY <1>2 DEF Replace, Replaces, Call
<1>4. f.fn = Last(stack).fn
  BY <1>1 DEF SameLinks
<1>5. IsStack(t) /\ t # <<>> /\ Last(t) = f
  BY <1>1, <1>2, <1>4, StackReplaced
<1>6. IsLinked(last, t)
  BY <1>1, <1>2, SameLinksLinked, LinkedReplaced
<1>7. IsLinked(last, stack')
  BY <1>3, <1>5, <1>6, LinkedPushed
<1>8. Last(stack') = g
  BY <1>3, <1>5, StackPushed
<1>9. ~Unbegun(g, ret')
  BY DEF Unbegun
<1>10. QED  BY <1>7, <1>8, <1>9 DEF InOrder

\* A call is made where the procedures of the innermost call are called.
LEMMA OrderCallsAlso ==
  ASSUME IInv, NEW last, InOrder(last), NEW fn, NEW at, At(fn, at),
         NEW g, IsFrame(g), ~g.holds, Calls(Top, g), Placed(g), Linked(last, Top, g),
         stack' = Append(stack, g), page' = "output", begun' \in Int,
         AtPlace(last, g, begun', last_el'),
         g.fn = "span" => begun' = -1 /\ bounds'.start_el \in Els
  PROVE  InOrder(last)'
<1>1. /\ stack # <<>> /\ Top = Last(stack) /\ IsStack(stack) /\ Top.fn = fn
      /\ IsLinked(last, stack)
  BY OrderAt
<1>2. IsLinked(last, stack')
  BY <1>1, LinkedPushed
<1>3. Last(stack') = g
  BY <1>1, StackPushed
<1>4. Unbegun(g, ret') => begun' = -1 /\ bounds'.start_el \in Els
  BY DEF Unbegun
<1>5. QED  BY <1>2, <1>3, <1>4 DEF InOrder

\* The calls stay where they are.
LEMMA OrderStays ==
  ASSUME IInv, NEW last, InOrder(last), NEW fn, NEW at, At(fn, at), stack' = stack,
         page' \in {"output", "undefined"}, begun' = begun,
         AtPlace(last, Top, begun, last_el'), fn # "span" \/ UNCHANGED <<ret, bounds>>
  PROVE  InOrder(last)'
<1>1. /\ Top = Last(stack) /\ stack # <<>> /\ Top.fn = fn /\ page = "output"
      /\ IsLinked(last, stack) /\ begun \in Int
  BY OrderAt
<1>2. Unbegun(Last(stack'), ret') => begun' = -1 /\ bounds'.start_el \in Els
  <2>1. SUFFICES ASSUME Unbegun(Top, ret') PROVE begun' = -1 /\ bounds'.start_el \in Els
    BY <1>1
  <2>2. UNCHANGED <<ret, bounds>>
    BY <1>1, <2>1 DEF Unbegun
  <2>3. QED  BY <1>1, <2>1, <2>2 DEF InOrder
<1>3. QED  BY <1>1, <1>2 DEF InOrder

(***************************************************************************)
(* Frames                                                                  *)
(***************************************************************************)
\* The fields of a new frame.
LEMMA FrameFields ==
  ASSUME NEW fn, NEW el, NEW sibs, NEW right, NEW g, g = Frame(fn, el, sibs, right)
  PROVE  /\ g.fn = fn /\ g.el = el /\ g.sibs = sibs /\ g.right = right
         /\ g.at = "top" /\ g.next = 0
BY DEF Frame

\* Those of a frame that goes on.
LEMMA FieldsKept ==
  ASSUME NEW f, IsFrame(f), NEW at, NEW n, NEW h, NEW el, NEW b
  PROVE  /\ LET g == [f EXCEPT !.at = at]
            IN /\ g.fn = f.fn /\ g.el = f.el /\ g.sibs = f.sibs /\ g.right = f.right
               /\ g.next = f.next /\ g.saved = f.saved /\ g.at = at
         /\ LET g == Begun(f, n, h, at)
            IN /\ g.fn = f.fn /\ g.el = f.el /\ g.sibs = f.sibs /\ g.right = f.right
               /\ g.next = n /\ g.saved = f.saved /\ g.at = at
         /\ LET g == Climbed(f, n, at)
            IN /\ g.fn = f.fn /\ g.el = f.el /\ g.sibs = f.sibs /\ g.right = f.right
               /\ g.next = n /\ g.saved = f.saved /\ g.at = at
         /\ LET g == Onward(f, el)
            IN /\ g.fn = f.fn /\ g.el = el /\ g.sibs = f.sibs /\ g.right = f.right
               /\ g.next = f.next /\ g.saved = f.saved /\ g.at = "top"
         /\ LET g == Holding(f, at, b)
            IN /\ g.fn = f.fn /\ g.el = f.el /\ g.sibs = f.sibs /\ g.right = f.right
               /\ g.next = f.next /\ g.saved = f.saved /\ g.at = at
<1>1. DOMAIN f = Fields
  BY DEF IsFrame
<1>2. QED  BY <1>1 DEF Fields, Begun, Climbed, Onward, Holding

(***************************************************************************)
(* The order through each step: output_element                             *)
(***************************************************************************)
\* An element is begun: it comes after what was begun.
LEMMA OrderBegin ==
  ASSUME IInv, NEW last \in [Els -> Els], Numbered(last), InOrder(last), Begin
  PROVE  InOrder(last)'
<1>1. At("element", "top")
  BY DEF Begin
<1>2. /\ page = "output" /\ IsFrame(Top) /\ Top.fn = "element"
      /\ begun \in Int /\ Placed(Top)
  BY <1>1, OrderAt
<1>3. page' = "output" /\ begun' = Top.el /\ last_el' = Top.el
  BY <1>2 DEF Begin
<1>4. Top.el \in Els /\ Top.el \in Nat /\ Top.el <= last[Top.el]
  BY <1>2, BookAssumption DEF Placed, Numbered
<1>5. PICK s : \/ StopsAfterStart(s) /\ stack' = Front(stack) /\ ret' # Running
               \/ stack' = Replace(Begun(Top, Rsib[Top.el], hide, "next"))
               \/ stack' = Call(Begun(Top, Rsib[Top.el], hide, "content"),
                                Frame("content", Top.el, FALSE, FALSE))
  <2>1. PICK s :
          LET f == [Top EXCEPT !.next = Rsib[Top.el], !.hide = hide, !.holds = TRUE]
          IN CASE StopsAfterStart(s) ->
                    Return(IF s.r = 4 THEN 4 ELSE 0) /\ UNCHANGED clones
               [] ~StopsAfterStart(s) /\ Kind[Top.el] = "empty" ->
                    /\ stack' = Replace([f EXCEPT !.at = "next"])
                    /\ clones' = clones + 1
                    /\ UNCHANGED ret
               [] OTHER ->
                    /\ stack' = Call([f EXCEPT !.at = "content"],
                                     Frame("content", Top.el, FALSE, FALSE))
                    /\ clones' = clones + 1
                    /\ ret' = Running
    BY DEF Begin
  <2>2. CASE StopsAfterStart(s)
    <3>1. Return(IF s.r = 4 THEN 4 ELSE 0)
      BY <2>1, <2>2
    <3>2. StopsAfterStart(s) /\ stack' = Front(stack) /\ ret' # Running
      BY <2>2, <3>1 DEF Return, Running
    <3>3. QED  BY <3>2
  <2>3. CASE ~StopsAfterStart(s)
    BY <2>1, <2>3 DEF Begun
  <2>4. QED  BY <2>2, <2>3
<1>6. CASE stack' = Front(stack) /\ ret' # Running
  <2>1. stack # <<>> /\ IsStack(stack) /\ Top = Last(stack) /\ IsLinked(last, stack)
    BY <1>1, OrderAt
  <2>2. IsLinked(last, stack')
    BY <1>6, <2>1, LinkedPopped
  <2>3. ASSUME stack' # <<>> PROVE AtPlace(last, Last(stack'), Top.el, Top.el)
    <3>1. PICK e : e = Last(stack')
      OBVIOUS
    <3>2. Calls(e, Top) /\ Linked(last, e, Top) /\ Placed(e)
      BY <1>6, <2>1, <2>3, <3>1, LinkedPopped, StackPopped
    <3>3. CASE e.fn = "content"
      <4>1. e.el \in Els /\ Top.el # 0 /\ Ancestor[Top.el] = e.el
        BY <1>2, <3>2, <3>3 DEF Linked, Placed
      <4>2. last[Top.el] <= last[e.el]
        BY <1>4, <4>1 DEF Numbered
      <4>3. PICK i, j, k \in Nat : i = Top.el /\ j = last[Top.el] /\ k = last[e.el]
        BY <1>4, <4>1, BookAssumption
      <4>4. Top.el <= last[e.el]
        BY <1>4, <4>2, <4>3
      <4>5. e.fn = "content" /\ e.at = "children"
        BY <1>2, <3>2, <3>3 DEF Calls
      <4>6. QED  BY <3>1, <4>4, <4>5 DEF AtPlace
    <3>4. CASE e.fn = "span"
      BY <3>1, <3>4 DEF AtPlace
    <3>5. QED  BY <1>2, <3>2, <3>3, <3>4 DEF Calls
  <2>4. PICK r : r = ret'
    OBVIOUS
  <2>5. stack' # <<>> => ~Unbegun(Last(stack'), r)
    BY <1>2, <1>6, <2>1, <2>4, ReturnsBegun
  <2>6. QED  BY <1>3, <1>4, <2>2, <2>3, <2>4, <2>5 DEF InOrder
<1>7. ASSUME NEW to \in {"next", "content"}, NEW f, f = Begun(Top, Rsib[Top.el], hide, to)
      PROVE  /\ IsFrame(f) /\ SameLinks(f) /\ Placed(f) /\ f.fn = "element" /\ f.at = to
             /\ f.el = Top.el /\ AtPlace(last, f, begun', last_el')
  <2>1. IsFrame(f) /\ f.fn = "element" /\ f.at = to
    BY <1>2, <1>7, FrameBegun
  <2>2. /\ f.el = Top.el /\ f.right = Top.right /\ f.next = Rsib[Top.el]
        /\ f.saved = Top.saved
    BY <1>2, <1>7, FieldsKept
  <2>3. Placed(f) /\ AtPlace(last, f, begun', last_el')
    BY <1>3, <1>4, <2>1, <2>2 DEF Placed, AtPlace
  <2>5. QED  BY <1>2, <2>1, <2>2, <2>3 DEF SameLinks
<1>8. CASE stack' = Replace(Begun(Top, Rsib[Top.el], hide, "next"))
  <2>1. PICK f : f = Begun(Top, Rsib[Top.el], hide, "next")
    OBVIOUS
  <2>2. QED  BY <1>1, <1>3, <1>4, <1>7, <1>8, <2>1, OrderGoesOn
<1>9. CASE stack' = Call(Begun(Top, Rsib[Top.el], hide, "content"),
                         Frame("content", Top.el, FALSE, FALSE))
  <2>1. PICK f : f = Begun(Top, Rsib[Top.el], hide, "content")
    OBVIOUS
  <2>2. PICK no : no = FALSE
    OBVIOUS
  <2>3. PICK g : g = Frame("content", Top.el, no, no)
    OBVIOUS
  <2>4. IsFrame(g) /\ ~g.holds /\ g.fn = "content" /\ g.at = "top" /\ g.el = Top.el
    BY <2>3, FrameMade, FrameFields
  <2>5. /\ IsFrame(f) /\ SameLinks(f) /\ Placed(f) /\ f.fn = "element"
        /\ f.at = "content" /\ f.el = Top.el
    BY <1>7, <2>1
  <2>6. Calls(f, g) /\ Placed(g) /\ Linked(last, f, g) /\ AtPlace(last, g, begun', last_el')
    BY <1>3, <1>4, <2>4, <2>5 DEF Calls, Placed, Linked, AtPlace
  <2>7. stack' = Call(f, g)
    BY <1>9, <2>1, <2>2, <2>3
  <2>8. QED  BY <1>1, <1>3, <1>4, <2>4, <2>5, <2>6, <2>7, OrderGoesOnWith
<1>10. QED  BY <1>5, <1>6, <1>8, <1>9

\* A step that leaves begun, and where the innermost call is but for its at.
LEMMA OrderGoesTo ==
  ASSUME IInv, NEW last, InOrder(last), NEW fn, NEW at, At(fn, at), NEW to, to # "top",
         stack' = Go(to), page' = "output", begun' = begun,
         NEW f, f = [Top EXCEPT !.at = to], Placed(f), AtPlace(last, f, begun, last_el'),
         fn = "span" => to = "up" \/ (begun = -1 /\ bounds'.start_el \in Els)
  PROVE  InOrder(last)'
<1>1. IsFrame(Top) /\ begun \in Int
  BY OrderAt
<1>2. IsFrame(f) /\ f.fn = Top.fn
  BY <1>1, FrameAt
<1>3. f.el = Top.el /\ f.right = Top.right /\ f.saved = Top.saved /\ f.at = to
  BY <1>1, FieldsKept
<1>4. SameLinks(f)
  BY <1>2, <1>3 DEF SameLinks
<1>5. stack' = Replace(f)
  BY GoIs
<1>6. QED  BY <1>1, <1>2, <1>3, <1>4, <1>5, OrderGoesOn

\* The next element is known: the sibling, or that of an ancestor.
LEMMA OrderNextElement ==
  ASSUME IInv, NEW last \in [Els -> Els], Numbered(last), InOrder(last), NextElement
  PROVE  InOrder(last)'
<1>1. At("element", "next")
  BY DEF NextElement
<1>2. /\ page = "output" /\ IsFrame(Top) /\ Top.fn = "element" /\ Top.at = "next"
      /\ begun \in Int /\ Placed(Top) /\ AtPlace(last, Top, begun, last_el)
  BY <1>1, OrderAt
<1>3. page' = "output" /\ begun' = begun /\ last_el' = Top.el
  BY <1>2 DEF NextElement
<1>4. Top.el \in Els /\ Top.next = Rsib[Top.el] /\ Top.next \in Els /\ begun <= last[Top.el]
  BY <1>2, BookAssumption DEF Placed, AtPlace
<1>5. Top.next # 0 => begun < Top.next
  <2>1. SUFFICES ASSUME Top.next # 0 PROVE begun < Top.next
    OBVIOUS
  <2>2. last[Top.el] < Top.next
    BY <1>4, <2>1 DEF Numbered
  <2>3. PICK i, j \in Nat : i = last[Top.el] /\ j = Top.next
    BY <1>4, BookAssumption
  <2>4. QED  BY <1>2, <1>4, <2>2, <2>3
<1>6. PICK to : to = IF Climbs THEN "climb" ELSE "jump"
  OBVIOUS
<1>7. PICK f : f = [Top EXCEPT !.at = to]
  OBVIOUS
<1>8. /\ f.fn = "element" /\ f.el = Top.el /\ f.right = Top.right /\ f.next = Top.next
      /\ f.at = to
  BY <1>2, <1>7, FieldsKept
<1>9. Placed(f)
  BY <1>4, <1>6, <1>8 DEF Placed
<1>10. AtPlace(last, f, begun, last_el')
  <2>1. CASE Climbs
    BY <1>3, <1>4, <1>6, <1>8, <2>1 DEF AtPlace, Climbs
  <2>2. CASE ~Climbs
    BY <1>3, <1>4, <1>5, <1>6, <1>8, <2>2 DEF AtPlace
  <2>3. QED  BY <2>1, <2>2
<1>11. stack' = Go(to) /\ to # "top"
  BY <1>6 DEF NextElement
<1>12. QED  BY <1>1, <1>3, <1>7, <1>9, <1>10, <1>11, OrderGoesTo

\* An ancestor is ended: what is right of it comes after all that is below it.
LEMMA OrderClimb ==
  ASSUME IInv, NEW last \in [Els -> Els], Numbered(last), InOrder(last), Climb
  PROVE  InOrder(last)'
<1>1. At("element", "climb")
  BY DEF Climb
<1>2. /\ page = "output" /\ IsFrame(Top) /\ Top.fn = "element" /\ Top.at = "climb"
      /\ begun \in Int /\ Placed(Top) /\ AtPlace(last, Top, begun, last_el)
  BY <1>1, OrderAt
<1>3. page' = "output" /\ begun' = begun
  BY <1>2 DEF Climb
<1>4. Top.right /\ last_el \in Els /\ last_el # 0 /\ begun <= last[last_el]
  BY <1>2 DEF AtPlace
<1>5. PICK up : up = Ancestor[last_el]
  OBVIOUS
<1>6. /\ up \in Els /\ up \in Nat /\ last[up] \in Nat /\ last[last_el] \in Nat
      /\ Rsib[up] \in Els /\ Rsib[up] \in Nat
  BY <1>4, <1>5, BookAssumption
<1>7. begun <= last[up]
  <2>1. last[last_el] <= last[up]
    BY <1>4, <1>5 DEF Numbered
  <2>2. PICK i, j \in Nat : i = last[last_el] /\ j = last[up]
    BY <1>6
  <2>3. QED  BY <1>2, <1>4, <2>1, <2>2
<1>8. Rsib[up] # 0 => begun < Rsib[up]
  <2>1. SUFFICES ASSUME Rsib[up] # 0 PROVE begun < Rsib[up]
    OBVIOUS
  <2>2. last[up] < Rsib[up]
    BY <1>6, <2>1 DEF Numbered
  <2>3. PICK i, j \in Nat : i = last[up] /\ j = Rsib[up]
    BY <1>6
  <2>4. QED  BY <1>2, <1>7, <2>2, <2>3
<1>9. PICK to : to = IF ClimbsOn(up) THEN "climb" ELSE "jump"
  OBVIOUS
<1>10. \/ stack' = Front(stack) /\ ret' # Running
       \/ stack' = Replace(Climbed(Top, Rsib[up], to)) /\ last_el' = up
  BY <1>5, <1>9 DEF Climb, Return, Climbed, Running
<1>11. CASE stack' = Front(stack) /\ ret' # Running
  BY <1>1, <1>3, <1>11, OrderReturns
<1>12. CASE stack' = Replace(Climbed(Top, Rsib[up], to)) /\ last_el' = up
  <2>1. PICK f : f = Climbed(Top, Rsib[up], to)
    OBVIOUS
  <2>2. IsFrame(f)
    BY <1>2, <1>9, <2>1, FrameClimbed
  <2>3. /\ f.fn = "element" /\ f.el = Top.el /\ f.right = Top.right /\ f.next = Rsib[up]
        /\ f.at = to
    BY <1>2, <2>1, FieldsKept
  <2>4. SameLinks(f) /\ Placed(f)
    BY <1>2, <1>9, <2>3 DEF SameLinks, Placed
  <2>5. AtPlace(last, f, begun', last_el')
    <3>1. CASE ClimbsOn(up)
      BY <1>3, <1>4, <1>6, <1>7, <1>9, <1>12, <2>3, <3>1 DEF AtPlace, ClimbsOn
    <3>2. CASE ~ClimbsOn(up)
      BY <1>3, <1>4, <1>6, <1>8, <1>9, <1>12, <2>3, <3>2 DEF AtPlace
    <3>3. QED  BY <3>1, <3>2
  <2>6. QED  BY <1>1, <1>2, <1>3, <1>12, <2>1, <2>2, <2>4, <2>5, OrderGoesOn
<1>13. QED  BY <1>10, <1>11, <1>12

\* On to the next sibling.
LEMMA OrderGoOn ==
  ASSUME IInv, NEW last \in [Els -> Els], Numbered(last), InOrder(last), GoOn
  PROVE  InOrder(last)'
<1>1. At("element", "jump")
  BY DEF GoOn
<1>2. /\ page = "output" /\ IsFrame(Top) /\ Top.fn = "element" /\ Top.at = "jump"
      /\ begun \in Int /\ Placed(Top) /\ AtPlace(last, Top, begun, last_el)
  BY <1>1, OrderAt
<1>3. page' = "output" /\ begun' = begun
  BY <1>2 DEF GoOn
<1>4. CASE stack' = Front(stack) /\ ret' # Running
  BY <1>1, <1>3, <1>4, OrderReturns
<1>5. CASE Top.next # 0 /\ stack' = Replace(Onward(Top, Top.next))
  <2>1. PICK f : f = Onward(Top, Top.next)
    OBVIOUS
  <2>2. IsFrame(f)
    BY <1>2, <2>1, FrameNext DEF Onward
  <2>3. /\ f.fn = "element" /\ f.el = Top.next /\ f.right = Top.right /\ f.at = "top"
    BY <1>2, <2>1, FieldsKept
  <2>4. /\ Top.el \in Els /\ Top.next \in Els /\ begun < Top.next
        /\ ~Top.right => Top.next = Rsib[Top.el]
    BY <1>2, <1>5 DEF AtPlace, Placed
  <2>5. ~Top.right => Ancestor[Top.next] = Ancestor[Top.el]
    BY <1>5, <2>4 DEF Numbered
  <2>6. SameLinks(f) /\ Placed(f)
    BY <1>2, <1>5, <2>3, <2>4, <2>5 DEF SameLinks, Placed
  <2>7. AtPlace(last, f, begun', last_el')
    BY <1>3, <2>3, <2>4 DEF AtPlace
  <2>8. QED  BY <1>1, <1>2, <1>3, <1>5, <2>1, <2>2, <2>6, <2>7, OrderGoesOn
<1>6. QED  BY <1>4, <1>5 DEF GoOn, Return, Onward, Running

\* output_element, without startEl.
LEMMA OrderElement ==
  ASSUME StartEls = {}, IInv, NEW last \in [Els -> Els], Numbered(last), InOrder(last),
         output_element
  PROVE  InOrder(last)'
<1>1. CASE ElementFails \/ EndSkipped \/ EndFails \/ ClimbFails
  <2>1. PICK at \in {"top", "content", "climb"} : At("element", at)
    BY <1>1 DEF ElementFails, EndSkipped, EndFails, ClimbFails
  <2>2. page = "output"
    BY <2>1 DEF At
  <2>3. stack' = Front(stack) /\ ret' # Running /\ page' = "output" /\ begun' = begun
    BY <1>1, <2>2 DEF ElementFails, EndSkipped, EndFails, ClimbFails, Return, Running
  <2>4. QED  BY <2>1, <2>3, OrderReturns
<1>2. CASE End
  <2>1. At("element", "content")
    BY <1>2 DEF End
  <2>2. /\ page = "output" /\ IsFrame(Top) /\ Top.fn = "element" /\ Top.at = "content"
        /\ Placed(Top) /\ AtPlace(last, Top, begun, last_el)
    BY <2>1, OrderAt
  <2>3. page' = "output" /\ begun' = begun
    BY <1>2, <2>2 DEF End
  <2>4. CASE stack' = Front(stack) /\ ret' # Running
    BY <2>1, <2>3, <2>4, OrderReturns
  <2>5. CASE stack' = Go("next")
    <3>1. PICK f : f = [Top EXCEPT !.at = "next"]
      OBVIOUS
    <3>2. /\ f.fn = "element" /\ f.el = Top.el /\ f.next = Top.next /\ f.at = "next"
      BY <2>2, <3>1, FieldsKept
    <3>3. Placed(f) /\ AtPlace(last, f, begun, last_el')
      BY <2>2, <3>2 DEF Placed, AtPlace
    <3>4. QED  BY <2>1, <2>3, <2>5, <3>1, <3>3, OrderGoesTo
  <2>6. QED  BY <1>2, <2>4, <2>5 DEF End, Return, Running
<1>3. CASE CloneRefused
  <2>1. PICK at : At("element", at)
    BY <1>3 DEF CloneRefused
  <2>2. AtPlace(last, Top, begun, last_el)
    BY <2>1, OrderAt
  <2>3. stack' = stack /\ page' = "undefined" /\ begun' = begun /\ last_el' = last_el
    BY <1>3 DEF CloneRefused
  <2>4. QED  BY <2>1, <2>2, <2>3, OrderStays
<1>4. ~Jump
  BY DEF Jump
<1>5. QED  BY <1>1, <1>2, <1>3, <1>4, OrderBegin, OrderNextElement, OrderClimb, OrderGoOn
           DEF output_element

(***************************************************************************)
(* The order through each step: output_content                             *)
(***************************************************************************)
\* The content of an element goes on, with a clone or without.
LEMMA OrderHolding ==
  ASSUME IInv, NEW last, InOrder(last), NEW at, At("content", at), at # "children",
         NEW to, to \notin {"top", "children"},
         NEW h \in BOOLEAN, stack' = Replace(Holding(Top, to, h)),
         page' = "output", begun' = begun
  PROVE  InOrder(last)'
<1>1. /\ IsFrame(Top) /\ Top.fn = "content" /\ Top.at = at /\ begun \in Int
      /\ Placed(Top) /\ AtPlace(last, Top, begun, last_el)
  BY OrderAt
<1>2. PICK f : f = Holding(Top, to, h)
  OBVIOUS
<1>3. IsFrame(f) /\ f.fn = "content" /\ f.el = Top.el /\ f.at = to
  <2>1. Top.fn # "span"
    BY <1>1
  <2>2. IsFrame(f) /\ f.fn = Top.fn /\ f.at = to
    BY <1>1, <1>2, <2>1, FrameHolds
  <2>3. f.el = Top.el
    BY <1>1, <1>2, FieldsKept
  <2>4. QED  BY <1>1, <2>2, <2>3
<1>4. begun <= Top.el
  BY <1>1 DEF AtPlace
<1>5. SameLinks(f) /\ Placed(f) /\ AtPlace(last, f, begun', last_el')
  BY <1>1, <1>3, <1>4 DEF SameLinks, Placed, AtPlace
<1>6. QED  BY <1>1, <1>2, <1>3, <1>5, OrderGoesOn

\* On to the children: they come after their parent, which was begun last.
LEMMA OrderChildren ==
  ASSUME IInv, NEW last \in [Els -> Els], Numbered(last), InOrder(last), Children
  PROVE  InOrder(last)'
<1>1. At("content", "bounds")
  BY DEF Children
<1>2. /\ page = "output" /\ IsFrame(Top) /\ Top.fn = "content" /\ Top.at = "bounds"
      /\ begun \in Int /\ Placed(Top) /\ AtPlace(last, Top, begun, last_el)
  BY <1>1, OrderAt
<1>3. page' = "output" /\ begun' = begun
  BY <1>2 DEF Children
<1>4. CASE Child[Top.el] = 0
  <2>1. stack' = Front(stack)
    BY <1>4 DEF Children, Return
  <2>2. QED  BY <1>1, <1>3, <2>1, OrderReturns
<1>5. CASE Child[Top.el] # 0
  <2>1. Top.el \in Els /\ begun <= Top.el
    BY <1>2 DEF Placed, AtPlace
  <2>2. /\ Child[Top.el] \in Els /\ Top.el < Child[Top.el]
        /\ Ancestor[Child[Top.el]] = Top.el
    BY <1>5, <2>1, BookAssumption DEF Numbered
  <2>3. PICK i, j \in Nat : i = Top.el /\ j = Child[Top.el]
    BY <2>1, <2>2, BookAssumption
  <2>4. begun < Child[Top.el]
    BY <1>2, <2>1, <2>2, <2>3
  <2>5. PICK f : f = [Top EXCEPT !.at = "children"]
    OBVIOUS
  <2>6. IsFrame(f) /\ f.fn = "content" /\ f.at = "children" /\ f.el = Top.el
    BY <1>2, <2>5, FrameAt, FieldsKept
  <2>7. SameLinks(f) /\ Placed(f)
    BY <1>2, <2>1, <2>6 DEF SameLinks, Placed
  <2>8. PICK yes, no : yes = TRUE /\ no = FALSE
    OBVIOUS
  <2>9. PICK g : g = Frame("element", Child[Top.el], yes, no)
    OBVIOUS
  <2>10. /\ IsFrame(g) /\ ~g.holds /\ g.fn = "element" /\ g.at = "top"
         /\ g.el = Child[Top.el] /\ g.right = no
    BY <2>9, FrameMade, FrameFields
  <2>11. Calls(f, g) /\ Placed(g) /\ Linked(last, f, g) /\ AtPlace(last, g, begun', last_el')
    BY <1>3, <1>5, <2>2, <2>4, <2>6, <2>8, <2>10 DEF Calls, Placed, Linked, AtPlace
  <2>12. stack' = Call(f, g)
    BY <1>5, <2>5, <2>8, <2>9 DEF Children
  <2>13. QED  BY <1>1, <1>2, <1>3, <2>6, <2>7, <2>10, <2>11, <2>12, OrderGoesOnWith
<1>6. QED  BY <1>4, <1>5

\* output_content.
LEMMA OrderContent ==
  ASSUME IInv, NEW last \in [Els -> Els], Numbered(last), InOrder(last), output_content
  PROVE  InOrder(last)'
<1>1. ASSUME NEW at, At("content", at), stack' = Front(stack), page' = "output", begun' = begun
      PROVE  InOrder(last)'
  BY <1>1, OrderReturns
<1>2. CASE \/ ContentFails \/ StopAtBounds \/ ReturnHidden \/ PlainText \/ PlainTextFails
           \/ FoundCloneFails \/ HitsDone \/ ChildrenDone
  <2>1. PICK at : At("content", at)
    BY <1>2 DEF ContentFails, StopAtBounds, ReturnHidden, PlainText, PlainTextFails,
         FoundCloneFails, InTextWithHits, HitsDone, ChildrenDone
  <2>2. page = "output"
    BY <2>1 DEF At
  <2>3. stack' = Front(stack) /\ page' = "output" /\ begun' = begun
    BY <1>2, <2>2 DEF ContentFails, StopAtBounds, ReturnHidden, PlainText, PlainTextFails,
         FoundCloneFails, HitsDone, ChildrenDone, Return
  <2>4. QED  BY <1>1, <2>1, <2>3
<1>3. CASE Content
  <2>1. At("content", "top") /\ begun' = begun
    BY <1>3 DEF Content
  <2>2. page' = "output"
    BY <1>3, <2>1 DEF Content, At
  <2>3. PICK yes \in BOOLEAN : yes = TRUE
    OBVIOUS
  <2>4. \/ stack' = Front(stack)
        \/ \E to \in {"hidden", "bounds"} : stack' = Replace(Holding(Top, to, yes))
    BY <1>3, <2>3 DEF Content, Return, Holding
  <2>5. CASE \E to \in {"hidden", "bounds"} : stack' = Replace(Holding(Top, to, yes))
    <3>1. PICK to \in {"hidden", "bounds"} : stack' = Replace(Holding(Top, to, yes))
      BY <2>5
    <3>2. QED  BY <2>1, <2>2, <3>1, OrderHolding
  <2>6. QED  BY <1>1, <2>1, <2>2, <2>4, <2>5
<1>4. CASE Hidden \/ HiddenHitEnded
  <2>1. PICK at : At("content", at) /\ at # "children"
    BY <1>4 DEF Hidden, HiddenHitEnded
  <2>2. /\ begun' = begun /\ last_el' = last_el
        /\ page = "output" /\ page' \in {"output", "undefined"}
    BY <1>4, <2>1 DEF Hidden, HiddenHitEnded, At
  <2>3. PICK no \in BOOLEAN : no = FALSE
    OBVIOUS
  <2>4. \/ stack' = Front(stack) /\ page' = page
        \/ stack' = Replace(Holding(Top, "bounds", no))
    BY <1>4, <2>3 DEF Hidden, HiddenHitEnded, HiddenAway, Return, Holding
  <2>5. CASE page' = "undefined"
    <3>1. begun \in Int
      BY <2>1, OrderAt
    <3>2. QED  BY <2>2, <2>5, <3>1 DEF InOrder
  <2>6. CASE page' = "output"
    BY <1>1, <2>1, <2>2, <2>4, <2>6, OrderHolding
  <2>7. QED  BY <2>2, <2>5, <2>6
<1>5. ASSUME NEW at, At("content", at), at # "children", NEW to, to \notin {"top", "children"},
             stack' = Go(to), page' = "output", begun' = begun
      PROVE  InOrder(last)'
  <2>1. PICK f : f = [Top EXCEPT !.at = to]
    OBVIOUS
  <2>2. /\ IsFrame(Top) /\ Top.fn = "content" /\ Top.at = at
        /\ Placed(Top) /\ AtPlace(last, Top, begun, last_el)
    BY <1>5, OrderAt
  <2>3. f.fn = "content" /\ f.el = Top.el /\ f.at = to
    BY <2>1, <2>2, FieldsKept
  <2>4. Placed(f) /\ AtPlace(last, f, begun, last_el')
    BY <1>5, <2>2, <2>3 DEF Placed, AtPlace
  <2>5. QED  BY <1>5, <2>1, <2>4, OrderGoesTo
<1>6. CASE HiddenHit \/ HitFromBefore \/ TextBeforeHit \/ HitBegins \/ HitText
  <2>1. PICK at : At("content", at) /\ at # "children"
    BY <1>6 DEF HiddenHit, HitFromBefore, TextBeforeHit, InTextWithHits, HitBegins, HitText
  <2>2. PICK to : stack' = Go(to) /\ to \notin {"top", "children"}
    BY <1>6 DEF HiddenHit, HitFromBefore, TextBeforeHit, HitBegins, HitText
  <2>3. page' = "output" /\ begun' = begun
    BY <1>6, <2>1 DEF HiddenHit, HitFromBefore, TextBeforeHit, HitBegins, HitText, At
  <2>4. QED  BY <1>5, <2>1, <2>2, <2>3
<1>7. CASE HitEnded \/ HitBegun \/ HitGoesOn \/ HitEnds
  <2>1. PICK at : At("content", at) /\ at # "children"
    BY <1>7 DEF HitEnded, HitBegun, HitGoesOn, HitEnds
  <2>2. page = "output" /\ begun \in Int /\ begun' = begun
    BY <1>7, <2>1, HitLeads, OrderAt
  <2>3. CASE page' = "undefined"
    BY <2>2, <2>3 DEF InOrder
  <2>4. CASE page' # "undefined"
    <3>1. /\ page' = "output"
          /\ stack' = Front(stack) \/ \E to \in {"hit", "found"} : stack' = Go(to)
      BY <1>7, <2>2, <2>4, HitLeads
    <3>2. QED  BY <1>1, <1>5, <2>1, <2>2, <3>1
  <2>5. QED  BY <2>3, <2>4
<1>8. QED  BY <1>2, <1>3, <1>4, <1>6, <1>7, OrderChildren DEF output_content

(***************************************************************************)
(* The order through each step: spans, and the page                        *)
(***************************************************************************)
\* A span begins: its procedure's place is kept.
LEMMA OrderFormatSpan ==
  ASSUME IInv, NEW last, InOrder(last), FormatSpan
  PROVE  InOrder(last)'
<1>1. PICK fn, at : /\ At(fn, at)
                    /\ \/ fn = "element" /\ at \in {"top", "content", "climb"}
                       \/ fn = "content" /\ at \in {"top"} \cup FoundPlaces
                       \/ fn = "span" /\ at \in {"down", "up"}
  BY ProcedureRuns DEF FormatSpan
<1>2. /\ page = "output" /\ IsFrame(Top) /\ Top.fn = fn /\ Top.at = at
      /\ begun \in Int /\ AtPlace(last, Top, begun, last_el)
  BY <1>1, OrderAt
<1>13. fn = "span" /\ at = "down" => begun = -1 /\ bounds.start_el \in Els
  BY <1>1, OrderAt DEF InOrder, Unbegun
<1>3. told_to_stop = FALSE
  <2>1. ~told_to_stop /\ told_to_stop \in BOOLEAN
    BY ProcedureRuns DEF FormatSpan
  <2>2. QED  BY <2>1
<1>4. PICK b \in Spans, c \in DOMAIN Commands :
        bounds' = b /\ stack' = Append(stack,
          SpanFrame(b.start_el, IF Commands[c].down THEN "down" ELSE "output", Saved(c)))
  BY DEF FormatSpan, SpanFrame, Saved
<1>5. PICK v : v = Saved(c)
  OBVIOUS
<1>6. PICK to : to = IF Commands[c].down THEN "down" ELSE "output"
  OBVIOUS
<1>7. PICK g : g = SpanFrame(b.start_el, to, v)
  OBVIOUS
<1>8. /\ v.begun = begun /\ v.last_el = last_el /\ v.bounds = bounds
      /\ v.told \in BOOLEAN /\ ~v.told
  BY <1>3, <1>5 DEF Saved
<1>9. IsFrame(g) /\ g.fn = "span" /\ ~g.holds /\ g.saved = v
  BY <1>7, <1>8, FrameSpan
<1>10. Calls(Top, g) /\ Placed(g) /\ Linked(last, Top, g) /\ AtPlace(last, g, begun', last_el')
  BY <1>1, <1>2, <1>8, <1>9, <1>13 DEF Calls, Placed, Linked, AtPlace
<1>11. /\ stack' = Append(stack, g) /\ page' = "output" /\ begun' = -1
       /\ bounds'.start_el \in Els
  BY <1>2, <1>4, <1>5, <1>6, <1>7, BookAssumption DEF FormatSpan
<1>12. QED  BY <1>1, <1>9, <1>10, <1>11, OrderCallsAlso

\* A span ends: its procedure is where it was.
LEMMA OrderEndSpan ==
  ASSUME IInv, NEW last, InOrder(last), NEW at, At("span", at), NEW b, EndSpan(b)
  PROVE  InOrder(last)'
<1>1. /\ page = "output" /\ stack # <<>> /\ Top = Last(stack) /\ IsStack(stack)
      /\ Top.fn = "span" /\ IsLinked(last, stack)
  BY OrderAt
<1>2. /\ stack' = Front(stack) /\ page' = "output"
      /\ begun' = Top.saved.begun /\ last_el' = Top.saved.last_el
  BY <1>1 DEF EndSpan
<1>3. IsLinked(last, stack') /\ (stack' # <<>> => Linked(last, Last(stack'), Top))
  BY <1>1, <1>2, LinkedPopped
<1>4. stack' # <<>>
  BY <1>1, <1>2, StackPopped
<1>5. begun' \in Int /\ AtPlace(last, Last(stack'), begun', last_el')
  BY <1>1, <1>2, <1>3, <1>4 DEF Linked
<1>6. Unbegun(Last(stack'), ret') => begun' = -1 /\ bounds'.start_el \in Els
  <2>1. PICK e : e = Last(stack')
    OBVIOUS
  <2>2. Calls(e, Top) /\ Linked(last, e, Top)
    BY <1>1, <1>2, <1>3, <1>4, <2>1, StackPopped
  <2>3. Unbegun(e, ret') => e.fn = "span" /\ e.at = "down"
    BY <1>1, <2>2 DEF Unbegun, Calls
  <2>4. bounds' = Top.saved.bounds
    BY DEF EndSpan
  <2>5. QED  BY <1>1, <1>2, <2>1, <2>2, <2>3, <2>4 DEF Linked
<1>7. QED  BY <1>2, <1>3, <1>5, <1>6 DEF InOrder

\* The spans.
LEMMA OrderSpan ==
  ASSUME IInv, NEW last \in [Els -> Els], InOrder(last), span
  PROVE  InOrder(last)'
<1>1. ASSUME NEW at, At("span", at), NEW b, EndSpan(b) PROVE InOrder(last)'
  BY <1>1, OrderEndSpan
<1>2. ASSUME NEW at, At("span", at), NEW to, to # "top", stack' = Go(to), page' = page,
             begun' = begun, to = "up" \/ (begun = -1 /\ bounds'.start_el \in Els)
      PROVE  InOrder(last)'
  <2>1. page = "output" /\ IsFrame(Top) /\ Top.fn = "span"
    BY <1>2, OrderAt
  <2>2. PICK f : f = [Top EXCEPT !.at = to]
    OBVIOUS
  <2>3. f.fn = "span"
    BY <2>1, <2>2, FieldsKept
  <2>4. Placed(f) /\ AtPlace(last, f, begun, last_el')
    BY <2>3 DEF Placed, AtPlace
  <2>5. QED  BY <1>2, <2>1, <2>2, <2>4, OrderGoesTo
<1>3. CASE SpanFails \/ WalkUpDone
  BY <1>1, <1>3 DEF SpanFails, WalkUpDone
<1>4. CASE WalkDown \/ WalkUp
  <2>1. PICK at : At("span", at)
    BY <1>4 DEF WalkDown, WalkUp
  <2>2. page = "output" /\ AtPlace(last, Top, begun, last_el)
    BY <2>1, OrderAt
  <2>3. UNCHANGED <<stack, page, begun, last_el, ret, bounds>>
    BY <1>4 DEF WalkDown, WalkUp
  <2>4. QED  BY <2>1, <2>2, <2>3, OrderStays
<1>5. CASE WalkDownDone
  <2>1. /\ At("span", "down") /\ stack' = Go("output") /\ page' = page /\ begun' = begun
        /\ bounds' = bounds
    BY <1>5 DEF WalkDownDone
  <2>2. begun = -1 /\ bounds.start_el \in Els
    BY <2>1, OrderAt DEF InOrder, Unbegun
  <2>3. QED  BY <1>2, <2>1, <2>2
<1>6. CASE OutputSpan
  <2>1. At("span", "output") /\ ret = Running /\ UNCHANGED <<page, begun, last_el>>
    BY <1>6 DEF OutputSpan
  <2>2. page = "output" /\ Top.fn = "span" /\ Top.at = "output" /\ begun \in Int
    BY <2>1, OrderAt
  <2>3. PICK yes : yes = TRUE
    OBVIOUS
  <2>4. PICK g : g = Frame("element", bounds.start_el, yes, yes)
    OBVIOUS
  <2>5. /\ IsFrame(g) /\ ~g.holds /\ g.fn = "element" /\ g.at = "top"
        /\ g.el = bounds.start_el
    BY <2>4, FrameMade, FrameFields
  <2>6. stack' = Append(stack, g)
    BY <1>6, <2>3, <2>4 DEF OutputSpan
  <2>7. Calls(Top, g) /\ Linked(last, Top, g)
    BY <2>2, <2>5 DEF Calls, Linked
  <2>8. begun = -1 /\ bounds.start_el \in Els /\ bounds.start_el \in Nat
    BY <2>1, OrderAt, BookAssumption DEF InOrder, Unbegun
  <2>9. begun < bounds.start_el
    BY <2>8
  <2>10. Placed(g) /\ AtPlace(last, g, begun', last_el')
    BY <2>1, <2>5, <2>8, <2>9 DEF Placed, AtPlace
  <2>11. QED  BY <2>1, <2>2, <2>5, <2>6, <2>7, <2>10, OrderCallsAlso
<1>7. CASE SpanOutput
  <2>1. At("span", "output")
    BY <1>7 DEF SpanOutput
  <2>2. CASE ret = 0 \/ ~Commands[Top.saved.command].up
    BY <1>1, <1>7, <2>1, <2>2 DEF SpanOutput
  <2>3. CASE ~(ret = 0 \/ ~Commands[Top.saved.command].up)
    <3>1. stack' = Go("up") /\ page' = page /\ begun' = begun
      BY <1>7, <2>3 DEF SpanOutput
    <3>2. QED  BY <1>2, <2>1, <3>1
  <2>4. QED  BY <2>2, <2>3
<1>8. QED  BY <1>3, <1>4, <1>5, <1>6, <1>7, OrderFormatSpan DEF span

\* A page begins.
LEMMA OrderStartPage ==
  ASSUME NEW last, InOrder(last), StartPage
  PROVE  InOrder(last)'
<1>1. page = "begin" /\ begun = -1 /\ page' = "output" /\ begun' = begun
  BY DEF StartPage, InOrder
<1>2. PICK el \in Starts :
        stack' = <<[Frame("element", el, outputSiblings, outputRight) EXCEPT !.hide = hide']>>
  BY DEF StartPage
<1>3. el \in Els /\ el \in Nat
  BY BookAssumption
<1>4. PICK f : f = [Frame("element", el, outputSiblings, outputRight) EXCEPT !.hide = hide']
  OBVIOUS
<1>5. f.fn = "element" /\ f.el = el /\ f.at = "top"
  BY <1>4 DEF Frame
<1>6. -1 < el
  BY <1>3
<1>7. Placed(f) /\ AtPlace(last, f, begun', last_el') /\ ~Unbegun(f, ret')
  BY <1>1, <1>3, <1>5, <1>6 DEF Placed, AtPlace, Unbegun
<1>8. stack' = <<f>> /\ DOMAIN stack' = {1} /\ stack'[1] = f /\ Last(stack') = f
  BY <1>2, <1>4 DEF Last
<1>9. IsLinked(last, stack')
  BY <1>7, <1>8 DEF IsLinked
<1>10. QED  BY <1>1, <1>7, <1>8, <1>9 DEF InOrder

\* Without startEl, the next state is in order too.
LEMMA NextInOrder ==
  ASSUME StartEls = {}, IInv, NEW last \in [Els -> Els], Numbered(last), InOrder(last),
         [Next]_vars
  PROVE  InOrder(last)'
<1>1. CASE output_element
  BY <1>1, OrderElement
<1>2. CASE output_content
  BY <1>2, OrderContent
<1>3. CASE span
  BY <1>3, OrderSpan
<1>4. CASE StartPage
  BY <1>4, OrderStartPage
<1>5. CASE get_find_sg_text
  <2>1. page' = "begin" /\ page = "begin" /\ begun' = begun
    BY <1>5 DEF get_find_sg_text
  <2>2. QED  BY <2>1 DEF InOrder
<1>6. CASE NoPage \/ EndPage
  <2>1. page' = "closed" /\ begun' = begun
    BY <1>6 DEF NoPage, EndPage
  <2>2. QED  BY <2>1 DEF InOrder
<1>7. CASE UNCHANGED vars
  <2>1. UNCHANGED <<page, stack, begun, last_el, ret, bounds>>
    BY <1>7 DEF vars
  <2>2. QED  BY <2>1 DEF InOrder
<1>8. QED  BY <1>1, <1>2, <1>3, <1>4, <1>5, <1>6, <1>7 DEF Next, make_reader_file

\* Elements are begun in the order of the book, each once, unless a procedure
\* sets startEl: from sibling to sibling, down to the children, and up and to
\* the right, in the page and in its spans (output_element, output_content).
THEOREM InDocumentOrder == StartEls = {} => (Spec => []DocumentOrder)
<1>1. SUFFICES ASSUME StartEls = {} PROVE Spec => []DocumentOrder
  OBVIOUS
<1>2. PICK last \in [Els -> Els] : Numbered(last)
  BY BookAssumption
<1>3. Init => InOrder(last)
  BY DEF Init, InOrder
<1>4. InOrder(last) /\ IInv /\ [Next]_vars => InOrder(last)'
  BY <1>1, <1>2, NextInOrder
<1>5. InOrder(last) /\ IInv => DocumentOrder
  <2>1. SUFFICES ASSUME InOrder(last), IInv, At("element", "top") PROVE Top.el > begun
    BY DEF DocumentOrder
  <2>2. /\ begun \in Int /\ Placed(Top) /\ AtPlace(last, Top, begun, last_el)
        /\ Top.fn = "element" /\ Top.at = "top"
    BY <2>1, OrderAt
  <2>3. Top.el \in Nat /\ begun < Top.el
    BY <2>2, BookAssumption DEF Placed, AtPlace
  <2>4. QED  BY <2>2, <2>3
<1>6. QED  BY <1>3, <1>4, <1>5, Invariance, PTL DEF Spec

(***************************************************************************)
(* Elements nest.  opens[k] is what is open above the k-th call: the       *)
(* elements begun and not ended there.                                     *)
(***************************************************************************)
\* What the calls of f find open.
Opened(f, o) == IF f.fn = "element" THEN Append(o, f.el) ELSE o

\* With o open above f, q is open where f stands, l being last_el; a call that
\* goes up and to the right has left the elements that it climbs from.
OpenAt(f, o, q, l) ==
  CASE f.fn = "element" /\ f.at = "content" -> q = Append(o, f.el)
    [] f.fn = "element" /\ f.at = "climb" ->
         f.right /\ l \in Els \ {0} /\ q = Above(l)
    [] f.fn = "element" /\ f.at = "jump" /\ f.right ->
         q = IF f.next = 0 THEN <<>> ELSE Above(f.next)
    [] OTHER -> q = o

Reaches(f, o) ==
  /\ f.fn # "span" /\ f.el \in Els
  /\ f.fn = "element" /\ f.at \in {"content", "next"} => f.next = Rsib[f.el]
  /\ f.fn = "element" /\ f.at = "jump" => f.next \in Els
  /\ f.right => /\ f.sibs
                /\ f.fn = "element" /\ f.at \in {"top", "content", "next"} =>
                     o = Above(f.el)

\* Only the call of make_reader_file can go to the right.
Nest(o, s) ==
  \A k \in DOMAIN s :
    /\ Reaches(s[k], o[k])
    /\ k = 1 => s[k].right = outputRight
    /\ k > 1 => ~s[k].right /\ o[k] = Opened(s[k - 1], o[k - 1])

NestInv(o) ==
  /\ open \in Seq(Els)
  /\ page = "begin" => ret = Running
  /\ page = "output" =>
       /\ Nest(o, stack)
       /\ stack # <<>> /\ ~told_to_stop =>
            OpenAt(Last(stack), o[Len(stack)], open, last_el)
  /\ page = "closed" \/ (page = "output" /\ stack = <<>>) =>
       (ret = 1 /\ outputRight => open = <<>>)

Opens == [Nat -> Seq(Els)]
Nesting == \E o \in Opens : NestInv(o)

\* The paths of the book.
LEMMA AboveIs ==
  ASSUME NEW e \in Els
  PROVE  /\ Above(e) \in Seq(Els)
         /\ e = 0 => Above(e) = <<>>
         /\ e # 0 => /\ Ancestor[e] \in Els
                     /\ Above(e) = Append(Above(Ancestor[e]), Ancestor[e])
         /\ Rsib[e] \in Els /\ (Rsib[e] # 0 => e # 0 /\ Above(Rsib[e]) = Above(e))
<1>1. PICK last \in [Els -> Els] : Numbered(last)
  BY BookAssumption
<1>2. Tree(Els, Ancestor)
  BY <1>1, BookAssumption DEF Tree, Numbered
<1>3. PICK up : up = CHOOSE f :
        f = [k \in Els |-> IF k = 0 THEN <<0>> ELSE Append(f[Ancestor[k]], k)]
  OBVIOUS
<1>4. ASSUME NEW k \in Els
      PROVE  /\ up[k] = IF k = 0 THEN <<0>> ELSE Append(up[Ancestor[k]], k)
             /\ up[k] \in Seq(Els)
  BY <1>2, <1>3, PathsAre
<1>5. \A k \in Els : Path(k) = up[k]
  BY <1>3 DEF Path
<1>6. \A k \in Els : Ancestor[k] \in Els /\ Rsib[k] \in Els
  BY BookAssumption
<1>7. \A k \in Els : Path(k) = Append(Above(k), k)
  <2>1. SUFFICES ASSUME NEW k \in Els PROVE Path(k) = Append(Above(k), k)
    OBVIOUS
  <2>2. CASE k = 0
    <3>1. Path(k) = <<0>> /\ Above(k) = <<>>
      BY <1>4, <1>5, <2>2 DEF Above
    <3>2. Append(<<>>, 0) = <<0>>
      OBVIOUS
    <3>3. QED  BY <2>2, <3>1, <3>2
  <2>3. CASE k # 0
    <3>1. Path(k) = Append(up[Ancestor[k]], k) /\ up[Ancestor[k]] = Path(Ancestor[k])
      BY <1>4, <1>5, <1>6, <2>3
    <3>2. QED  BY <2>3, <3>1 DEF Above
  <2>4. QED  BY <2>2, <2>3
<1>8. Above(e) \in Seq(Els) /\ (e = 0 => Above(e) = <<>>)
  BY <1>4, <1>5, <1>6 DEF Above
<1>9. e # 0 => Above(e) = Append(Above(Ancestor[e]), Ancestor[e])
  BY <1>6, <1>7 DEF Above
<1>10. ASSUME Rsib[e] # 0 PROVE e # 0 /\ Above(Rsib[e]) = Above(e)
  <2>1. e # 0
    BY <1>10, BookAssumption
  <2>2. Ancestor[Rsib[e]] = Ancestor[e]
    BY <1>1, <1>10 DEF Numbered
  <2>3. QED  BY <1>10, <2>1, <2>2 DEF Above
<1>11. QED  BY <1>6, <1>8, <1>9, <1>10

\* A call returns.
LEMMA NestPopped ==
  ASSUME NEW o, NEW s, IsStack(s), s # <<>>, Nest(o, s)
  PROVE  /\ Nest(o, Front(s))
         /\ \E n \in Nat :
              /\ n = Len(s) /\ n >= 1 /\ (n = 1 <=> Front(s) = <<>>)
              /\ Reaches(Last(s), o[n])
              /\ n = 1 => Last(s).right = outputRight
              /\ n > 1 => /\ ~Last(s).right
                          /\ n - 1 = Len(Front(s))
                          /\ o[n] = Opened(Last(Front(s)), o[n - 1])
<1>1. PICK t : t = Front(s)
  OBVIOUS
<1>2. PICK m \in Nat : /\ Len(s) = m + 1 /\ DOMAIN s = 1 .. m + 1 /\ Last(s) = s[m + 1]
                       /\ IsList(t) /\ Len(t) = m /\ DOMAIN t = 1 .. m
                       /\ \A k \in 1 .. m : t[k] = s[k]
  <2>1. IsList(s)
    BY DEF IsStack
  <2>2. QED  BY <1>1, <2>1, Popped
<1>3. \A k \in 1 .. m : k \in 1 .. m + 1 /\ (k > 1 => k - 1 \in 1 .. m)
  OBVIOUS
<1>4. m + 1 \in 1 .. m + 1
  OBVIOUS
<1>5. Nest(o, t)
  BY <1>2, <1>3 DEF Nest
<1>6. /\ Reaches(Last(s), o[m + 1])
      /\ m + 1 = 1 => Last(s).right = outputRight
      /\ m + 1 > 1 => /\ ~Last(s).right
                      /\ o[m + 1] = Opened(s[(m + 1) - 1], o[(m + 1) - 1])
  BY <1>2, <1>4 DEF Nest
<1>7. m = 0 <=> t = <<>>
  <2>1. PICK S : t \in Seq(S)
    BY <1>2 DEF IsList
  <2>2. QED  BY <1>2, <2>1
<1>8. ASSUME m + 1 > 1 PROVE Last(t) = s[(m + 1) - 1] /\ (m + 1) - 1 = Len(t)
  <2>1. m \in 1 .. m /\ (m + 1) - 1 = m
    BY <1>8
  <2>2. QED  BY <1>2, <2>1 DEF Last
<1>9. m + 1 >= 1 /\ (m = 0 <=> m + 1 = 1) /\ m + 1 \in Nat
  OBVIOUS
<1>10. PICK n \in Nat : n = m + 1
  BY <1>9
<1>11. QED  BY <1>1, <1>2, <1>5, <1>6, <1>7, <1>8, <1>9, <1>10

\* A call is made.
LEMMA NestPushed ==
  ASSUME NEW o \in Opens, NEW s, IsStack(s), s # <<>>, Nest(o, s), NEW q \in Seq(Els),
         NEW g, Reaches(g, q), ~g.right, q = Opened(Last(s), o[Len(s)])
  PROVE  \E p \in Opens : Nest(p, Append(s, g)) /\ p[Len(Append(s, g))] = q
<1>1. PICK t : t = Append(s, g)
  OBVIOUS
<1>2. PICK n \in Nat : /\ n = Len(s) /\ DOMAIN s = 1 .. n
                       /\ Len(t) = n + 1 /\ DOMAIN t = 1 .. n + 1
                       /\ \A k \in 1 .. n : t[k] = s[k]
                       /\ t[n + 1] = g
  <2>1. IsList(s)
    BY DEF IsStack
  <2>2. QED  BY <1>1, <2>1, Pushed
<1>3. n # 0
  <2>1. PICK S : s \in Seq(S)
    BY DEF IsStack, IsList
  <2>2. QED  BY <1>2, <2>1
<1>4. n \in 1 .. n /\ (n + 1) - 1 = n /\ n + 1 > 1 /\ n + 1 # 1 /\ n + 1 \in Nat
  BY <1>3
<1>5. PICK p : p = [o EXCEPT ![n + 1] = q]
  OBVIOUS
<1>6. p \in Opens /\ p[n + 1] = q /\ \A k \in 1 .. n : p[k] = o[k]
  <2>1. \A k \in 1 .. n : k \in Nat /\ k # n + 1
    OBVIOUS
  <2>2. QED  BY <1>4, <1>5, <2>1 DEF Opens
<1>7. ASSUME NEW k \in 1 .. n
      PROVE  /\ Reaches(t[k], p[k])
             /\ k = 1 => t[k].right = outputRight
             /\ k > 1 => ~t[k].right /\ p[k] = Opened(t[k - 1], p[k - 1])
  <2>1. k > 1 => k - 1 \in 1 .. n
    OBVIOUS
  <2>2. QED  BY <1>2, <1>6, <2>1 DEF Nest
<1>8. /\ Reaches(t[n + 1], p[n + 1]) /\ ~t[n + 1].right
      /\ p[n + 1] = Opened(t[(n + 1) - 1], p[(n + 1) - 1])
  BY <1>2, <1>4, <1>6 DEF Last
<1>9. \A k \in 1 .. n + 1 : k = n + 1 \/ k \in 1 .. n
  OBVIOUS
<1>10. Nest(p, t)
  BY <1>2, <1>4, <1>7, <1>8, <1>9 DEF Nest
<1>11. QED  BY <1>1, <1>2, <1>6, <1>10

\* The innermost call goes on as f, with q open above it: what was, unless it
\* goes to the right.
LEMMA NestReplaced ==
  ASSUME NEW o \in Opens, NEW s, IsStack(s), s # <<>>, Nest(o, s), NEW q \in Seq(Els),
         NEW f, Reaches(f, q), f.right = Last(s).right, q = o[Len(s)] \/ Len(s) = 1,
         NEW t, Replaces(t, s, f)
  PROVE  \E p \in Opens : Nest(p, t) /\ p[Len(t)] = q
<1>1. PICK m \in Nat :
        /\ Len(s) = m + 1 /\ DOMAIN s = 1 .. m + 1 /\ Last(s) = s[m + 1]
        /\ Len(t) = m + 1 /\ DOMAIN t = 1 .. m + 1
        /\ \A k \in 1 .. m : t[k] = s[k]
        /\ t[m + 1] = f
  <2>1. IsList(s)
    BY DEF IsStack
  <2>2. QED  BY <2>1, LastReplaced
<1>2. m + 1 \in 1 .. m + 1 /\ m + 1 \in Nat
  OBVIOUS
<1>3. PICK p : p = [o EXCEPT ![m + 1] = q]
  OBVIOUS
<1>4. p \in Opens /\ p[m + 1] = q /\ \A k \in 1 .. m : p[k] = o[k]
  <2>1. \A k \in 1 .. m : k \in Nat /\ k # m + 1
    OBVIOUS
  <2>2. QED  BY <1>2, <1>3, <2>1 DEF Opens
<1>5. ASSUME NEW k \in 1 .. m
      PROVE  /\ Reaches(t[k], p[k])
             /\ k = 1 => t[k].right = outputRight
             /\ k > 1 => ~t[k].right /\ p[k] = Opened(t[k - 1], p[k - 1])
  <2>1. k \in 1 .. m + 1 /\ (k > 1 => k - 1 \in 1 .. m)
    OBVIOUS
  <2>2. QED  BY <1>1, <1>4, <2>1 DEF Nest
<1>6. ASSUME m + 1 > 1
      PROVE  ~t[m + 1].right /\ p[m + 1] = Opened(t[(m + 1) - 1], p[(m + 1) - 1])
  <2>1. m \in 1 .. m /\ (m + 1) - 1 = m /\ m + 1 # 1
    BY <1>6
  <2>2. ~s[m + 1].right /\ o[m + 1] = Opened(s[m], o[m])
    BY <1>1, <1>2, <1>6, <2>1 DEF Nest
  <2>3. q = o[m + 1]
    BY <1>1, <2>1
  <2>4. QED  BY <1>1, <1>4, <2>1, <2>2, <2>3
<1>7. m + 1 = 1 => t[m + 1].right = outputRight
  BY <1>1, <1>2 DEF Nest
<1>8. \A k \in 1 .. m + 1 : k = m + 1 \/ k \in 1 .. m
  OBVIOUS
<1>9. Nest(p, t)
  BY <1>1, <1>4, <1>5, <1>6, <1>7, <1>8 DEF Nest
<1>10. QED  BY <1>1, <1>4, <1>9

\* What was appended last is the last; without it, the list is as before.
LEMMA AppendedLast ==
  ASSUME NEW S, NEW q \in Seq(S), NEW e \in S
  PROVE  Append(q, e) # <<>> /\ Last(Append(q, e)) = e /\ Front(Append(q, e)) = q
<1>1. PICK t : t = Append(q, e) /\ t \in Seq(S)
  BY AppendProperties
<1>2. PICK n \in Nat : /\ n = Len(q) /\ DOMAIN q = 1 .. n /\ Len(t) = n + 1
                       /\ t[n + 1] = e /\ \A k \in 1 .. n : t[k] = q[k]
  BY <1>1
<1>3. t # <<>>
  BY <1>2
<1>4. Last(t) = e
  BY <1>2 DEF Last
<1>5. Front(t) = q
  <2>1. PICK u : u = Front(t)
    OBVIOUS
  <2>2. u \in Seq(S) /\ Len(u) = Len(t) - 1 /\ \A k \in 1 .. Len(t) - 1 : u[k] = t[k]
    BY <1>1, <1>3, <2>1, FrontShape
  <2>3. (n + 1) - 1 = n
    OBVIOUS
  <2>4. Len(u) = Len(q) /\ \A k \in 1 .. Len(u) : u[k] = q[k]
    BY <1>2, <2>2, <2>3
  <2>5. u = q
    BY <2>2, <2>4, SeqEqual
  <2>6. QED  BY <2>1, <2>5
<1>6. QED  BY <1>1, <1>3, <1>4, <1>5

\* What is known of the innermost call.
LEMMA NestAt ==
  ASSUME IInv, NEW o \in Opens, NestInv(o), NEW fn, NEW at, At(fn, at)
  PROVE  /\ page = "output" /\ stack # <<>> /\ Top = Last(stack) /\ IsStack(stack)
         /\ IsFrame(Top) /\ Top.fn = fn /\ Top.at = at /\ fn # "span"
         /\ open \in Seq(Els) /\ Nest(o, stack)
         /\ Len(stack) \in Nat /\ o[Len(stack)] \in Seq(Els)
         /\ Reaches(Top, o[Len(stack)])
         /\ Top.right => outputRight /\ Len(stack) = 1
         /\ ~told_to_stop => OpenAt(Top, o[Len(stack)], open, last_el)
<1>1. /\ page = "output" /\ stack # <<>> /\ Top = Last(stack) /\ IsStack(stack)
      /\ IsFrame(Top) /\ Top.fn = fn /\ Top.at = at
  BY AtIs
<1>2. /\ open \in Seq(Els) /\ Nest(o, stack)
      /\ ~told_to_stop => OpenAt(Top, o[Len(stack)], open, last_el)
  BY <1>1 DEF NestInv
<1>3. PICK n \in Nat :
        /\ n = Len(stack) /\ n >= 1
        /\ Reaches(Top, o[n])
        /\ n = 1 => Top.right = outputRight
        /\ n > 1 => ~Top.right
  BY <1>1, <1>2, NestPopped
<1>4. Top.right => outputRight /\ n = 1
  <2>1. n = 1 \/ n > 1
    BY <1>3
  <2>2. QED  BY <1>3, <2>1, Zenon
<1>5. o[n] \in Seq(Els)
  BY DEF Opens
<1>6. fn # "span"
  BY <1>1, <1>3 DEF Reaches
<1>7. QED  BY <1>1, <1>2, <1>3, <1>4, <1>5, <1>6

\* A call of output_element returns, the output was told to stop.
LEMMA NestStops ==
  ASSUME IInv, NEW o \in Opens, NestInv(o), NEW at, At("element", at),
         stack' = Front(stack), ret' \in {0, 4}, page' = "output", told_to_stop' = TRUE,
         open' \in Seq(Els)
  PROVE  Nesting'
<1>1. stack # <<>> /\ IsStack(stack) /\ Nest(o, stack)
  BY NestAt
<1>2. Nest(o, stack')
  BY <1>1, NestPopped
<1>3. ret' # 1
  OBVIOUS
<1>4. NestInv(o)'
  BY <1>2, <1>3 DEF NestInv
<1>5. QED  BY <1>4 DEF Nesting

\* A call of output_content returns: what it has begun is ended, or the output
\* was told to stop.
LEMMA NestReturns ==
  ASSUME IInv, NEW o \in Opens, NestInv(o), NEW at, At("content", at),
         stack' = Front(stack), page' = "output", told_to_stop => told_to_stop',
         open' = open
  PROVE  Nesting'
<1>1. /\ stack # <<>> /\ Top = Last(stack) /\ IsStack(stack) /\ Nest(o, stack)
      /\ Top.fn = "content" /\ open \in Seq(Els)
      /\ ~told_to_stop => OpenAt(Top, o[Len(stack)], open, last_el)
  BY NestAt
<1>2. Nest(o, stack') /\ stack' # <<>> /\ Calls(Last(stack'), Top)
  BY <1>1, StackPopped, NestPopped
<1>3. PICK n \in Nat :
        /\ n = Len(stack)
        /\ n - 1 = Len(stack') /\ o[n] = Opened(Last(stack'), o[n - 1])
  <2>1. PICK n \in Nat :
          /\ n = Len(stack) /\ n >= 1 /\ (n = 1 <=> stack' = <<>>)
          /\ n > 1 => n - 1 = Len(stack') /\ o[n] = Opened(Last(stack'), o[n - 1])
    BY <1>1, NestPopped
  <2>2. n > 1
    BY <1>2, <2>1
  <2>3. QED  BY <2>1, <2>2
<1>4. ASSUME ~told_to_stop' PROVE OpenAt(Last(stack'), o[n - 1], open, last_el')
  <2>1. open = o[n]
    BY <1>1, <1>3, <1>4 DEF OpenAt
  <2>2. Last(stack').fn = "element" /\ Last(stack').at = "content"
    BY <1>1, <1>2 DEF Calls
  <2>3. QED  BY <1>3, <2>1, <2>2 DEF OpenAt, Opened
<1>5. NestInv(o)'
  BY <1>1, <1>2, <1>3, <1>4 DEF NestInv
<1>6. QED  BY <1>5 DEF Nesting

\* A call goes on, as f.
LEMMA NestGoesOn ==
  ASSUME IInv, NEW o \in Opens, NestInv(o), NEW fn, NEW at, At(fn, at),
         NEW f, IsFrame(f), f.fn = Top.fn, f.right = Top.right,
         NEW q \in Seq(Els), q = o[Len(stack)] \/ Top.right, Reaches(f, q),
         stack' = Replace(f), page' = "output",
         open' \in Seq(Els), OpenAt(f, q, open', last_el')
  PROVE  Nesting'
<1>1. /\ stack # <<>> /\ Top = Last(stack) /\ IsStack(stack) /\ Nest(o, stack)
      /\ Top.right => Len(stack) = 1
  BY NestAt
<1>2. Replaces(stack', stack, f)
  BY DEF Replace, Replaces
<1>3. PICK p \in Opens : Nest(p, stack') /\ p[Len(stack')] = q
  BY <1>1, <1>2, NestReplaced
<1>4. stack' # <<>> /\ Last(stack') = f
  BY <1>1, <1>2, StackReplaced
<1>5. NestInv(p)'
  BY <1>3, <1>4 DEF NestInv
<1>6. QED  BY <1>5 DEF Nesting

\* A call goes on, as f, with a call of g.
LEMMA NestGoesOnWith ==
  ASSUME IInv, NEW o \in Opens, NestInv(o), NEW fn, NEW at, At(fn, at),
         NEW f, IsFrame(f), f.fn = Top.fn, f.right = Top.right,
         NEW q, q = o[Len(stack)], Reaches(f, q),
         NEW g, IsFrame(g), ~g.holds, Calls(f, g), ~g.right,
         Opened(f, q) \in Seq(Els), Reaches(g, Opened(f, q)),
         stack' = Call(f, g), page' = "output",
         open' \in Seq(Els), OpenAt(g, Opened(f, q), open', last_el')
  PROVE  Nesting'
<1>1. /\ stack # <<>> /\ Top = Last(stack) /\ IsStack(stack) /\ Nest(o, stack)
      /\ q \in Seq(Els)
  BY NestAt
<1>2. PICK t : Replaces(t, stack, f)
  BY DEF Replaces
<1>3. stack' = Append(t, g)
  BY <1>2 DEF Replace, Replaces, Call
<1>4. IsStack(t) /\ t # <<>> /\ Last(t) = f
  BY <1>1, <1>2, StackReplaced
<1>5. PICK p \in Opens : Nest(p, t) /\ p[Len(t)] = q
  BY <1>1, <1>2, NestReplaced
<1>6. PICK r \in Opens : Nest(r, stack') /\ r[Len(stack')] = Opened(f, q)
  <2>1. PICK w \in Seq(Els) : w = Opened(f, q) /\ Reaches(g, w)
    OBVIOUS
  <2>2. w = Opened(Last(t), p[Len(t)])
    BY <1>4, <1>5, <2>1
  <2>3. IsStack(t) /\ t # <<>> /\ Nest(p, t) /\ ~g.right
    BY <1>4, <1>5
  <2>4. \E r \in Opens : Nest(r, Append(t, g)) /\ r[Len(Append(t, g))] = w
    BY <2>1, <2>2, <2>3, NestPushed
  <2>5. QED  BY <1>3, <2>1, <2>4
<1>7. stack' # <<>> /\ Last(stack') = g
  BY <1>3, <1>4, StackPushed
<1>8. NestInv(r)'
  BY <1>6, <1>7 DEF NestInv
<1>9. QED  BY <1>8 DEF Nesting

\* The calls stay where they are, or the page is at its end.
LEMMA NestStays ==
  ASSUME IInv, NEW o \in Opens, NestInv(o), NEW fn, NEW at, At(fn, at),
         page' \in {"output", "undefined"}, UNCHANGED <<stack, open, last_el>>,
         told_to_stop => told_to_stop'
  PROVE  Nesting'
<1>1. /\ stack # <<>> /\ Top = Last(stack) /\ Nest(o, stack) /\ open \in Seq(Els)
      /\ ~told_to_stop => OpenAt(Top, o[Len(stack)], open, last_el)
  BY NestAt
<1>2. NestInv(o)'
  BY <1>1 DEF NestInv
<1>3. QED  BY <1>2 DEF Nesting

\* An element is begun.
LEMMA NestBegin ==
  ASSUME IInv, NEW o \in Opens, NestInv(o), Begin
  PROVE  Nesting'
<1>1. At("element", "top") /\ ~told_to_stop
  BY AtTop DEF Begin
<1>2. PICK q : q = o[Len(stack)]
  OBVIOUS
<1>3. /\ page = "output" /\ IsFrame(Top) /\ Top.fn = "element" /\ Top.at = "top"
      /\ q \in Seq(Els) /\ Reaches(Top, q) /\ open = q
  <2>1. OpenAt(Top, q, open, last_el)
    BY <1>1, <1>2, NestAt
  <2>2. /\ page = "output" /\ IsFrame(Top) /\ Top.fn = "element" /\ Top.at = "top"
        /\ q \in Seq(Els) /\ Reaches(Top, q)
    BY <1>1, <1>2, NestAt
  <2>3. QED  BY <2>1, <2>2 DEF OpenAt
<1>4. Top.el \in Els /\ Append(q, Top.el) \in Seq(Els)
  BY <1>3 DEF Reaches
<1>5. /\ page' = "output"
      /\ open' = IF Kind[Top.el] = "empty" THEN q ELSE Append(q, Top.el)
      /\ open' \in Seq(Els)
  BY <1>3, <1>4 DEF Begin
<1>6. PICK s :
        /\ told_to_stop' = (told_to_stop \/ StopsAfterStart(s))
        /\ LET f == [Top EXCEPT !.next = Rsib[Top.el], !.hide = hide, !.holds = TRUE]
           IN CASE StopsAfterStart(s) ->
                     Return(IF s.r = 4 THEN 4 ELSE 0) /\ UNCHANGED clones
                [] ~StopsAfterStart(s) /\ Kind[Top.el] = "empty" ->
                     /\ stack' = Replace([f EXCEPT !.at = "next"])
                     /\ clones' = clones + 1
                     /\ UNCHANGED ret
                [] OTHER ->
                     /\ stack' = Call([f EXCEPT !.at = "content"],
                                      Frame("content", Top.el, FALSE, FALSE))
                     /\ clones' = clones + 1
                     /\ ret' = Running
  BY DEF Begin
<1>7. CASE StopsAfterStart(s)
  <2>1. Return(IF s.r = 4 THEN 4 ELSE 0) /\ told_to_stop' = TRUE
    BY <1>6, <1>7
  <2>2. stack' = Front(stack) /\ ret' \in {0, 4}
    BY <2>1 DEF Return
  <2>3. QED  BY <1>1, <1>5, <2>1, <2>2, NestStops
<1>8. ASSUME NEW to \in {"next", "content"}, NEW f, f = Begun(Top, Rsib[Top.el], hide, to)
      PROVE  /\ IsFrame(f) /\ f.fn = "element" /\ f.at = to /\ f.el = Top.el
             /\ f.right = Top.right /\ Reaches(f, q)
  <2>1. IsFrame(f) /\ f.fn = "element" /\ f.at = to
    BY <1>3, <1>8, FrameBegun
  <2>2. /\ f.el = Top.el /\ f.right = Top.right /\ f.sibs = Top.sibs
        /\ f.next = Rsib[Top.el]
    BY <1>3, <1>8, FieldsKept
  <2>3. QED  BY <1>3, <2>1, <2>2 DEF Reaches
<1>9. CASE ~StopsAfterStart(s) /\ Kind[Top.el] = "empty"
  <2>1. PICK f : f = Begun(Top, Rsib[Top.el], hide, "next")
    OBVIOUS
  <2>2. stack' = Replace(f)
    BY <1>6, <1>9, <2>1 DEF Begun
  <2>3. IsFrame(f) /\ f.fn = "element" /\ f.at = "next" /\ f.right = Top.right /\ Reaches(f, q)
    BY <1>8, <2>1
  <2>4. OpenAt(f, q, open', last_el')
    BY <1>5, <1>9, <2>3 DEF OpenAt
  <2>5. QED  BY <1>1, <1>2, <1>3, <1>5, <2>2, <2>3, <2>4, NestGoesOn
<1>10. CASE ~StopsAfterStart(s) /\ Kind[Top.el] # "empty"
  <2>1. PICK f : f = Begun(Top, Rsib[Top.el], hide, "content")
    OBVIOUS
  <2>2. PICK no : no = FALSE
    OBVIOUS
  <2>3. PICK g : g = Frame("content", Top.el, no, no)
    OBVIOUS
  <2>4. stack' = Call(f, g)
    BY <1>6, <1>10, <2>1, <2>2, <2>3 DEF Begun
  <2>5. /\ IsFrame(f) /\ f.fn = "element" /\ f.at = "content" /\ f.right = Top.right
        /\ f.el = Top.el /\ Reaches(f, q)
    BY <1>8, <2>1
  <2>6. /\ IsFrame(g) /\ ~g.holds /\ g.fn = "content" /\ g.at = "top" /\ g.el = Top.el
        /\ ~g.right
    BY <2>2, <2>3, FrameMade, FrameFields
  <2>7. Calls(f, g)
    BY <2>5, <2>6 DEF Calls
  <2>8. Opened(f, q) = Append(q, Top.el)
    BY <2>5 DEF Opened
  <2>9. Reaches(g, Opened(f, q)) /\ OpenAt(g, Opened(f, q), open', last_el')
    BY <1>4, <1>5, <1>10, <2>6, <2>8 DEF Reaches, OpenAt
  <2>10. QED  BY <1>1, <1>2, <1>3, <1>4, <1>5, <2>4, <2>5, <2>6, <2>7, <2>8, <2>9,
              NestGoesOnWith
<1>11. QED  BY <1>7, <1>9, <1>10

\* The end of an element: it is the last of those open.
LEMMA NestEnd ==
  ASSUME IInv, NEW o \in Opens, NestInv(o), End
  PROVE  Nesting'
<1>1. At("element", "content") /\ ~told_to_stop
  BY NotTold DEF End
<1>2. PICK q : q = o[Len(stack)]
  OBVIOUS
<1>3. /\ page = "output" /\ IsFrame(Top) /\ Top.fn = "element" /\ Top.at = "content"
      /\ q \in Seq(Els) /\ Reaches(Top, q) /\ OpenAt(Top, q, open, last_el)
  BY <1>1, <1>2, NestAt
<1>4. Top.el \in Els /\ open = Append(q, Top.el)
  BY <1>3 DEF Reaches, OpenAt
<1>5. open # <<>> /\ Last(open) = Top.el /\ Front(open) = q
  BY <1>3, <1>4, AppendedLast
<1>6. page' = "output" /\ open' = q
  BY <1>3, <1>5 DEF End
<1>7. \/ Return(0) /\ told_to_stop' = TRUE
      \/ Return(4) /\ told_to_stop' = TRUE
      \/ stack' = Go("next")
  BY DEF End
<1>8. CASE (Return(0) \/ Return(4)) /\ told_to_stop' = TRUE
  <2>1. stack' = Front(stack) /\ ret' \in {0, 4}
    BY <1>8 DEF Return
  <2>2. QED  BY <1>1, <1>3, <1>6, <1>8, <2>1, NestStops
<1>9. CASE stack' = Go("next")
  <2>1. PICK f : f = [Top EXCEPT !.at = "next"]
    OBVIOUS
  <2>2. stack' = Replace(f)
    BY <1>1, <1>9, <2>1, GoIs
  <2>3. /\ f.fn = "element" /\ f.el = Top.el /\ f.right = Top.right /\ f.sibs = Top.sibs
        /\ f.next = Top.next /\ f.at = "next"
    BY <1>3, <2>1, FieldsKept
  <2>4. IsFrame(f)
    BY <1>3, <2>1, FrameAt
  <2>5. Reaches(f, q) /\ OpenAt(f, q, open', last_el')
    BY <1>3, <1>6, <2>3 DEF Reaches, OpenAt
  <2>6. QED  BY <1>1, <1>2, <1>3, <1>6, <2>2, <2>3, <2>4, <2>5, NestGoesOn
<1>10. QED  BY <1>7, <1>8, <1>9

\* What is next is below the same ancestors.
LEMMA NestNextElement ==
  ASSUME IInv, NEW o \in Opens, NestInv(o), NextElement
  PROVE  Nesting'
<1>1. At("element", "next") /\ ~told_to_stop
  BY NotTold DEF NextElement
<1>2. PICK q : q = o[Len(stack)]
  OBVIOUS
<1>3. /\ page = "output" /\ IsFrame(Top) /\ Top.fn = "element" /\ Top.at = "next"
      /\ q \in Seq(Els) /\ Reaches(Top, q) /\ OpenAt(Top, q, open, last_el)
      /\ open \in Seq(Els)
  BY <1>1, <1>2, NestAt
<1>4. Top.el \in Els /\ Top.next = Rsib[Top.el] /\ open = q
  BY <1>3 DEF Reaches, OpenAt
<1>5. Top.right => Top.sibs /\ open = Above(Top.el)
  BY <1>3, <1>4 DEF Reaches
<1>6. PICK to : to = IF Climbs THEN "climb" ELSE "jump"
  OBVIOUS
<1>7. page' = "output" /\ open' = open /\ last_el' = Top.el /\ stack' = Go(to)
  BY <1>3, <1>6 DEF NextElement
<1>8. PICK f : f = [Top EXCEPT !.at = to]
  OBVIOUS
<1>9. /\ f.fn = "element" /\ f.el = Top.el /\ f.right = Top.right /\ f.sibs = Top.sibs
      /\ f.next = Top.next /\ f.at = to
  BY <1>3, <1>8, FieldsKept
<1>10. to \in {"climb", "jump"} /\ to # "top"
  BY <1>6
<1>11. IsFrame(f) /\ f.fn = Top.fn
  <2>1. IsFrame(Top) /\ to # "top"
    BY <1>3, <1>10
  <2>2. QED  BY <1>8, <2>1, FrameAt
<1>12. Rsib[Top.el] \in Els
  BY <1>4, AboveIs
<1>13. Reaches(f, q)
  BY <1>4, <1>5, <1>9, <1>10, <1>12 DEF Reaches
<1>14. OpenAt(f, q, open', last_el')
  <2>1. CASE Climbs
    <3>1. Top.right /\ Top.el # 0 /\ f.at = "climb"
      BY <1>6, <1>9, <2>1 DEF Climbs
    <3>2. QED  BY <1>4, <1>5, <1>7, <1>9, <3>1 DEF OpenAt
  <2>2. CASE ~Climbs /\ Top.right
    <3>1. f.at = "jump" /\ (Top.next # 0 \/ Top.el = 0)
      BY <1>5, <1>6, <1>9, <2>2 DEF Climbs
    <3>2. open = IF Top.next = 0 THEN <<>> ELSE Above(Top.next)
      BY <1>4, <1>5, <2>2, <3>1, AboveIs
    <3>3. QED  BY <1>7, <1>9, <2>2, <3>1, <3>2 DEF OpenAt
  <2>3. CASE ~Climbs /\ ~Top.right
    <3>1. f.at = "jump" /\ ~f.right
      BY <1>6, <1>9, <2>3
    <3>2. QED  BY <1>4, <1>7, <1>9, <3>1 DEF OpenAt
  <2>4. QED  BY <2>1, <2>2, <2>3
<1>15. stack' = Replace(f)
  BY <1>1, <1>7, <1>8, GoIs
<1>16. QED  BY <1>1, <1>2, <1>3, <1>7, <1>9, <1>11, <1>13, <1>14, <1>15, NestGoesOn

\* The end of an ancestor: it is the last of those open, what is right of it is
\* below the same.
LEMMA NestClimb ==
  ASSUME IInv, NEW o \in Opens, NestInv(o), Climb
  PROVE  Nesting'
<1>1. At("element", "climb") /\ ~told_to_stop
  BY NotTold DEF Climb
<1>2. PICK q : q = o[Len(stack)]
  OBVIOUS
<1>3. /\ page = "output" /\ IsFrame(Top) /\ Top.fn = "element" /\ Top.at = "climb"
      /\ q \in Seq(Els) /\ Reaches(Top, q) /\ OpenAt(Top, q, open, last_el)
  BY <1>1, <1>2, NestAt
<1>4. Top.el \in Els /\ (Top.right => Top.sibs)
  BY <1>3 DEF Reaches
<1>5. Top.right /\ last_el \in Els /\ last_el # 0 /\ open = Above(last_el)
  BY <1>3 DEF OpenAt
<1>6. PICK up : up = Ancestor[last_el]
  OBVIOUS
<1>7. up \in Els /\ Above(up) \in Seq(Els) /\ open = Append(Above(up), up)
  BY <1>5, <1>6, AboveIs
<1>8. open # <<>> /\ Last(open) = up /\ Front(open) = Above(up)
  BY <1>7, AppendedLast
<1>9. page' = "output" /\ open' = Above(up) /\ open' \in Seq(Els)
  BY <1>3, <1>6, <1>7, <1>8 DEF Climb
<1>10. PICK to : to = IF ClimbsOn(up) THEN "climb" ELSE "jump"
  OBVIOUS
<1>11. \/ Return(0) /\ told_to_stop' = TRUE
       \/ Return(4) /\ told_to_stop' = TRUE
       \/ stack' = Replace(Climbed(Top, Rsib[up], to)) /\ last_el' = up
  BY <1>6, <1>10 DEF Climb, Climbed
<1>12. CASE (Return(0) \/ Return(4)) /\ told_to_stop' = TRUE
  <2>1. stack' = Front(stack) /\ ret' \in {0, 4}
    BY <1>12 DEF Return
  <2>2. QED  BY <1>1, <1>9, <1>12, <2>1, NestStops
<1>13. CASE stack' = Replace(Climbed(Top, Rsib[up], to)) /\ last_el' = up
  <2>1. PICK f : f = Climbed(Top, Rsib[up], to)
    OBVIOUS
  <2>2. to \in {"climb", "jump"} /\ to # "top"
    BY <1>10
  <2>3. IsFrame(f) /\ f.fn = Top.fn
    BY <1>3, <2>1, <2>2, FrameClimbed
  <2>4. /\ f.fn = "element" /\ f.el = Top.el /\ f.right = Top.right /\ f.sibs = Top.sibs
        /\ f.next = Rsib[up] /\ f.at = to
    BY <1>3, <2>1, FieldsKept
  <2>5. Rsib[up] \in Els
    BY <1>7, AboveIs
  <2>6. Reaches(f, q)
    BY <1>4, <2>2, <2>4, <2>5 DEF Reaches
  <2>7. OpenAt(f, q, open', last_el')
    <3>1. CASE ClimbsOn(up)
      <4>1. f.at = "climb" /\ up # 0
        BY <1>10, <2>4, <3>1 DEF ClimbsOn
      <4>2. QED  BY <1>5, <1>7, <1>9, <1>13, <2>4, <4>1 DEF OpenAt
    <3>2. CASE ~ClimbsOn(up)
      <4>1. f.at = "jump" /\ (Rsib[up] # 0 \/ up = 0)
        BY <1>10, <2>4, <3>2 DEF ClimbsOn
      <4>2. open' = IF Rsib[up] = 0 THEN <<>> ELSE Above(Rsib[up])
        BY <1>7, <1>9, <4>1, AboveIs
      <4>3. QED  BY <1>5, <2>4, <4>1, <4>2 DEF OpenAt
    <3>3. QED  BY <3>1, <3>2
  <2>8. stack' = Replace(f)
    BY <1>13, <2>1
  <2>9. QED  BY <1>1, <1>2, <1>3, <1>9, <2>3, <2>4, <2>6, <2>7, <2>8, NestGoesOn
<1>14. QED  BY <1>11, <1>12, <1>13

\* On to the next element: that of the sibling, or that of startEl.
LEMMA NestOnward ==
  ASSUME IInv, NEW o \in Opens, NestInv(o), At("element", "jump"), NEW el \in Els,
         stack' = Replace(Onward(Top, el)), page' = "output",
         Top.right => open' = Above(el),
         ~Top.right => open' = open
  PROVE  Nesting'
<1>1. ~told_to_stop
  BY NotTold
<1>2. PICK q : q = o[Len(stack)]
  OBVIOUS
<1>3. /\ IsFrame(Top) /\ Top.fn = "element" /\ Top.at = "jump"
      /\ q \in Seq(Els) /\ Reaches(Top, q) /\ OpenAt(Top, q, open, last_el)
      /\ open \in Seq(Els)
  BY <1>1, <1>2, NestAt
<1>4. Top.right => Top.sibs
  BY <1>3 DEF Reaches
<1>5. PICK f : f = Onward(Top, el)
  OBVIOUS
<1>6. IsFrame(f)
  BY <1>3, <1>5, FrameNext DEF Onward
<1>7. /\ f.fn = "element" /\ f.el = el /\ f.right = Top.right /\ f.sibs = Top.sibs
      /\ f.at = "top"
  BY <1>3, <1>5, FieldsKept
<1>8. Above(el) \in Seq(Els)
  BY AboveIs
<1>9. CASE Top.right
  <2>1. Reaches(f, Above(el)) /\ OpenAt(f, Above(el), open', last_el')
    BY <1>4, <1>7, <1>9 DEF Reaches, OpenAt
  <2>2. open' \in Seq(Els)
    BY <1>8, <1>9
  <2>3. QED  BY <1>3, <1>5, <1>6, <1>7, <1>8, <1>9, <2>1, <2>2, NestGoesOn
<1>10. CASE ~Top.right
  <2>1. open = q
    BY <1>3, <1>10 DEF OpenAt
  <2>2. Reaches(f, q) /\ OpenAt(f, q, open', last_el')
    BY <1>7, <1>10, <2>1 DEF Reaches, OpenAt
  <2>3. QED  BY <1>2, <1>3, <1>5, <1>6, <1>7, <1>10, <2>2, NestGoesOn
<1>11. QED  BY <1>9, <1>10

\* The last sibling has been output: what the call has begun is ended.
LEMMA NestGoOn ==
  ASSUME IInv, NEW o \in Opens, NestInv(o), GoOn
  PROVE  Nesting'
<1>1. At("element", "jump") /\ ~told_to_stop
  BY NotTold DEF GoOn
<1>2. PICK q : q = o[Len(stack)]
  OBVIOUS
<1>3. /\ page = "output" /\ IsFrame(Top) /\ Top.fn = "element" /\ Top.at = "jump"
      /\ q \in Seq(Els) /\ Reaches(Top, q) /\ OpenAt(Top, q, open, last_el)
      /\ open \in Seq(Els) /\ stack # <<>> /\ Top = Last(stack) /\ IsStack(stack)
      /\ Nest(o, stack)
  BY <1>1, <1>2, NestAt
<1>4. page' = "output" /\ open' = open /\ Top.next \in Els /\ (Top.right => Top.sibs)
  BY <1>3 DEF GoOn, Reaches
<1>5. Top.right => open = IF Top.next = 0 THEN <<>> ELSE Above(Top.next)
  BY <1>3 DEF OpenAt
<1>6. CASE Top.next # 0 /\ Top.sibs
  <2>1. stack' = Replace(Onward(Top, Top.next))
    BY <1>6 DEF GoOn, Onward
  <2>2. QED  BY <1>1, <1>4, <1>5, <1>6, <2>1, NestOnward
<1>7. CASE ~(Top.next # 0 /\ Top.sibs)
  <2>1. stack' = Front(stack)
    BY <1>7 DEF GoOn, Return
  <2>2. PICK n \in Nat :
          /\ n = Len(stack) /\ n >= 1 /\ (n = 1 <=> stack' = <<>>)
          /\ n = 1 => Top.right = outputRight
          /\ n > 1 => /\ ~Top.right
                      /\ n - 1 = Len(stack') /\ q = Opened(Last(stack'), o[n - 1])
    BY <1>2, <1>3, <2>1, NestPopped, ZenonT(40)
  <2>3. Nest(o, stack')
    BY <1>3, <2>1, NestPopped
  <2>4. CASE n = 1
    <3>1. Top.right => open = <<>>
      BY <1>4, <1>5, <1>7
    <3>2. outputRight => open' = <<>>
      BY <1>4, <2>2, <2>4, <3>1
    <3>3. stack' = <<>>
      BY <2>2, <2>4
    <3>4. NestInv(o)'
      BY <1>3, <1>4, <2>3, <3>2, <3>3 DEF NestInv
    <3>5. QED  BY <3>4 DEF Nesting
  <2>5. CASE n > 1
    <3>1. ~Top.right /\ stack' # <<>>
      BY <2>2, <2>5
    <3>2. open = q
      BY <1>3, <3>1 DEF OpenAt
    <3>3. PICK e : e = Last(stack')
      OBVIOUS
    <3>4. Calls(e, Top) /\ Reaches(e, o[n - 1])
      <4>1. Calls(e, Top)
        BY <1>3, <2>1, <3>1, <3>3, StackPopped
      <4>2. IsStack(stack')
        BY <1>3, <2>1, StackPopped
      <4>3. Reaches(e, o[Len(stack')])
        BY <2>3, <3>1, <3>3, <4>2, NestPopped
      <4>4. QED  BY <2>2, <2>5, <4>1, <4>3
    <3>5. e.fn = "content"
      BY <1>3, <3>4 DEF Calls, Reaches
    <3>6. OpenAt(e, o[n - 1], open', last_el')
      BY <1>4, <2>2, <2>5, <3>2, <3>3, <3>5 DEF OpenAt, Opened
    <3>7. NestInv(o)'
      BY <1>3, <1>4, <2>2, <2>3, <2>5, <3>1, <3>3, <3>6 DEF NestInv
    <3>8. QED  BY <3>7 DEF Nesting
  <2>6. QED  BY <2>2, <2>4, <2>5
<1>8. QED  BY <1>6, <1>7

\* A procedure has set startEl: the ancestors of that are open, if the call goes
\* to the right; if not, it goes on as if its element was a child.
LEMMA NestJump ==
  ASSUME StartEls \subseteq Els, IInv, NEW o \in Opens, NestInv(o), Jump
  PROVE  Nesting'
<1>1. At("element", "jump")
  BY DEF Jump
<1>2. PICK s \in StartEls :
        /\ stack' = Replace(Onward(Top, JumpTarget(s)))
        /\ open' = IF Top.right /\ s \in Els THEN Above(s) ELSE open
  BY DEF Jump, Onward
<1>3. s \in Els /\ JumpTarget(s) = s
  BY DEF JumpTarget
<1>4. page' = "output"
  BY <1>1 DEF Jump, At
<1>5. QED  BY <1>1, <1>2, <1>3, <1>4, NestOnward

\* output_element.
LEMMA NestElement ==
  ASSUME StartEls \subseteq Els, IInv, NEW o \in Opens, NestInv(o), output_element
  PROVE  Nesting'
<1>1. CASE ElementFails \/ EndSkipped \/ EndFails \/ ClimbFails
  <2>1. PICK at \in {"top", "content", "climb"} : At("element", at)
    BY <1>1 DEF ElementFails, EndSkipped, EndFails, ClimbFails
  <2>2. page = "output" /\ open \in Seq(Els)
    BY <2>1, NestAt
  <2>3. /\ stack' = Front(stack) /\ ret' \in {0, 4} /\ page' = "output"
        /\ told_to_stop' = TRUE /\ open' = open
    BY <1>1, <2>2 DEF ElementFails, EndSkipped, EndFails, ClimbFails, Return
  <2>4. QED  BY <2>1, <2>2, <2>3, NestStops
<1>2. CASE CloneRefused
  <2>1. PICK at : At("element", at)
    BY <1>2 DEF CloneRefused
  <2>2. /\ page' = "undefined" /\ UNCHANGED <<stack, open, last_el, told_to_stop>>
    BY <1>2 DEF CloneRefused
  <2>3. QED  BY <2>1, <2>2, NestStays
<1>3. QED  BY <1>1, <1>2, NestBegin, NestEnd, NestNextElement, NestClimb, NestGoOn, NestJump
           DEF output_element

\* A call of output_content goes on: it has begun nothing that is not ended.
LEMMA NestContentGoes ==
  ASSUME IInv, NEW o \in Opens, NestInv(o), NEW at, At("content", at), ~told_to_stop,
         NEW f, IsFrame(f), f.fn = "content", f.el = Top.el, f.right = Top.right,
         f.sibs = Top.sibs,
         stack' = Replace(f), page' = "output", open' = open
  PROVE  Nesting'
<1>1. PICK q : q = o[Len(stack)]
  OBVIOUS
<1>2. /\ IsFrame(Top) /\ Top.fn = "content" /\ q \in Seq(Els) /\ Reaches(Top, q)
      /\ OpenAt(Top, q, open, last_el) /\ open \in Seq(Els)
  BY <1>1, NestAt
<1>3. Reaches(f, q) /\ OpenAt(f, q, open', last_el')
  BY <1>2 DEF Reaches, OpenAt
<1>4. QED  BY <1>1, <1>2, <1>3, NestGoesOn

\* With a clone or without.
LEMMA NestHolding ==
  ASSUME IInv, NEW o \in Opens, NestInv(o), NEW at, At("content", at), ~told_to_stop,
         NEW to, to # "top", NEW h \in BOOLEAN, stack' = Replace(Holding(Top, to, h)),
         page' = "output", open' = open
  PROVE  Nesting'
<1>1. IsFrame(Top) /\ Top.fn = "content"
  BY NestAt
<1>2. PICK f : f = Holding(Top, to, h)
  OBVIOUS
<1>3. IsFrame(f) /\ f.fn = "content"
  <2>1. Top.fn # "span"
    BY <1>1
  <2>2. QED  BY <1>1, <1>2, <2>1, FrameHolds
<1>4. f.el = Top.el /\ f.right = Top.right /\ f.sibs = Top.sibs
  BY <1>1, <1>2, FieldsKept
<1>5. QED  BY <1>2, <1>3, <1>4, NestContentGoes

\* Between the hits of a text.
LEMMA NestGoes ==
  ASSUME IInv, NEW o \in Opens, NestInv(o), NEW at, At("content", at), ~told_to_stop,
         NEW to, to # "top", stack' = Go(to), page' = "output", open' = open
  PROVE  Nesting'
<1>1. IsFrame(Top) /\ Top.fn = "content"
  BY NestAt
<1>2. PICK f : f = [Top EXCEPT !.at = to]
  OBVIOUS
<1>3. IsFrame(f) /\ f.fn = "content"
  BY <1>1, <1>2, FrameAt
<1>4. f.el = Top.el /\ f.right = Top.right /\ f.sibs = Top.sibs
  BY <1>1, <1>2, FieldsKept
<1>5. stack' = Replace(f)
  BY <1>2, GoIs
<1>6. QED  BY <1>3, <1>4, <1>5, NestContentGoes

\* On to the children: their ancestors are open.
LEMMA NestChildren ==
  ASSUME IInv, NEW o \in Opens, NestInv(o), Children
  PROVE  Nesting'
<1>1. At("content", "bounds") /\ ~told_to_stop
  BY NotTold DEF Children
<1>2. PICK q : q = o[Len(stack)]
  OBVIOUS
<1>3. /\ page = "output" /\ IsFrame(Top) /\ Top.fn = "content" /\ Top.at = "bounds"
      /\ q \in Seq(Els) /\ Reaches(Top, q) /\ OpenAt(Top, q, open, last_el)
      /\ open \in Seq(Els)
  BY <1>1, <1>2, NestAt
<1>4. page' = "output" /\ open' = open /\ told_to_stop' = told_to_stop /\ open = q
  BY <1>3 DEF Children, OpenAt
<1>5. CASE Child[Top.el] = 0
  <2>1. stack' = Front(stack)
    BY <1>5 DEF Children, Return
  <2>2. QED  BY <1>1, <1>4, <2>1, NestReturns
<1>6. CASE Child[Top.el] # 0
  <2>1. Child[Top.el] \in Els
    BY <1>3, BookAssumption DEF Reaches
  <2>2. PICK f : f = [Top EXCEPT !.at = "children"]
    OBVIOUS
  <2>3. /\ f.fn = "content" /\ f.at = "children" /\ f.el = Top.el
        /\ f.right = Top.right /\ f.sibs = Top.sibs
    BY <1>3, <2>2, FieldsKept
  <2>4. IsFrame(f)
    BY <1>3, <2>2, FrameAt
  <2>5. Reaches(f, q)
    BY <1>3, <2>3 DEF Reaches
  <2>6. PICK yes, no : yes = TRUE /\ no = FALSE
    OBVIOUS
  <2>7. PICK g : g = Frame("element", Child[Top.el], yes, no)
    OBVIOUS
  <2>8. /\ IsFrame(g) /\ ~g.holds /\ g.fn = "element" /\ g.at = "top"
        /\ g.el = Child[Top.el] /\ g.right = no
    BY <2>7, FrameMade, FrameFields
  <2>9. ~g.right /\ Calls(f, g)
    BY <2>3, <2>6, <2>8 DEF Calls
  <2>10. Opened(f, q) = q
    BY <2>3 DEF Opened
  <2>11. Reaches(g, q) /\ OpenAt(g, q, open', last_el')
    BY <1>4, <2>1, <2>8, <2>9 DEF Reaches, OpenAt
  <2>12. stack' = Call(f, g)
    BY <1>6, <2>2, <2>6, <2>7 DEF Children
  <2>13. QED  BY <1>1, <1>2, <1>3, <1>4, <2>3, <2>4, <2>5, <2>8, <2>9, <2>10, <2>11,
              <2>12, NestGoesOnWith
<1>7. QED  BY <1>5, <1>6

\* output_content.
LEMMA NestContent ==
  ASSUME IInv, NEW o \in Opens, NestInv(o), output_content
  PROVE  Nesting'
<1>1. ASSUME NEW at, At("content", at), stack' = Front(stack), page' = "output",
             open' = open, told_to_stop => told_to_stop'
      PROVE  Nesting'
  BY <1>1, NestReturns
<1>2. CASE \/ ContentFails \/ StopAtBounds \/ ReturnHidden \/ PlainText \/ PlainTextFails
           \/ FoundCloneFails \/ HitsDone \/ ChildrenDone
  <2>1. PICK at : At("content", at)
    BY <1>2 DEF ContentFails, StopAtBounds, ReturnHidden, PlainText, PlainTextFails,
         FoundCloneFails, InTextWithHits, HitsDone, ChildrenDone
  <2>2. page = "output"
    BY <2>1 DEF At
  <2>3. stack' = Front(stack) /\ page' = "output" /\ open' = open
    BY <1>2, <2>2 DEF ContentFails, StopAtBounds, ReturnHidden, PlainText, PlainTextFails,
         FoundCloneFails, HitsDone, ChildrenDone, Return
  <2>4. told_to_stop => told_to_stop'
    <3>1. CASE ContentFails \/ StopAtBounds \/ PlainTextFails \/ FoundCloneFails
      BY <3>1, Zenon DEF ContentFails, StopAtBounds, PlainTextFails, FoundCloneFails
    <3>2. CASE ReturnHidden \/ HitsDone \/ ChildrenDone
      BY <3>2, Zenon DEF ReturnHidden, HitsDone, ChildrenDone
    <3>3. CASE PlainText
      BY <3>3, Zenon DEF PlainText
    <3>4. QED  BY <1>2, <3>1, <3>2, <3>3
  <2>5. QED  BY <1>1, <2>1, <2>3, <2>4
<1>3. CASE Content
  <2>1. At("content", "top") /\ open' = open
    BY <1>3 DEF Content
  <2>2. ~told_to_stop
    BY <2>1, AtTop
  <2>3. page' = "output"
    BY <1>3, <2>1 DEF Content, At
  <2>4. PICK yes \in BOOLEAN : yes = TRUE
    OBVIOUS
  <2>5. \/ stack' = Front(stack)
        \/ \E to \in {"hidden", "bounds"} : stack' = Replace(Holding(Top, to, yes))
    BY <1>3, <2>4 DEF Content, Return, Holding
  <2>6. CASE \E to \in {"hidden", "bounds"} : stack' = Replace(Holding(Top, to, yes))
    <3>1. PICK to \in {"hidden", "bounds"} : stack' = Replace(Holding(Top, to, yes))
      BY <2>6
    <3>2. QED  BY <2>1, <2>2, <2>3, <3>1, NestHolding
  <2>7. QED  BY <1>1, <2>1, <2>2, <2>3, <2>5, <2>6
<1>4. CASE Hidden \/ HiddenHitEnded
  <2>1. PICK at \in {"hidden"} \cup FoundPlaces : At("content", at)
    BY <1>4 DEF Hidden, HiddenHitEnded, FoundPlaces
  <2>2. ~told_to_stop /\ open \in Seq(Els) /\ open' = open
    <3>1. ~told_to_stop
      BY <2>1, NotTold
    <3>2. open \in Seq(Els)
      BY <2>1, NestAt
    <3>3. open' = open
      BY <1>4 DEF Hidden, HiddenHitEnded
    <3>4. QED  BY <3>1, <3>2, <3>3
  <2>3. page = "output" /\ page' \in {"output", "undefined"}
    BY <1>4, <2>1 DEF Hidden, HiddenHitEnded, At
  <2>4. PICK no \in BOOLEAN : no = FALSE
    OBVIOUS
  <2>5. \/ stack' = Front(stack) /\ page' = page
        \/ stack' = Replace(Holding(Top, "bounds", no))
    BY <1>4, <2>4 DEF Hidden, HiddenHitEnded, HiddenAway, Return, Holding
  <2>6. CASE page' = "undefined"
    <3>1. NestInv(o)'
      BY <2>1, <2>2, <2>6 DEF NestInv
    <3>2. QED  BY <3>1 DEF Nesting
  <2>7. CASE page' = "output"
    BY <1>1, <2>1, <2>2, <2>5, <2>7, NestHolding
  <2>8. QED  BY <2>3, <2>6, <2>7
<1>5. CASE HiddenHit \/ HitFromBefore \/ TextBeforeHit \/ HitBegins \/ HitText
  <2>1. PICK at \in {"hidden", "bounds", "hit", "found"} : At("content", at)
    BY <1>5 DEF HiddenHit, HitFromBefore, TextBeforeHit, InTextWithHits, HitBegins, HitText
  <2>2. ~told_to_stop
    BY <2>1, NotTold
  <2>3. page' = "output" /\ open' = open
    BY <1>5, <2>1 DEF HiddenHit, HitFromBefore, TextBeforeHit, HitBegins, HitText, At
  <2>4. PICK to : stack' = Go(to) /\ to # "top"
    BY <1>5 DEF HiddenHit, HitFromBefore, TextBeforeHit, HitBegins, HitText
  <2>5. QED  BY <2>1, <2>2, <2>3, <2>4, NestGoes
<1>6. CASE HitEnded \/ HitBegun \/ HitGoesOn \/ HitEnds
  <2>1. PICK at \in {"found"} \cup FoundPlaces : At("content", at)
    BY <1>6 DEF HitEnded, HitBegun, HitGoesOn, HitEnds, FoundPlaces
  <2>2. page = "output" /\ ~told_to_stop /\ open \in Seq(Els)
    <3>1. ~told_to_stop
      BY <2>1, NotTold
    <3>2. QED  BY <2>1, <3>1, NestAt
  <2>3. open' = open
    BY <1>6, Zenon DEF HitEnded, HitBegun, HitGoesOn, HitEnds, FoundProcedure
  <2>4. CASE page' = "undefined"
    <3>1. NestInv(o)'
      BY <2>2, <2>3, <2>4 DEF NestInv
    <3>2. QED  BY <3>1 DEF Nesting
  <2>5. CASE page' # "undefined"
    <3>1. /\ page' = "output"
          /\ \/ stack' = Front(stack) /\ told_to_stop' = TRUE
             \/ \E to \in {"hit", "found"} : stack' = Go(to)
      BY <1>6, <2>2, <2>5, HitLeads
    <3>2. QED  BY <1>1, <2>1, <2>2, <2>3, <3>1, NestGoes
  <2>6. QED  BY <2>4, <2>5
<1>7. QED  BY <1>2, <1>3, <1>4, <1>5, <1>6, NestChildren DEF output_content

\* A page begins: the ancestors of its first element are open.
LEMMA NestStartPage ==
  ASSUME outputRight => outputSiblings, StartPage
  PROVE  Nesting'
<1>1. page' = "output"
  BY DEF StartPage
<1>2. PICK el \in Starts :
        /\ stack' = <<[Frame("element", el, outputSiblings, outputRight) EXCEPT
                         !.hide = hide']>>
        /\ open' = Above(el)
  BY DEF StartPage
<1>3. el \in Els /\ Above(el) \in Seq(Els)
  BY BookAssumption, AboveIs
<1>4. PICK f : f = [Frame("element", el, outputSiblings, outputRight) EXCEPT !.hide = hide']
  OBVIOUS
<1>5. /\ f.fn = "element" /\ f.el = el /\ f.at = "top" /\ f.right = outputRight
      /\ f.sibs = outputSiblings
  BY <1>4 DEF Frame
<1>6. Reaches(f, Above(el)) /\ OpenAt(f, Above(el), open', last_el')
  BY <1>2, <1>3, <1>5 DEF Reaches, OpenAt
<1>7. PICK o : o = [k \in Nat |-> Above(el)]
  OBVIOUS
<1>8. o \in Opens /\ o[1] = Above(el)
  BY <1>3, <1>7 DEF Opens
<1>9. /\ stack' = <<f>> /\ DOMAIN stack' = {1} /\ stack'[1] = f /\ Last(stack') = f
      /\ Len(stack') = 1 /\ stack' # <<>>
  BY <1>2, <1>4 DEF Last
<1>10. Nest(o, stack')
  BY <1>5, <1>6, <1>8, <1>9 DEF Nest
<1>11. NestInv(o)'
  BY <1>1, <1>2, <1>3, <1>6, <1>8, <1>9, <1>10 DEF NestInv
<1>12. QED  BY <1>8, <1>11 DEF Nesting

\* Without spans, and if a call that goes to the right outputs siblings, the
\* elements nest in the next state too.
LEMMA NextNesting ==
  ASSUME Spans = {}, StartEls \subseteq Els, outputRight => outputSiblings,
         IInv, Nesting, [Next]_vars
  PROVE  Nesting'
<1>1. PICK o \in Opens : NestInv(o)
  BY DEF Nesting
<1>2. CASE output_element
  BY <1>1, <1>2, NestElement
<1>3. CASE output_content
  BY <1>1, <1>3, NestContent
<1>4. ~span
  <2>1. ~FormatSpan
    BY DEF FormatSpan
  <2>2. ASSUME NEW at, At("span", at) PROVE FALSE
    BY <1>1, <2>2, NestAt
  <2>3. QED  BY <2>1, <2>2 DEF span, SpanFails, WalkDown, WalkDownDone, OutputSpan,
                 SpanOutput, WalkUp, WalkUpDone
<1>5. CASE StartPage
  BY <1>5, NestStartPage
<1>6. CASE get_find_sg_text \/ NoPage
  <2>1. /\ page = "begin" /\ page' \in {"begin", "closed"} /\ ret' = ret /\ open' = open
    BY <1>6 DEF get_find_sg_text, NoPage
  <2>2. open \in Seq(Els) /\ ret = Running /\ Running # 1
    BY <1>1, <2>1 DEF NestInv, Running
  <2>3. NestInv(o)'
    BY <2>1, <2>2 DEF NestInv
  <2>4. QED  BY <2>3 DEF Nesting
<1>7. CASE EndPage
  <2>1. page = "output" /\ stack = <<>> /\ page' = "closed" /\ ret' = ret /\ open' = open
    BY <1>7 DEF EndPage
  <2>2. NestInv(o)'
    BY <1>1, <2>1 DEF NestInv
  <2>3. QED  BY <2>2 DEF Nesting
<1>8. CASE UNCHANGED vars
  <2>1. UNCHANGED <<page, stack, ret, last_el, open, told_to_stop>>
    BY <1>8 DEF vars
  <2>2. NestInv(o)'
    BY <1>1, <2>1 DEF NestInv
  <2>3. QED  BY <2>2 DEF Nesting
<1>9. QED  BY <1>2, <1>3, <1>4, <1>5, <1>6, <1>7, <1>8 DEF Next, make_reader_file

\* Begin and end of elements nest, in every book and with every answer of the
\* procedures: output_end ends the element begun last of those not ended, also
\* for the ancestors that are climbed to; and a page that is output to the end
\* of the book has ended everything.
THEOREM ElementsNest ==
  Spans = {} /\ StartEls \subseteq Els /\ (outputRight => outputSiblings)
    => (Spec => []Nested)
<1>1. SUFFICES ASSUME Spans = {}, StartEls \subseteq Els, outputRight => outputSiblings
               PROVE  Spec => []Nested
  OBVIOUS
<1>2. Init => Nesting
  <2>1. SUFFICES ASSUME Init PROVE Nesting
    OBVIOUS
  <2>2. PICK o : o = [k \in Nat |-> <<>>]
    OBVIOUS
  <2>3. o \in Opens
    BY <2>2 DEF Opens
  <2>4. open = <<>> /\ page = "begin" /\ ret = Running
    BY <2>1 DEF Init
  <2>5. open \in Seq(Els)
    BY <2>4
  <2>6. page # "output" /\ page # "closed"
    BY <2>4
  <2>7. NestInv(o)
    BY <2>4, <2>5, <2>6 DEF NestInv
  <2>8. QED  BY <2>3, <2>7 DEF Nesting
<1>3. Nesting /\ IInv /\ [Next]_vars => Nesting'
  BY <1>1, NextNesting
<1>4. Nesting => Nested
  <2>1. SUFFICES ASSUME NEW o \in Opens, NestInv(o) PROVE Nested
    BY DEF Nesting
  <2>2. open \in Seq(Els)
    BY <2>1 DEF NestInv
  <2>3. ASSUME NEW k \in 1 .. Len(open) PROVE open[k] # NotAnElement
    <3>1. open[k] \in Els /\ Els \subseteq Nat
      BY <2>2, BookAssumption
    <3>2. QED  BY <3>1 DEF NotAnElement
  <2>4. QED  BY <2>1, <2>3 DEF Nested, NestInv, Contains
<1>5. QED  BY <1>2, <1>3, <1>4, Invariance, PTL DEF Spec

(***************************************************************************)
(* Until a span is formatted, each text is output once, and so each hit is *)
(* begun and ended in it.                                                  *)
(***************************************************************************)
\* A hit ends where it begins or after it, and before the next one of its text.
HitsInOrder ==
  \A t \in Searches : \A k \in DOMAIN t :
    /\ t[k].start_off <= t[k].end_off /\ t[k].end_off <= TextLen[t[k].end_el]
    /\ k + 1 \in DOMAIN t /\ t[k + 1].start_el = t[k].end_el =>
         t[k].end_off <= t[k + 1].start_off

\* The cursor is on the next hit, and knows whether there is one.
OnCourse ==
  /\ done \in Nat /\ done <= Len(texts) /\ OnNext
  /\ in_search => done < Len(texts)

\* The last hit that was passed ended before what is begun next.
Passed ==
  done >= 1 => IF Top.fn = "element" /\ Top.at = "top"
               THEN texts[done].end_el < Top.el ELSE texts[done].end_el <= begun

InContent(at) == Top.fn = "content" /\ Top.at = at

\* How far the text is written, at each place of its output.
AtText ==
  /\ Top.fn = "content" /\ Top.at # "children" => begun = Top.el
  /\ InContent("top") => upto = 0 /\ ~Prev(Top.el)
  /\ Top.fn = "content" /\ Top.at \in HiddenPlaces =>
       upto = 0 /\ hide = 1 /\ ~(Hides \subseteq {0, 2})
  /\ InContent("endsCurrent") => EndsCurrent
  /\ ~InContent("ended")
  /\ InContent("bounds") => upto = 0 /\ (~Prev(Top.el) \/ hide = 1)
  /\ InContent("hit") =>
       /\ Kind[Top.el] = "PCDATA"
       /\ HitsInOrder => upto = IF hit.start_el = Top.el THEN hit.start_off
                                ELSE TextLen[Top.el]
  /\ Top.fn = "content" /\ Top.at \in InHitPlaces =>
       /\ Kind[Top.el] = "PCDATA" /\ hit.start_el = Top.el
       /\ HitsInOrder => upto = IF Top.at = "ends" THEN hit.end_off ELSE hit.start_off
  /\ InContent("children") => Kind[Top.el] # "PCDATA"
  /\ Top.fn = "element" /\ Top.at = "content" /\ Kind[Top.el] = "PCDATA" /\ ret = 1
       /\ HitsInOrder
     => upto \in {0, TextLen[Top.el]}

\* A hit is begun and not ended.
HitIsOpen == InContent("found") \/ InContent("ends")
HitsOpen ==
  Hides \subseteq {0, 2} => open_hits = IF stack # <<>> /\ HitIsOpen THEN 1 ELSE 0

\* Before the first span.
Unspanned ==
  /\ ~Formats /\ bounds = NoBounds /\ OnCourse
  /\ ~told_to_stop => HitsOpen /\ (stack # <<>> => Passed /\ AtText)

TextInv ==
  /\ texts = <<>> \/ texts \in Searches
  /\ spans.left \in Int /\ spans.left <= MaxSpans
  /\ page = "begin" => /\ bounds = NoBounds /\ open_hits = 0 /\ done = 0
                       /\ hit.start_el = 0 /\ (texts # <<>> => in_search)
  /\ page = "output" /\ NoSpanYet => Unspanned

\* The hit that was passed last ended in an element.
LEMMA LastPassed ==
  ASSUME texts = <<>> \/ texts \in Searches, OnCourse, done >= 1
  PROVE  /\ texts \in Searches /\ done \in DOMAIN texts
         /\ texts[done].end_el \in Els /\ texts[done].end_el \in Nat
<1>1. Len(texts) \in Nat
  BY FoundLength
<1>2. done \in 1 .. Len(texts)
  BY <1>1 DEF OnCourse
<1>3. /\ texts \in Searches /\ done \in DOMAIN texts
      /\ texts[done] \in [start_el : Els, start_off : Nat, end_el : Els, end_off : Nat]
  BY <1>2, FoundAreHits
<1>4. QED  BY <1>3, BookAssumption

\* A step that formats no span.
LEMMA TextMoves ==
  ASSUME TextInv, page = "output", page' # "begin", UNCHANGED <<texts, bounds, spans>>,
         SpansKept,
         Unspanned /\ page' = "output" =>
           /\ OnCourse'
           /\ ~told_to_stop' => HitsOpen' /\ (stack' # <<>> => Passed' /\ AtText')
  PROVE  TextInv'
<1>1. /\ (texts = <<>> \/ texts \in Searches)'
      /\ spans'.left \in Int /\ spans'.left <= MaxSpans
  BY DEF TextInv
<1>2. ASSUME page' = "output", NoSpanYet' PROVE Unspanned'
  <2>1. Unspanned
    BY <1>2 DEF TextInv, NoSpanYet
  <2>2. ~Formats' /\ bounds' = NoBounds
    BY <2>1, FormatsKept DEF Unspanned
  <2>3. QED  BY <1>2, <2>1, <2>2 DEF Unspanned
<1>3. QED  BY <1>1, <1>2 DEF TextInv

\* A step that leaves the cursor alone, too.
LEMMA TextStays ==
  ASSUME TextInv, page = "output", stack # <<>>, page' # "begin",
         UNCHANGED <<in_search, texts, done, hit, bounds, spans, open_hits>>,
         SpansKept, told_to_stop => told_to_stop',
         (/\ Unspanned /\ OnCourse /\ ~told_to_stop /\ ~told_to_stop'
          /\ page' = "output" /\ stack' # <<>> /\ Passed /\ AtText)
         => ~HitIsOpen' /\ Passed' /\ AtText',
         ~told_to_stop' => ~HitIsOpen
  PROVE  TextInv'
<1>1. SUFFICES ASSUME Unspanned, page' = "output"
               PROVE  /\ OnCourse'
                      /\ ~told_to_stop' =>
                           HitsOpen' /\ (stack' # <<>> => Passed' /\ AtText')
  BY TextMoves
<1>2. OnCourse
  BY <1>1 DEF Unspanned
<1>3. OnCourse'
  BY <1>2 DEF OnCourse, OnNext
<1>4. ASSUME ~told_to_stop'
      PROVE  HitsOpen' /\ (stack' # <<>> => Passed' /\ AtText')
  BY <1>1, <1>2, <1>4 DEF Unspanned, HitsOpen
<1>5. QED  BY <1>3, <1>4

(***************************************************************************)
(* output_element                                                          *)
(***************************************************************************)
\* An element goes on, past its content.
LEMMA TextPast ==
  ASSUME UNCHANGED <<texts, done>>, done >= 1 => texts[done].end_el <= begun',
         Top'.fn = "element", Top'.at \notin {"top", "content"}
  PROVE  ~HitIsOpen' /\ Passed' /\ AtText'
BY DEF Passed, AtText, InContent, HitIsOpen

\* The next element is called for: it comes after what was begun.
LEMMA TextNext ==
  ASSUME IInv', NEW last, InOrder(last), InOrder(last)', page' = "output", stack' # <<>>,
         texts = <<>> \/ texts \in Searches, OnCourse,
         UNCHANGED <<texts, done, begun>>, done >= 1 => texts[done].end_el <= begun,
         Top'.fn = "element", Top'.at = "top"
  PROVE  ~HitIsOpen' /\ Passed' /\ AtText'
<1>1. IsStack(stack')
  BY DEF IInv
<1>2. Top' = Last(stack')
  BY DEF Top
<1>3. IsLinked(last, stack') /\ AtPlace(last, Top', begun, last_el') /\ begun \in Int
  BY <1>2 DEF InOrder
<1>4. Placed(Top')
  BY <1>1, <1>2, <1>3, LinkedPopped
<1>5. Top'.el \in Nat /\ begun < Top'.el
  BY <1>3, <1>4, BookAssumption DEF Placed, AtPlace
<1>6. ASSUME done >= 1 PROVE texts[done].end_el < Top'.el
  BY <1>3, <1>5, <1>6, LastPassed
<1>7. Passed'
  BY <1>6 DEF Passed
<1>8. ~HitIsOpen' /\ AtText'
  BY DEF AtText, InContent, HitIsOpen
<1>9. QED  BY <1>7, <1>8

\* An element is begun: no hit that was passed ends in it.
LEMMA TextBegin ==
  ASSUME IInv, NEW last, InOrder(last), TextInv, Begin
  PROVE  TextInv'
<1>1. /\ At("element", "top") /\ page = "output" /\ stack # <<>> /\ IsFrame(Top)
      /\ Top.fn = "element" /\ Top.at = "top" /\ Placed(Top) /\ begun \in Int
  BY OrderAt DEF Begin
<1>2. Top.el \in Nat
  BY <1>1, BookAssumption DEF Placed
<1>3. /\ UNCHANGED <<in_search, texts, done, hit, bounds, spans, open_hits>>
      /\ page' = "output" /\ begun' = Top.el /\ upto' = 0
      /\ told_to_stop => told_to_stop'
  BY <1>1 DEF Begin, cursor
<1>4. SpansKept
  BY ElementKept DEF output_element
<1>5. SUFFICES ASSUME OnCourse, ~told_to_stop', stack' # <<>>, Passed
               PROVE  ~HitIsOpen' /\ Passed' /\ AtText'
  BY <1>1, <1>3, <1>4, TextStays DEF HitIsOpen, InContent
<1>6. ASSUME done >= 1 PROVE texts[done].end_el < Top.el /\ texts[done].end_el <= Top.el
  <2>1. texts[done].end_el < Top.el
    BY <1>1, <1>5, <1>6 DEF Passed
  <2>2. texts[done].end_el \in Nat
    BY <1>5, <1>6, LastPassed DEF TextInv
  <2>3. QED  BY <1>2, <2>1, <2>2
<1>7. ~Prev(Top.el)
  BY <1>2, <1>6 DEF Prev
<1>8. \/ stack' = Replace(Begun(Top, Rsib[Top.el], hide, "next"))
      \/ stack' = Call(Begun(Top, Rsib[Top.el], hide, "content"),
                       Frame("content", Top.el, FALSE, FALSE))
  <2>1. PICK s :
          /\ told_to_stop' = (told_to_stop \/ StopsAfterStart(s))
          /\ LET f == [Top EXCEPT !.next = Rsib[Top.el], !.hide = hide, !.holds = TRUE]
             IN CASE StopsAfterStart(s) ->
                       Return(IF s.r = 4 THEN 4 ELSE 0) /\ UNCHANGED clones
                  [] ~StopsAfterStart(s) /\ Kind[Top.el] = "empty" ->
                       /\ stack' = Replace([f EXCEPT !.at = "next"])
                       /\ clones' = clones + 1
                       /\ UNCHANGED ret
                  [] OTHER ->
                       /\ stack' = Call([f EXCEPT !.at = "content"],
                                        Frame("content", Top.el, FALSE, FALSE))
                       /\ clones' = clones + 1
                       /\ ret' = Running
    BY DEF Begin
  <2>2. ~StopsAfterStart(s)
    BY <1>5, <2>1
  <2>3. QED  BY <2>1, <2>2 DEF Begun
<1>9. CASE stack' = Replace(Begun(Top, Rsib[Top.el], hide, "next"))
  <2>1. PICK f : f = Begun(Top, Rsib[Top.el], hide, "next")
    OBVIOUS
  <2>2. IsFrame(f) /\ f.fn = "element" /\ f.at = "next"
    BY <1>1, <2>1, FrameBegun
  <2>3. Top' = f
    BY <1>1, <1>9, <2>1, <2>2, KeptReplace
  <2>4. done >= 1 => texts[done].end_el <= begun'
    BY <1>3, <1>6
  <2>5. Top'.fn = "element" /\ Top'.at = "next"
    BY <2>2, <2>3
  <2>6. QED  BY <1>3, <2>4, <2>5, TextPast
<1>10. CASE stack' = Call(Begun(Top, Rsib[Top.el], hide, "content"),
                          Frame("content", Top.el, FALSE, FALSE))
  <2>1. PICK f : f = Begun(Top, Rsib[Top.el], hide, "content")
    OBVIOUS
  <2>2. PICK no : no = FALSE
    OBVIOUS
  <2>3. PICK g : g = Frame("content", Top.el, no, no)
    OBVIOUS
  <2>4. IsFrame(g) /\ ~g.holds /\ g.fn = "content" /\ g.at = "top" /\ g.el = Top.el
    BY <2>3, FrameMade, FrameFields
  <2>5. IsFrame(f) /\ f.fn = "element" /\ f.at = "content"
    BY <1>1, <2>1, FrameBegun
  <2>6. Calls(f, g) /\ stack' = Call(f, g)
    BY <1>10, <2>1, <2>2, <2>3, <2>4, <2>5 DEF Calls
  <2>7. Top' = g
    BY <1>1, <2>4, <2>5, <2>6, KeptCall
  <2>8. Top'.fn = "content" /\ Top'.at = "top" /\ Top'.el = Top.el
    BY <2>4, <2>7
  <2>9. Passed'
    BY <1>3, <1>6, <2>8 DEF Passed
  <2>10. ~Prev(Top.el)'
    BY <1>3, <1>7, <2>8 DEF Prev
  <2>11. ~HitIsOpen' /\ AtText'
    BY <1>3, <2>8, <2>10 DEF AtText, InContent, HitIsOpen, HiddenPlaces, InHitPlaces
  <2>12. QED  BY <2>9, <2>11
<1>11. QED  BY <1>8, <1>9, <1>10

\* On to the sibling, or back to the content whose children these are.
LEMMA TextGoOn ==
  ASSUME IInv, IInv', NEW last, InOrder(last), InOrder(last)', TextInv, GoOn
  PROVE  TextInv'
<1>1. /\ At("element", "jump") /\ page = "output" /\ stack # <<>> /\ IsFrame(Top)
      /\ Top.fn = "element" /\ Top.at = "jump" /\ Placed(Top) /\ IsStack(stack)
      /\ Top = Last(stack) /\ IsLinked(last, stack)
  BY OrderAt DEF GoOn
<1>2. /\ UNCHANGED <<in_search, texts, done, hit, bounds, spans, open_hits, begun>>
      /\ page' = "output" /\ told_to_stop' = told_to_stop
  BY <1>1 DEF GoOn, cursor, budget
<1>3. SpansKept
  BY ElementKept DEF output_element
<1>4. SUFFICES ASSUME OnCourse, stack' # <<>>, Passed
               PROVE  ~HitIsOpen' /\ Passed' /\ AtText'
  BY <1>1, <1>2, <1>3, TextStays DEF HitIsOpen, InContent
<1>5. done >= 1 => texts[done].end_el <= begun
  BY <1>1, <1>4 DEF Passed
<1>6. CASE stack' = Replace(Onward(Top, Top.next))
  <2>1. PICK f : f = Onward(Top, Top.next)
    OBVIOUS
  <2>2. IsFrame(f)
    BY <1>1, <2>1, FrameNext DEF Onward
  <2>3. f.fn = "element" /\ f.at = "top"
    BY <1>1, <2>1, FieldsKept
  <2>4. Top' = f
    BY <1>1, <1>6, <2>1, <2>2, <2>3, KeptReplace
  <2>5. Top'.fn = "element" /\ Top'.at = "top"
    BY <2>3, <2>4
  <2>6. texts = <<>> \/ texts \in Searches
    BY DEF TextInv
  <2>7. QED  BY <1>2, <1>4, <1>5, <2>5, <2>6, TextNext
<1>7. CASE stack' = Front(stack)
  <2>1. PICK e : e = Last(stack')
    OBVIOUS
  <2>2. Calls(e, Top) /\ Linked(last, e, Top) /\ Placed(e) /\ Top' = e
    BY <1>1, <1>4, <1>7, <2>1, LinkedPopped, StackPopped DEF Top
  <2>3. CASE e.fn = "content"
    <3>1. e.at = "children" /\ Top.el # 0 /\ Ancestor[Top.el] = e.el
      BY <1>1, <2>2, <2>3 DEF Calls, Linked
    <3>2. Kind[e.el] # "PCDATA"
      BY <1>1, <3>1, TextAssumption DEF Placed
    <3>3. Top'.fn = "content" /\ Top'.at = "children" /\ Kind[Top'.el] # "PCDATA"
      BY <2>2, <2>3, <3>1, <3>2
    <3>4. QED  BY <1>2, <1>5, <3>3 DEF Passed, AtText, InContent, HitIsOpen,
                   HiddenPlaces, InHitPlaces
  <2>4. CASE e.fn = "span"
    BY <1>2, <1>5, <2>2, <2>4 DEF Passed, AtText, InContent, HitIsOpen
  <2>5. QED  BY <1>1, <2>2, <2>3, <2>4 DEF Calls
<1>8. QED  BY <1>6, <1>7 DEF GoOn, Return, Onward

\* output_element, without startEl.
LEMMA TextElement ==
  ASSUME StartEls = {}, IInv, IInv', NEW last, InOrder(last), InOrder(last)', TextInv,
         output_element
  PROVE  TextInv'
<1>1. PICK at : At("element", at)
  BY DEF output_element, ElementFails, Begin, EndSkipped, EndFails, End, NextElement,
     ClimbFails, Climb, GoOn, Jump, CloneRefused
<1>2. /\ page = "output" /\ stack # <<>> /\ IsFrame(Top) /\ Top.fn = "element"
      /\ Top.at = at
  BY <1>1, AtIs
<1>3. SpansKept
  BY ElementKept
<1>4. CASE ElementFails \/ EndSkipped \/ EndFails \/ ClimbFails \/ CloneRefused
  <2>1. /\ UNCHANGED <<in_search, texts, done, hit, bounds, spans, open_hits>>
        /\ told_to_stop => told_to_stop'
        /\ (told_to_stop' = TRUE /\ page' = page) \/ page' = "undefined"
    BY <1>4 DEF ElementFails, EndSkipped, EndFails, ClimbFails, CloneRefused, cursor,
       budget
  <2>2. QED  BY <1>2, <1>3, <2>1, TextStays DEF HitIsOpen, InContent
<1>5. CASE End \/ NextElement \/ Climb
  <2>1. /\ UNCHANGED <<in_search, texts, done, hit, bounds, spans, open_hits, begun>>
        /\ told_to_stop => told_to_stop'
        /\ page' = page
    <3>1. CASE End
      BY <3>1 DEF End, cursor
    <3>2. CASE NextElement
      BY <3>2 DEF NextElement, cursor, budget
    <3>3. CASE Climb
      <4>1. UNCHANGED <<page, bounds, cursor, spans, open_hits, begun>>
        BY <3>3 DEF Climb
      <4>2. told_to_stop => told_to_stop'
        BY <3>3 DEF Climb
      <4>3. QED  BY <4>1, <4>2 DEF cursor
    <3>4. QED  BY <1>5, <3>1, <3>2, <3>3
  <2>0. at # "top"
    <3>1. At("element", "content") \/ At("element", "next") \/ At("element", "climb")
      BY <1>5 DEF End, NextElement, Climb
    <3>2. QED  BY <1>1, <3>1 DEF At
  <2>2. SUFFICES ASSUME ~told_to_stop', Passed PROVE ~HitIsOpen' /\ Passed' /\ AtText'
    BY <1>2, <1>3, <2>1, TextStays DEF HitIsOpen, InContent
  <2>3. done >= 1 => texts[done].end_el <= begun'
    BY <1>2, <2>0, <2>1, <2>2 DEF Passed
  <2>4. Top'.fn = "element" /\ Top'.at \notin {"top", "content"}
    <3>1. CASE End \/ NextElement
      <4>1. PICK to \in {"next", "climb", "jump"} : stack' = Go(to)
        BY <2>2, <3>1 DEF End, NextElement
      <4>2. QED  BY <1>1, <4>1, KeptGo
    <3>2. CASE Climb
      <4>1. \E n : \E to \in {"climb", "jump"} : stack' = Replace(Climbed(Top, n, to))
        BY <2>2, <3>2 DEF Climb, Climbed
      <4>2. PICK n : \E to \in {"climb", "jump"} : stack' = Replace(Climbed(Top, n, to))
        BY <4>1
      <4>3. PICK to \in {"climb", "jump"} : stack' = Replace(Climbed(Top, n, to))
        BY <4>2
      <4>4. PICK f : f = Climbed(Top, n, to)
        OBVIOUS
      <4>5. IsFrame(f) /\ f.fn = "element" /\ f.at = to
        BY <1>2, <4>3, <4>4, FrameClimbed
      <4>6. Top' = f
        BY <1>1, <4>3, <4>4, <4>5, KeptReplace
      <4>7. QED  BY <4>5, <4>6
    <3>3. QED  BY <1>5, <3>1, <3>2
  <2>5. QED  BY <2>1, <2>3, <2>4, TextPast
<1>6. ~Jump
  BY DEF Jump
<1>7. QED  BY <1>4, <1>5, <1>6, TextBegin, TextGoOn DEF output_element

(***************************************************************************)
(* output_content                                                          *)
(***************************************************************************)
\* The content of an element has been output: all of it, or none.
LEMMA TextReturns ==
  ASSUME IInv, NEW last, InOrder(last), NEW at, At("content", at),
         stack' = Front(stack), stack' # <<>>, UNCHANGED <<texts, done, begun>>, Passed,
         Kind[Top.el] = "PCDATA" /\ ret' = 1 /\ HitsInOrder => upto' \in {0, TextLen[Top.el]}
  PROVE  ~HitIsOpen' /\ Passed' /\ AtText'
<1>1. /\ stack # <<>> /\ Top = Last(stack) /\ IsStack(stack) /\ IsLinked(last, stack)
      /\ Top.fn = "content"
  BY OrderAt
<1>2. PICK e : e = Last(stack')
  OBVIOUS
<1>3. Calls(e, Top) /\ Linked(last, e, Top) /\ Top' = e
  BY <1>1, <1>2, LinkedPopped, StackPopped DEF Top
<1>4. Top'.fn = "element" /\ Top'.at = "content" /\ Top'.el = Top.el
  BY <1>1, <1>3 DEF Calls, Linked
<1>5. done >= 1 => texts[done].end_el <= begun
  BY <1>1 DEF Passed
<1>6. QED  BY <1>4, <1>5 DEF Passed, AtText, InContent, HitIsOpen

\* What a content procedure answers if it hides the children.
LEMMA HidesBy ==
  ASSUME NEW el, NEW s \in process_style(el, "content"), s.r = 2
  PROVE  s.hide = 1
<1>1. HideCode(0) = 1 /\ HideCode(2) = 5
  BY DEF HideCode
<1>2. CASE el \in Styled
  <2>1. \/ \E g \in Hides : \E m : s = Reply(HideCode(g), g, m)
        \/ \E m : s = Reply(4, hide, m)
        \/ \E m : s = Reply(0, hide, m)
    BY <1>2 DEF process_style, ProcedureReplies
  <2>2. PICK g \in Hides : HideCode(g) = 2 /\ s.hide = g
    BY <2>1 DEF Reply
  <2>3. QED  BY <1>1, <2>2, StyleAssumption
<1>3. CASE el \notin Styled
  BY <1>3 DEF process_style, Reply
<1>4. QED  BY <1>2, <1>3

\* The content procedure.
LEMMA TextContent ==
  ASSUME IInv, NEW last, InOrder(last), TextInv, Content
  PROVE  TextInv'
<1>1. /\ At("content", "top") /\ page = "output" /\ stack # <<>> /\ IsFrame(Top)
      /\ Top.fn = "content" /\ Top.at = "top"
  BY AtIs DEF Content
<1>2. /\ UNCHANGED <<in_search, texts, done, hit, bounds, spans, open_hits, begun, upto>>
      /\ page' = "output"
      /\ told_to_stop => told_to_stop'
  BY <1>1 DEF Content, cursor
<1>3. SpansKept
  BY ContentKept DEF output_content
<1>4. SUFFICES ASSUME ~told_to_stop', Passed, AtText
               PROVE  ~HitIsOpen' /\ Passed' /\ AtText'
  BY <1>1, <1>2, <1>3, TextStays DEF HitIsOpen, InContent
<1>5. PICK yes \in BOOLEAN : yes = TRUE
  OBVIOUS
<1>6. PICK s \in process_style(Top.el, "content") :
        /\ hide' = s.hide /\ s.r # 0
        /\ stack' = Replace(Holding(Top, IF s.r = 2 THEN "hidden" ELSE "bounds", yes))
  BY <1>4, <1>5 DEF Content, Holding
<1>7. PICK to : to = IF s.r = 2 THEN "hidden" ELSE "bounds"
  OBVIOUS
<1>8. Top'.fn = "content" /\ Top'.at = to /\ Top'.el = Top.el
  BY <1>1, <1>6, <1>7, KeptHolding
<1>9. begun = Top.el /\ upto = 0 /\ ~Prev(Top.el)
  BY <1>1, <1>4 DEF AtText, InContent
<1>10. ~Prev(Top.el)'
  BY <1>2, <1>8, <1>9 DEF Prev
<1>11. done >= 1 => texts[done].end_el <= begun
  BY <1>1, <1>4 DEF Passed
<1>12. Passed'
  BY <1>2, <1>7, <1>8, <1>11 DEF Passed
<1>13. CASE s.r = 2
  <2>1. hide' = 1
    BY <1>6, <1>13, HidesBy
  <2>2. ~(Hides \subseteq {0, 2})
    BY <1>6, <1>13, NeverHides
  <2>3. ~HitIsOpen' /\ AtText'
    BY <1>2, <1>7, <1>8, <1>9, <1>13, <2>1, <2>2 DEF AtText, InContent, HitIsOpen,
       HiddenPlaces, InHitPlaces
  <2>4. QED  BY <1>12, <2>3
<1>14. CASE s.r # 2
  <2>1. ~HitIsOpen' /\ AtText'
    BY <1>2, <1>7, <1>8, <1>9, <1>10, <1>14 DEF AtText, InContent, HitIsOpen,
       HiddenPlaces, InHitPlaces
  <2>2. QED  BY <1>12, <2>1
<1>15. QED  BY <1>13, <1>14

\* Another hit is passed: the cursor is on the next one.
LEMMA OnCourseMoves ==
  ASSUME texts = <<>> \/ texts \in Searches, OnCourse, done < Len(texts),
         increment_curr_search
  PROVE  /\ OnCourse' /\ texts' = texts /\ done' = done + 1 /\ hit = texts[done + 1]
         /\ hit \in [start_el : Els, start_off : Nat, end_el : Els, end_off : Nat]
         /\ texts \in Searches /\ done + 1 \in DOMAIN texts
         /\ done + 1 = Len(texts) => hit'.start_el = -1
         /\ done + 1 # Len(texts) =>
              done + 2 \in DOMAIN texts /\ hit' = texts[done + 2]
<1>1. Len(texts) \in Nat
  BY FoundLength
<1>2. PICK d \in Nat : d = done /\ d < Len(texts)
  BY DEF OnCourse
<1>3. d + 1 \in 1 .. Len(texts)
  BY <1>1, <1>2
<1>4. /\ texts \in Searches /\ d + 1 \in DOMAIN texts
      /\ texts[d + 1] \in [start_el : Els, start_off : Nat, end_el : Els, end_off : Nat]
  BY <1>3, FoundAreHits
<1>5. hit = texts[d + 1]
  BY <1>2 DEF OnCourse, OnNext
<1>6. /\ done' = d + 1 /\ texts' = texts /\ in_search' = (d + 1 < Len(texts))
      /\ hit' = IF d + 1 = Len(texts) THEN [hit EXCEPT !.start_el = -1] ELSE texts[d + 2]
  BY <1>2 DEF increment_curr_search
<1>7. d + 1 = Len(texts) => hit'.start_el = -1
  BY <1>4, <1>5, <1>6
<1>8. ASSUME d + 1 # Len(texts) PROVE d + 2 \in DOMAIN texts
  <2>1. d + 2 \in 1 .. Len(texts)
    BY <1>1, <1>2, <1>8
  <2>2. QED  BY <2>1, FoundAreHits
<1>9. OnNext'
  <2>1. CASE d + 1 = Len(texts)
    BY <1>1, <1>6, <1>7, <2>1 DEF OnNext
  <2>2. CASE d + 1 # Len(texts)
    <3>1. (d + 1) + 1 = d + 2
      OBVIOUS
    <3>2. hit' = texts'[done' + 1]
      BY <1>6, <2>2, <3>1
    <3>3. QED  BY <1>1, <1>2, <1>6, <2>2, <3>2 DEF OnNext
  <2>3. QED  BY <2>1, <2>2
<1>10. OnCourse'
  <2>1. d + 1 \in Nat /\ d + 1 <= Len(texts)
    BY <1>1, <1>2
  <2>2. in_search' => d + 1 < Len(texts)
    BY <1>6
  <2>3. QED  BY <1>6, <1>9, <2>1, <2>2 DEF OnCourse
<1>11. QED  BY <1>2, <1>4, <1>5, <1>6, <1>7, <1>8, <1>10

\* Where the children are hidden, a procedure for found text is called ...
LEMMA TextHides ==
  ASSUME IInv, NEW last, InOrder(last), TextInv, HiddenHit
  PROVE  TextInv'
<1>1. /\ At("content", "hidden") /\ page = "output" /\ stack # <<>>
      /\ Top.fn = "content" /\ Top.at = "hidden"
  BY AtIs DEF HiddenHit
<1>2. /\ UNCHANGED <<in_search, texts, done, hit, bounds, spans, begun, upto, hide,
                     open_hits, told_to_stop, page>>
  BY DEF HiddenHit, cursor, budget
<1>3. SpansKept
  BY ContentKept DEF output_content
<1>4. SUFFICES ASSUME Passed, AtText PROVE ~HitIsOpen' /\ Passed' /\ AtText'
  BY <1>1, <1>2, <1>3, TextStays DEF HitIsOpen, InContent
<1>5. PICK to : to = IF EndsCurrent THEN "endsCurrent" ELSE "endsPrevious"
  OBVIOUS
<1>6. Top'.fn = "content" /\ Top'.at = to /\ Top'.el = Top.el
  BY <1>1, <1>5, KeptGo DEF HiddenHit
<1>7. begun = Top.el /\ upto = 0 /\ hide = 1 /\ ~(Hides \subseteq {0, 2})
  BY <1>1, <1>4 DEF AtText, HiddenPlaces
<1>8. Passed'
  BY <1>1, <1>2, <1>4, <1>6 DEF Passed
<1>9. ~HitIsOpen' /\ (EndsCurrent => EndsCurrent')
  BY <1>2, <1>5, <1>6 DEF HitIsOpen, InContent, EndsCurrent
<1>10. AtText'
  BY <1>2, <1>5, <1>6, <1>7, <1>9 DEF AtText, InContent, InHitPlaces
<1>11. QED  BY <1>8, <1>9, <1>10

\* ... and what hits end there are passed.
LEMMA TextHidden ==
  ASSUME IInv, NEW last, InOrder(last), TextInv, Hidden \/ HiddenHitEnded
  PROVE  TextInv'
<1>0. PICK at \in HiddenPlaces : At("content", at)
  BY DEF Hidden, HiddenHitEnded, HiddenPlaces
<1>1. /\ At("content", at) /\ page = "output" /\ stack # <<>> /\ IsFrame(Top)
      /\ Top.fn = "content" /\ Top.at \in HiddenPlaces /\ Placed(Top) /\ ~told_to_stop
  <2>1. ~told_to_stop
    BY <1>0, NotTold DEF HiddenPlaces, FoundPlaces
  <2>2. QED  BY <1>0, <2>1, OrderAt
<1>2. /\ UNCHANGED <<texts, bounds, spans, begun, upto>>
      /\ UNCHANGED <<in_search, done, hit>> \/ (Top.at = "endsCurrent" /\ increment_curr_search)
      /\ UNCHANGED open_hits \/ HiddenHitEnded
      /\ page' = "output" \/ page' = "undefined"
  <2>1. CASE Hidden
    BY <1>1, <2>1 DEF Hidden, cursor, budget
  <2>2. CASE HiddenHitEnded
    BY <1>1, <2>2 DEF HiddenHitEnded, cursor, increment_curr_search
  <2>3. QED  BY <2>1, <2>2
<1>3. SpansKept
  BY ContentKept DEF output_content
<1>4. texts = <<>> \/ texts \in Searches
  BY DEF TextInv
<1>5. SUFFICES ASSUME Unspanned, page' = "output"
               PROVE  /\ OnCourse'
                      /\ ~told_to_stop' =>
                           HitsOpen' /\ (stack' # <<>> => Passed' /\ AtText')
  BY <1>1, <1>2, <1>3, TextMoves
<1>6. OnCourse /\ Passed /\ AtText
  BY <1>1, <1>5 DEF Unspanned
<1>7. /\ begun = Top.el /\ upto = 0 /\ hide = 1 /\ ~(Hides \subseteq {0, 2})
      /\ Top.at = "endsCurrent" => EndsCurrent
  BY <1>1, <1>6 DEF AtText, InContent, HiddenPlaces
<1>8. Top.el \in Nat
  BY <1>1, BookAssumption DEF Placed
<1>9. OnCourse' /\ (done' >= 1 => texts[done'].end_el <= Top.el)
  <2>1. CASE UNCHANGED <<in_search, done, hit>>
    <3>1. OnCourse'
      BY <1>2, <1>6, <2>1 DEF OnCourse, OnNext
    <3>2. done >= 1 => texts[done].end_el <= begun
      BY <1>1, <1>6 DEF Passed
    <3>3. QED  BY <1>7, <2>1, <3>1, <3>2
  <2>2. CASE Top.at = "endsCurrent" /\ increment_curr_search
    <3>1. done < Len(texts) /\ Top.el >= hit.end_el
      BY <1>6, <1>7, <2>2 DEF EndsCurrent, OnCourse
    <3>2. /\ OnCourse' /\ done' = done + 1 /\ hit = texts[done + 1]
          /\ hit \in [start_el : Els, start_off : Nat, end_el : Els, end_off : Nat]
      BY <1>4, <1>6, <2>2, <3>1, OnCourseMoves
    <3>3. texts[done'].end_el \in Nat /\ Top.el >= texts[done'].end_el
      BY <3>1, <3>2, BookAssumption
    <3>4. QED  BY <1>8, <3>2, <3>3
  <2>3. QED  BY <1>2, <2>1, <2>2
<1>10. ASSUME ~told_to_stop', stack' # <<>> PROVE Passed' /\ AtText'
  <2>1. PICK no \in BOOLEAN : no = FALSE
    OBVIOUS
  <2>2. stack' = Replace(Holding(Top, "bounds", no)) /\ hide' = 1
    <3>1. CASE Hidden
      BY <1>7, <2>1, <3>1 DEF Hidden, HiddenAway, Holding
    <3>2. CASE HiddenHitEnded
      BY <1>1, <1>5, <1>10, <2>1, <3>2 DEF HiddenHitEnded, HiddenAway, Holding
    <3>3. QED  BY <3>1, <3>2
  <2>3. Top'.fn = "content" /\ Top'.at = "bounds" /\ Top'.el = Top.el
    BY <1>1, <2>1, <2>2, KeptHolding
  <2>4. Passed'
    BY <1>2, <1>7, <1>9, <2>3 DEF Passed
  <2>5. AtText'
    BY <1>2, <1>7, <2>2, <2>3 DEF AtText, InContent, HiddenPlaces, InHitPlaces
  <2>6. QED  BY <2>4, <2>5
<1>11. QED  BY <1>7, <1>9, <1>10 DEF HitsOpen

\* The text before the first hit: no hit that was passed ended in it.
LEMMA TextBefore ==
  ASSUME IInv, NEW last, InOrder(last), TextInv, TextBeforeHit \/ HitFromBefore
  PROVE  TextInv'
<1>1. /\ At("content", "bounds") /\ page = "output" /\ stack # <<>> /\ IsFrame(Top)
      /\ Top.fn = "content" /\ Top.at = "bounds" /\ Placed(Top) /\ ~told_to_stop
      /\ hide # 1 /\ Kind[Top.el] = "PCDATA"
  <2>1. At("content", "bounds") /\ hide # 1 /\ Kind[Top.el] = "PCDATA"
    BY DEF TextBeforeHit, HitFromBefore, InTextWithHits, Shows
  <2>2. ~told_to_stop
    BY <2>1, NotTold
  <2>3. QED  BY <2>1, <2>2, OrderAt
<1>2. /\ UNCHANGED <<in_search, texts, done, hit, bounds, spans, begun>>
      /\ page' = "output" /\ (TextBeforeHit => upto' = HitBefore(0))
  BY <1>1 DEF TextBeforeHit, HitFromBefore, cursor, budget
<1>3. SpansKept
  BY ContentKept DEF output_content
<1>4. SUFFICES ASSUME Unspanned
               PROVE  /\ OnCourse'
                      /\ ~told_to_stop' =>
                           HitsOpen' /\ (stack' # <<>> => Passed' /\ AtText')
  BY <1>1, <1>2, <1>3, TextMoves
<1>5. OnCourse /\ Passed /\ AtText /\ HitsOpen
  BY <1>1, <1>4 DEF Unspanned
<1>6. OnCourse'
  BY <1>2, <1>5 DEF OnCourse, OnNext
<1>7. begun = Top.el /\ upto = 0 /\ ~Prev(Top.el)
  BY <1>1, <1>5 DEF AtText, InContent
<1>8. previous_search.end_el # Top.el /\ ~EndsFromBefore
  <2>1. CASE done = 0
    <3>1. Top.el # 0
      BY <1>1, BookAssumption
    <3>2. QED  BY <2>1, <3>1 DEF previous_search, NoHit, EndsFromBefore
  <2>2. CASE done # 0
    <3>1. done >= 1
      BY <1>5, <2>2 DEF OnCourse
    <3>2. QED  BY <1>7, <2>2, <3>1 DEF previous_search, Prev, EndsFromBefore
  <2>3. QED  BY <2>1, <2>2
<1>9. TextBeforeHit /\ stack' = Go("hit") /\ open_hits' = open_hits
  BY <1>8 DEF TextBeforeHit, HitFromBefore
<1>10. Top'.fn = "content" /\ Top'.at = "hit" /\ Top'.el = Top.el
  BY <1>1, <1>9, KeptGo
<1>11. Passed'
  <2>1. done >= 1 => texts[done].end_el <= begun
    BY <1>1, <1>5 DEF Passed
  <2>2. QED  BY <1>2, <1>10, <2>1 DEF Passed
<1>12. hit.start_el = Top.el /\ hit.start_off \in Nat
  <2>1. in_search /\ hit.start_el = Top.el
    BY <1>8, <1>9 DEF TextBeforeHit, InTextWithHits, InHit
  <2>2. Len(texts) \in Nat
    BY FoundLength DEF TextInv
  <2>3. done \in Nat /\ done < Len(texts) /\ hit = texts[done + 1]
    BY <1>5, <2>1 DEF OnCourse, OnNext
  <2>4. done + 1 \in 1 .. Len(texts)
    BY <2>2, <2>3
  <2>5. hit \in [start_el : Els, start_off : Nat, end_el : Els, end_off : Nat]
    BY <2>3, <2>4, FoundAreHits DEF TextInv
  <2>6. QED  BY <2>1, <2>5
<1>13. upto' = hit.start_off
  <2>1. EndHere = 0
    BY <1>8 DEF EndHere
  <2>2. QED  BY <1>2, <1>9, <1>12, <2>1 DEF HitBefore, Wrote
<1>14. AtText'
  BY <1>1, <1>2, <1>7, <1>10, <1>12, <1>13 DEF AtText, InContent, HiddenPlaces, InHitPlaces
<1>15. HitsOpen'
  BY <1>1, <1>5, <1>9, <1>10 DEF HitsOpen, HitIsOpen, InContent
<1>16. QED  BY <1>6, <1>11, <1>14, <1>15

\* No hit that began in an element before ends in a text.
LEMMA TextEnded ==
  ASSUME IInv, TextInv, HitEnded
  PROVE  TextInv'
<1>1. /\ At("content", "ended") /\ page = "output" /\ stack # <<>> /\ Top.fn = "content"
      /\ Top.at = "ended"
  BY AtIs DEF HitEnded
<1>2. ~told_to_stop
  BY <1>1, NotTold DEF FoundPlaces
<1>3. UNCHANGED <<texts, bounds, spans>> /\ page' # "begin"
  <2>1. UNCHANGED <<bounds, spans>>
    BY DEF HitEnded, FoundProcedure
  <2>2. UNCHANGED <<page, cursor>>
    BY DEF HitEnded, FoundProcedure, FoundFails, BeforeNextHit
  <2>3. QED  BY <1>1, <2>1, <2>2 DEF cursor
<1>4. SpansKept
  BY ContentKept DEF output_content
<1>5. ~Unspanned
  BY <1>1, <1>2 DEF Unspanned, AtText, InContent
<1>6. QED  BY <1>1, <1>3, <1>4, <1>5, TextMoves

\* The hit at which the output is: it ends in its text.
LEMMA HitHere ==
  ASSUME Within, IInv, NEW last, InOrder(last), TextInv, Unspanned,
         NEW at, At("content", at),
         (at = "hit" /\ hit.start_el = Top.el) \/ at \in InHitPlaces
  PROVE  /\ OnCourse /\ Passed /\ AtText /\ HitsOpen
         /\ page = "output" /\ stack # <<>> /\ Top.fn = "content" /\ Top.at = at
         /\ Top.el \in Els /\ Top.el \in Nat /\ Top.el # 0 /\ begun = Top.el
         /\ Kind[Top.el] = "PCDATA" /\ hit.start_el = Top.el /\ hit.end_el = Top.el
         /\ done < Len(texts)
         /\ hit.start_off \in Nat /\ hit.end_off \in Nat /\ TextLen[Top.el] \in Nat
         /\ HitsInOrder => /\ hit.start_off <= hit.end_off /\ hit.end_off <= TextLen[Top.el]
                           /\ upto = IF at = "ends" THEN hit.end_off ELSE hit.start_off
<1>1. /\ page = "output" /\ stack # <<>> /\ Top.fn = "content" /\ Top.at = at
      /\ Placed(Top)
  BY OrderAt
<1>2. ~told_to_stop
  BY NotTold DEF InHitPlaces, FoundPlaces
<1>3. OnCourse /\ Passed /\ AtText /\ HitsOpen
  BY <1>1, <1>2 DEF Unspanned
<1>4. /\ begun = Top.el /\ Kind[Top.el] = "PCDATA" /\ hit.start_el = Top.el
      /\ HitsInOrder => upto = IF at = "ends" THEN hit.end_off ELSE hit.start_off
  BY <1>1, <1>3 DEF AtText, InContent, InHitPlaces
<1>5. /\ Top.el \in Els /\ Top.el \in Nat /\ Top.el # 0 /\ TextLen[Top.el] \in Nat
  BY <1>1, <1>4, BookAssumption, TextAssumption DEF Placed
<1>6. done < Len(texts)
  <2>1. ~(hit.start_el \in {-1, 0})
    BY <1>4, <1>5
  <2>2. QED  BY <1>3, <2>1 DEF OnCourse, OnNext
<1>7. PICK d \in Nat : d = done + 1
  BY <1>3 DEF OnCourse
<1>8. d \in 1 .. Len(texts) /\ hit = texts[d]
  <2>1. Len(texts) \in Nat /\ done \in Nat
    BY <1>3, FoundLength DEF OnCourse, TextInv
  <2>2. QED  BY <1>3, <1>6, <1>7, <2>1 DEF OnCourse, OnNext
<1>9. /\ texts \in Searches /\ d \in DOMAIN texts
      /\ hit \in [start_el : Els, start_off : Nat, end_el : Els, end_off : Nat]
  BY <1>8, FoundAreHits DEF TextInv
<1>10. hit.end_el = Top.el
  BY <1>4, <1>8, <1>9 DEF Within
<1>11. HitsInOrder => hit.start_off <= hit.end_off /\ hit.end_off <= TextLen[Top.el]
  BY <1>8, <1>9, <1>10 DEF HitsInOrder
<1>12. QED  BY <1>1, <1>3, <1>4, <1>5, <1>6, <1>9, <1>10, <1>11

\* A hit begins: the procedure before it is called ...
LEMMA TextBegins ==
  ASSUME Within, IInv, NEW last, InOrder(last), TextInv, HitBegins \/ HitBegun
  PROVE  TextInv'
<1>1. PICK at \in {"hit", "begins"} :
        At("content", at) /\ (at = "hit" => HitBegins) /\ (at = "begins" => HitBegun)
  BY DEF HitBegins, HitBegun
<1>2. at = "hit" => hit.start_el = Top.el
  BY <1>1 DEF HitBegins
<1>3. /\ UNCHANGED <<in_search, texts, done, hit, bounds, spans, begun>> /\ page' = page
      /\ \/ told_to_stop' = TRUE
         \/ /\ stack' = Go(IF at = "hit" THEN "begins" ELSE "found") /\ upto' = upto
            /\ open_hits' = IF at = "hit" THEN open_hits ELSE open_hits + 1
  <2>1. CASE at = "hit"
    BY <1>1, <2>1 DEF HitBegins, cursor, budget
  <2>2. CASE at = "begins"
    <3>1. UNCHANGED <<bounds, spans, begun>>
      BY <1>1, <2>2 DEF HitBegun, FoundProcedure
    <3>2. UNCHANGED <<page, cursor>>
      BY <1>1, <2>2 DEF HitBegun, FoundProcedure, FoundFails, Marked
    <3>3. \/ told_to_stop' = TRUE
          \/ stack' = Go("found") /\ upto' = upto /\ open_hits' = open_hits + 1
      BY <1>1, <2>2 DEF HitBegun, FoundProcedure, FoundFails, Marked
    <3>4. QED  BY <2>2, <3>1, <3>2, <3>3 DEF cursor
  <2>3. QED  BY <2>1, <2>2
<1>4. SpansKept
  BY ContentKept DEF output_content
<1>5. SUFFICES ASSUME Unspanned
               PROVE  /\ OnCourse'
                      /\ ~told_to_stop' =>
                           HitsOpen' /\ (stack' # <<>> => Passed' /\ AtText')
  <2>1. page = "output"
    BY <1>1, AtIs
  <2>2. stack # <<>> /\ page' # "begin"
    BY <1>1, <1>3, <2>1, AtIs
  <2>3. QED  BY <1>3, <1>4, <1>5, <2>1, <2>2, TextMoves
<1>6. /\ OnCourse /\ Passed /\ AtText /\ HitsOpen
      /\ stack # <<>> /\ Top.fn = "content" /\ Top.at = at
      /\ begun = Top.el /\ Kind[Top.el] = "PCDATA" /\ hit.start_el = Top.el
      /\ HitsInOrder => upto = hit.start_off
  BY <1>1, <1>2, <1>5, HitHere DEF InHitPlaces
<1>7. OnCourse'
  BY <1>3, <1>6 DEF OnCourse, OnNext
<1>8. SUFFICES ASSUME ~told_to_stop' PROVE HitsOpen' /\ Passed' /\ AtText'
  BY <1>7
<1>9. PICK to : to = IF at = "hit" THEN "begins" ELSE "found"
  OBVIOUS
<1>10. /\ Top'.fn = "content" /\ Top'.at = to /\ Top'.el = Top.el /\ stack' # <<>>
  BY <1>1, <1>3, <1>8, <1>9, KeptGo
<1>11. Passed'
  BY <1>3, <1>6, <1>10 DEF Passed
<1>12. AtText'
  BY <1>3, <1>6, <1>8, <1>9, <1>10 DEF AtText, InContent, HiddenPlaces, InHitPlaces
<1>13. HitsOpen'
  <2>1. Hides \subseteq {0, 2} => open_hits = 0
    BY <1>6 DEF HitsOpen, HitIsOpen, InContent
  <2>2. QED  BY <1>3, <1>8, <1>9, <1>10, <2>1 DEF HitsOpen, HitIsOpen, InContent
<1>14. QED  BY <1>11, <1>12, <1>13

\* ... it is written, as far as its end, and ends in its text, ...
LEMMA TextFound ==
  ASSUME Within, IInv, NEW last, InOrder(last), TextInv, HitText \/ HitGoesOn
  PROVE  TextInv'
<1>1. At("content", "found")
  BY DEF HitText, HitGoesOn
<1>2. /\ UNCHANGED <<texts, bounds, spans, begun>> /\ page' \in {page, "undefined"}
      /\ HitText => /\ stack' = Go("ends") /\ upto' = Wrote(upto, hit.start_off, hit.end_off)
                    /\ UNCHANGED <<in_search, done, hit, open_hits>>
  <2>1. CASE HitText
    BY <2>1 DEF HitText, cursor, budget
  <2>2. CASE HitGoesOn
    <3>1. UNCHANGED <<bounds, spans, begun>> /\ ~EndsInText
      BY <2>2 DEF HitGoesOn, budget
    <3>2. texts' = texts /\ page' \in {page, "undefined"}
      BY <2>2 DEF HitGoesOn, PassHit, increment_curr_search, cursor
    <3>3. QED  BY <3>1, <3>2 DEF HitText
  <2>3. QED  BY <2>1, <2>2
<1>3. SpansKept
  BY ContentKept DEF output_content
<1>4. SUFFICES ASSUME Unspanned
               PROVE  /\ OnCourse'
                      /\ ~told_to_stop' =>
                           HitsOpen' /\ (stack' # <<>> => Passed' /\ AtText')
  <2>1. page = "output" /\ stack # <<>>
    BY <1>1, AtIs
  <2>2. page' # "begin"
    BY <1>2, <2>1
  <2>3. QED  BY <1>2, <1>3, <1>4, <2>1, <2>2, TextMoves
<1>5. /\ OnCourse /\ Passed /\ AtText /\ HitsOpen
      /\ stack # <<>> /\ Top.fn = "content" /\ Top.at = "found"
      /\ begun = Top.el /\ Kind[Top.el] = "PCDATA" /\ hit.start_el = Top.el
      /\ hit.end_el = Top.el
      /\ HitsInOrder => upto = hit.start_off /\ hit.start_off <= hit.end_off
  BY <1>1, <1>4, HitHere DEF InHitPlaces
<1>6. HitText
  BY <1>5 DEF HitGoesOn, EndsInText
<1>7. OnCourse'
  BY <1>2, <1>5, <1>6 DEF OnCourse, OnNext
<1>8. Top'.fn = "content" /\ Top'.at = "ends" /\ Top'.el = Top.el /\ stack' # <<>>
  BY <1>1, <1>2, <1>6, KeptGo
<1>9. Passed'
  BY <1>2, <1>5, <1>6, <1>8 DEF Passed
<1>10. HitsInOrder => upto' = hit.end_off
  BY <1>2, <1>5, <1>6 DEF Wrote
<1>11. AtText'
  BY <1>2, <1>5, <1>6, <1>8, <1>10 DEF AtText, InContent, HiddenPlaces, InHitPlaces
<1>12. HitsOpen'
  BY <1>2, <1>5, <1>6, <1>8 DEF HitsOpen, HitIsOpen, InContent
<1>13. QED  BY <1>7, <1>9, <1>11, <1>12

\* ... and the procedure after it is called; then comes what is before the next.
LEMMA TextHit ==
  ASSUME Within, IInv, NEW last, InOrder(last), TextInv, HitEnds
  PROVE  TextInv'
<1>1. At("content", "ends")
  BY DEF HitEnds
<1>2. /\ UNCHANGED <<texts, bounds, spans, begun>> /\ page' \in {page, "undefined"}
      /\ \/ told_to_stop' = TRUE /\ UNCHANGED <<in_search, done, hit>>
         \/ /\ stack' = Go("hit") /\ increment_curr_search /\ upto' = AfterHit
            /\ open_hits' = open_hits - 1
         \/ ~HitsLeft
  <2>1. UNCHANGED <<bounds, spans, begun>>
    BY DEF HitEnds, FoundProcedure
  <2>2. /\ texts' = texts /\ page' \in {page, "undefined"}
        /\ \/ told_to_stop' = TRUE /\ UNCHANGED <<in_search, done, hit>>
           \/ /\ stack' = Go("hit") /\ increment_curr_search /\ upto' = AfterHit
              /\ open_hits' = open_hits - 1
           \/ ~HitsLeft
    <3>1. CASE told_to_stop' = TRUE /\ UNCHANGED <<page, cursor>>
      BY <3>1 DEF cursor
    <3>2. ASSUME NEW l, Unmarked(l)
          PROVE  /\ texts' = texts /\ page' \in {page, "undefined"}
                 /\ \/ /\ stack' = Go("hit") /\ increment_curr_search /\ upto' = AfterHit
                       /\ open_hits' = open_hits - 1
                    \/ ~HitsLeft
      BY <3>2 DEF Unmarked, PassHit, increment_curr_search, cursor
    <3>3. (told_to_stop' = TRUE /\ UNCHANGED <<page, cursor>>) \/ \E l : Unmarked(l)
      BY DEF HitEnds, FoundProcedure, FoundFails
    <3>4. QED  BY <3>1, <3>2, <3>3
  <2>3. QED  BY <2>1, <2>2
<1>3. SpansKept
  BY ContentKept DEF output_content
<1>4. texts = <<>> \/ texts \in Searches
  BY DEF TextInv
<1>5. SUFFICES ASSUME Unspanned
               PROVE  /\ OnCourse'
                      /\ ~told_to_stop' =>
                           HitsOpen' /\ (stack' # <<>> => Passed' /\ AtText')
  <2>1. page = "output" /\ stack # <<>>
    BY <1>1, AtIs
  <2>2. page' # "begin"
    BY <1>2, <2>1
  <2>3. QED  BY <1>2, <1>3, <1>5, <2>1, <2>2, TextMoves
<1>6. /\ OnCourse /\ Passed /\ AtText /\ HitsOpen
      /\ stack # <<>> /\ Top.fn = "content" /\ Top.at = "ends"
      /\ Top.el \in Nat /\ Top.el # 0
      /\ begun = Top.el /\ Kind[Top.el] = "PCDATA" /\ hit.end_el = Top.el
      /\ done < Len(texts)
      /\ hit.end_off \in Nat
      /\ HitsInOrder => upto = hit.end_off /\ hit.end_off <= TextLen[Top.el]
  BY <1>1, <1>5, HitHere DEF InHitPlaces
<1>7. CASE told_to_stop' = TRUE /\ UNCHANGED <<in_search, done, hit>>
  <2>1. OnCourse'
    BY <1>2, <1>6, <1>7 DEF OnCourse, OnNext
  <2>2. QED  BY <1>7, <2>1
<1>8. CASE /\ stack' = Go("hit") /\ increment_curr_search /\ upto' = AfterHit
           /\ open_hits' = open_hits - 1
  <2>1. /\ OnCourse' /\ done' = done + 1 /\ hit = texts[done + 1]
        /\ hit \in [start_el : Els, start_off : Nat, end_el : Els, end_off : Nat]
        /\ texts \in Searches /\ done + 1 \in DOMAIN texts
        /\ done + 1 = Len(texts) => hit'.start_el = -1
        /\ done + 1 # Len(texts) =>
             done + 2 \in DOMAIN texts /\ hit' = texts[done + 2]
    BY <1>4, <1>6, <1>8, OnCourseMoves
  <2>2. /\ Top'.fn = "content" /\ Top'.at = "hit" /\ Top'.el = Top.el /\ stack' # <<>>
    BY <1>1, <1>8, KeptGo
  <2>3. HitsOpen'
    BY <1>6, <1>8, <2>2 DEF HitsOpen, HitIsOpen, InContent
  <2>4. Passed'
    <3>1. texts'[done'].end_el <= begun'
      BY <1>2, <1>6, <2>1
    <3>2. QED  BY <2>2, <3>1 DEF Passed
  <2>5. ASSUME HitsInOrder
        PROVE  upto' = IF hit'.start_el = Top.el THEN hit'.start_off ELSE TextLen[Top.el]
    <3>1. upto = hit.end_off /\ hit.end_off <= TextLen[Top.el]
      BY <1>6, <2>5
    <3>2. PICK to : to = IF next_search.start_el = Top.el THEN next_search.start_off
                         ELSE TextLen[Top.el]
      OBVIOUS
    <3>3. /\ hit.end_off <= to
          /\ to = IF hit'.start_el = Top.el THEN hit'.start_off ELSE TextLen[Top.el]
      <4>1. CASE done + 1 = Len(texts)
        <5>1. next_search.start_el = 0 /\ hit'.start_el = -1
          BY <2>1, <4>1 DEF next_search, NoHit
        <5>2. to = TextLen[Top.el] /\ hit'.start_el # Top.el
          BY <1>6, <3>2, <5>1
        <5>3. QED  BY <3>1, <5>2
      <4>2. CASE done + 1 # Len(texts)
        <5>1. next_search = hit' /\ hit' = texts[done + 2] /\ done + 2 \in DOMAIN texts
          BY <2>1, <4>2 DEF next_search
        <5>2. done \in Nat /\ (done + 1) + 1 = done + 2
          BY <1>6 DEF OnCourse
        <5>3. texts[done + 2].start_el = Top.el =>
                hit.end_off <= texts[done + 2].start_off
          BY <1>6, <2>1, <2>5, <5>1, <5>2 DEF HitsInOrder
        <5>4. QED  BY <3>1, <3>2, <5>1, <5>3
      <4>3. QED  BY <4>1, <4>2
    <3>4. AfterHit = to
      BY <1>6, <3>1, <3>2, <3>3 DEF AfterHit, Wrote
    <3>5. QED  BY <1>8, <3>3, <3>4
  <2>6. AtText'
    BY <1>2, <1>6, <2>2, <2>5 DEF AtText, InContent, HiddenPlaces, InHitPlaces
  <2>7. QED  BY <2>1, <2>3, <2>4, <2>6
<1>9. QED  BY <1>2, <1>6, <1>7, <1>8 DEF HitsLeft

\* The text is output whole, or it is hidden.
LEMMA TextWhole ==
  ASSUME IInv, NEW last, InOrder(last), TextInv, PlainText \/ ReturnHidden \/ HitsDone
  PROVE  TextInv'
<1>1. PICK at \in {"bounds", "hit"} : At("content", at)
  BY DEF PlainText, ReturnHidden, HitsDone
<1>2. /\ page = "output" /\ stack # <<>> /\ Top.fn = "content" /\ Top.at = at
      /\ Placed(Top)
  BY <1>1, OrderAt
<1>3. /\ UNCHANGED <<in_search, texts, done, hit, bounds, spans, begun, open_hits>>
      /\ stack' = Front(stack) /\ page' = page
      /\ told_to_stop => told_to_stop'
  <2>1. CASE PlainText
    BY <2>1 DEF PlainText, Return, cursor, budget, vars
  <2>2. CASE ReturnHidden
    BY <2>2 DEF ReturnHidden, Return, cursor, budget, vars
  <2>3. CASE HitsDone
    BY <2>3 DEF HitsDone, Return, cursor, budget, vars
  <2>4. QED  BY <2>1, <2>2, <2>3
<1>4. SpansKept
  BY ContentKept DEF output_content
<1>5. SUFFICES ASSUME Unspanned, stack' # <<>>, Passed, AtText
               PROVE  ~HitIsOpen' /\ Passed' /\ AtText'
  BY <1>2, <1>3, <1>4, TextStays DEF HitIsOpen, InContent
<1>6. SUFFICES ASSUME Kind[Top.el] = "PCDATA", HitsInOrder
               PROVE  upto' \in {0, TextLen[Top.el]}
  BY <1>1, <1>3, <1>5, TextReturns
<1>7. CASE PlainText
  <2>1. bounds = NoBounds
    BY <1>5 DEF Unspanned
  <2>2. Top.el \in Nat /\ TextLen[Top.el] \in Nat
    BY <1>2, BookAssumption, TextAssumption DEF Placed
  <2>3. bounds.start_el = -1 /\ bounds.end_el = -1
    BY <2>1 DEF NoBounds
  <2>4. From = 0 /\ To = TextLen[Top.el]
    BY <2>2, <2>3 DEF From, To
  <2>5. QED  BY <1>7, <2>2, <2>4 DEF PlainText, Wrote
<1>8. CASE ReturnHidden
  <2>1. At("content", "bounds") /\ upto' = upto
    BY <1>8 DEF ReturnHidden
  <2>2. Top.fn = "content" /\ Top.at = "bounds"
    BY <2>1 DEF At
  <2>3. QED  BY <1>5, <2>1, <2>2 DEF AtText, InContent
<1>9. CASE HitsDone
  <2>1. At("content", "hit") /\ upto' = upto /\ hit.start_el # Top.el
    BY <1>9 DEF HitsDone
  <2>2. Top.fn = "content" /\ Top.at = "hit"
    BY <2>1 DEF At
  <2>3. QED  BY <1>5, <1>6, <2>1, <2>2 DEF AtText, InContent
<1>10. QED  BY <1>7, <1>8, <1>9

\* What has children is no text; text that is not shown is not written.
LEMMA TextChildren ==
  ASSUME IInv, IInv', NEW last \in [Els -> Els], Numbered(last), InOrder(last),
         InOrder(last)', TextInv, Children
  PROVE  TextInv'
<1>1. /\ At("content", "bounds") /\ page = "output" /\ stack # <<>> /\ IsFrame(Top)
      /\ Top.fn = "content" /\ Top.at = "bounds" /\ Placed(Top)
  BY OrderAt DEF Children
<1>2. /\ UNCHANGED <<in_search, texts, done, hit, bounds, spans, begun, open_hits, upto>>
      /\ page' = "output"
      /\ told_to_stop => told_to_stop'
  BY <1>1 DEF Children, cursor, budget
<1>3. SpansKept
  BY ContentKept DEF output_content
<1>4. SUFFICES ASSUME OnCourse, stack' # <<>>, Passed, AtText
               PROVE  ~HitIsOpen' /\ Passed' /\ AtText'
  BY <1>1, <1>2, <1>3, TextStays DEF HitIsOpen, InContent
<1>5. upto = 0 /\ (done >= 1 => texts[done].end_el <= begun)
  BY <1>1, <1>4 DEF AtText, InContent, Passed
<1>6. CASE Child[Top.el] = 0
  <2>1. stack' = Front(stack)
    BY <1>6 DEF Children, Return
  <2>2. QED  BY <1>1, <1>2, <1>4, <1>5, <2>1, TextReturns
<1>7. CASE Child[Top.el] # 0
  <2>1. PICK f : f = [Top EXCEPT !.at = "children"]
    OBVIOUS
  <2>2. IsFrame(f) /\ f.fn = "content" /\ f.at = "children"
    BY <1>1, <2>1, FrameAt
  <2>3. PICK yes, no : yes = TRUE /\ no = FALSE
    OBVIOUS
  <2>4. PICK g : g = Frame("element", Child[Top.el], yes, no)
    OBVIOUS
  <2>5. IsFrame(g) /\ ~g.holds /\ g.fn = "element" /\ g.at = "top"
    BY <2>4, FrameMade, FrameFields
  <2>6. stack' = Call(f, g)
    BY <1>7, <2>1, <2>3, <2>4 DEF Children
  <2>7. Calls(f, g)
    BY <2>2, <2>5 DEF Calls
  <2>8. Top' = g
    BY <1>1, <2>2, <2>5, <2>6, <2>7, KeptCall
  <2>9. Top'.fn = "element" /\ Top'.at = "top"
    BY <2>5, <2>8
  <2>10. texts = <<>> \/ texts \in Searches
    BY DEF TextInv
  <2>11. QED  BY <1>2, <1>4, <1>5, <2>9, <2>10, TextNext
<1>8. QED  BY <1>6, <1>7

\* output_content.
LEMMA TextOutput ==
  ASSUME Within, IInv, IInv', NEW last \in [Els -> Els], Numbered(last), InOrder(last),
         InOrder(last)', TextInv, output_content
  PROVE  TextInv'
<1>1. CASE ContentFails \/ PlainTextFails \/ StopAtBounds \/ FoundCloneFails
  <2>1. PICK at : At("content", at)
    BY <1>1 DEF ContentFails, PlainTextFails, StopAtBounds, FoundCloneFails, InTextWithHits
  <2>2. page = "output" /\ stack # <<>>
    BY <2>1, AtIs
  <2>3. /\ UNCHANGED <<in_search, texts, done, hit, bounds, spans, open_hits>>
        /\ told_to_stop' = TRUE /\ page' = page
    BY <1>1 DEF ContentFails, PlainTextFails, StopAtBounds, FoundCloneFails, cursor, budget
  <2>4. SpansKept
    BY ContentKept
  <2>5. QED  BY <2>2, <2>3, <2>4, TextStays
<1>2. CASE ChildrenDone
  <2>1. /\ At("content", "children") /\ page = "output" /\ stack # <<>>
        /\ Top.fn = "content" /\ Top.at = "children"
    BY <1>2, AtIs DEF ChildrenDone
  <2>2. /\ UNCHANGED <<in_search, texts, done, hit, bounds, spans, open_hits, begun>>
        /\ page' = page /\ told_to_stop' = told_to_stop /\ stack' = Front(stack)
    BY <1>2 DEF ChildrenDone, Return, cursor, budget
  <2>3. SpansKept
    BY ContentKept
  <2>4. SUFFICES ASSUME stack' # <<>>, Passed, AtText
                 PROVE  ~HitIsOpen' /\ Passed' /\ AtText'
    BY <2>1, <2>2, <2>3, TextStays DEF HitIsOpen, InContent
  <2>5. Kind[Top.el] # "PCDATA"
    BY <2>1, <2>4 DEF AtText, InContent
  <2>6. QED  BY <2>1, <2>2, <2>4, <2>5, TextReturns
<1>3. CASE Hidden \/ HiddenHit \/ HiddenHitEnded
  BY <1>3, TextHides, TextHidden
<1>4. CASE TextBeforeHit \/ HitFromBefore \/ HitEnded
  BY <1>4, TextBefore, TextEnded
<1>5. CASE HitBegins \/ HitBegun \/ HitText \/ HitGoesOn \/ HitEnds
  BY <1>5, TextBegins, TextFound, TextHit
<1>6. QED  BY <1>1, <1>2, <1>3, <1>4, <1>5, TextContent, TextWhole, TextChildren
           DEF output_content

(***************************************************************************)
(* Spans, and the page                                                     *)
(***************************************************************************)
\* Once a span was formatted nothing is said any more.
LEMMA TextSpan == ASSUME IInv, TextInv, span PROVE TextInv'
<1>1. texts' = texts
  BY DEF span, FormatSpan, SpanFails, WalkDown, WalkDownDone, OutputSpan, SpanOutput, WalkUp,
     WalkUpDone, EndSpan, cursor
<1>2. page = "output" /\ page' = "output"
  BY DEF span, FormatSpan, SpanFails, WalkDown, WalkDownDone, OutputSpan, SpanOutput, WalkUp,
     WalkUpDone, EndSpan, InElement, InFound, At
<1>3. spans'.left \in Int /\ spans'.left <= MaxSpans /\ ~NoSpanYet'
  <2>1. spans.left \in Int /\ spans.left <= MaxSpans /\ MaxSpans \in Nat
    BY BoundsAssumption DEF TextInv
  <2>2. CASE FormatSpan
    <3>1. spans'.left = spans.left - 1
      BY <2>2 DEF FormatSpan
    <3>2. QED  BY <2>1, <3>1 DEF NoSpanYet
  <2>3. CASE ~FormatSpan
    <3>1. spans' = spans
      BY <2>3 DEF span, SpanFails, WalkDown, WalkDownDone, OutputSpan, SpanOutput, WalkUp,
         WalkUpDone, EndSpan, budget
    <3>2. PICK at : At("span", at)
      BY <2>3 DEF span, SpanFails, WalkDown, WalkDownDone, OutputSpan, SpanOutput, WalkUp,
         WalkUpDone
    <3>3. IsStack(stack) /\ stack # <<>> /\ Last(stack).fn = "span"
      BY <3>2, AtIs
    <3>4. Formats
      <4>1. PICK k \in DOMAIN stack : stack[k] = Last(stack)
        BY <3>3, StackPopped
      <4>2. QED  BY <3>3, <4>1 DEF Formats, IsSpan
    <3>5. ~NoSpanYet
      BY <1>2, <3>4 DEF TextInv, Unspanned
    <3>6. QED  BY <2>1, <3>1, <3>5 DEF NoSpanYet
  <2>4. QED  BY <2>2, <2>3
<1>4. QED  BY <1>1, <1>2, <1>3 DEF TextInv

\* Before and after the output.
LEMMA TextPage == ASSUME Within, IInv, TextInv, make_reader_file PROVE TextInv'
<1>1. CASE get_find_sg_text
  <2>1. /\ page' = "begin" /\ page = "begin" /\ texts' \in Searches /\ in_search' = TRUE
        /\ UNCHANGED <<done, hit, bounds, spans, open_hits>>
    BY <1>1 DEF get_find_sg_text, budget
  <2>2. QED  BY <2>1 DEF TextInv
<1>2. CASE NoPage \/ EndPage
  <2>1. page' = "closed" /\ UNCHANGED <<texts, spans>>
    BY <1>2 DEF NoPage, EndPage, cursor, budget
  <2>2. QED  BY <2>1 DEF TextInv
<1>3. CASE StartPage
  <2>1. PICK el \in Starts :
          /\ IF in_search THEN update_curr_search(el) ELSE UNCHANGED cursor
          /\ stack' = <<[Frame("element", el, outputSiblings, outputRight)
                           EXCEPT !.hide = hide']>>
    BY <1>3 DEF StartPage
  <2>2. /\ page = "begin" /\ page' = "output" /\ UNCHANGED <<spans, bounds, open_hits>>
    BY <1>3 DEF StartPage, budget
  <2>3. /\ texts = <<>> \/ texts \in Searches
        /\ spans.left \in Int /\ spans.left <= MaxSpans
        /\ bounds = NoBounds /\ open_hits = 0 /\ done = 0
        /\ hit.start_el = 0 /\ (texts # <<>> => in_search)
    BY <2>2 DEF TextInv
  <2>4. PICK h : h = hide'
    OBVIOUS
  <2>5. PICK g : g = FrameOf(el, outputSiblings, outputRight, h)
    OBVIOUS
  <2>6. stack' = <<g>>
    BY <2>1, <2>4, <2>5 DEF FrameOf
  <2>7. g.fn = "element" /\ g.at = "top" /\ g.el = el
    BY <2>5 DEF FrameOf, Frame
  <2>8. Top' = g /\ ~Formats' /\ ~HitIsOpen'
    BY <2>6, <2>7 DEF Top, Last, Formats, IsSpan, HitIsOpen, InContent
  <2>9. el \in Nat /\ Len(texts) \in Nat
    BY <2>3, FoundLength, BookAssumption
  <2>10. PICK n \in Nat :
           /\ n <= Len(texts) /\ done' = n /\ texts' = texts
           /\ in_search' => n < Len(texts)
           /\ n < Len(texts) => hit' = texts[n + 1]
           /\ ~(n < Len(texts)) => hit' = hit
           /\ n >= 1 => ~(texts[n].start_el >= el)
    <3>1. CASE in_search
      <4>1. PICK n \in Nat : /\ n = Skipped(el) /\ n <= Len(texts)
                             /\ n >= 1 => ~(texts[n].start_el >= el)
        BY <2>3, <2>9, SkipsTo
      <4>2. done' = n /\ texts' = texts /\ (in_search' => n < Len(texts))
        BY <2>1, <3>1, <4>1 DEF update_curr_search
      <4>3. hit' = IF n < Len(texts) THEN texts[n + 1] ELSE hit
        BY <2>1, <3>1, <4>1 DEF update_curr_search
      <4>4. QED  BY <4>1, <4>2, <4>3
    <3>2. CASE ~in_search
      <4>1. texts = <<>> /\ UNCHANGED <<in_search, texts, done, hit>>
        BY <2>1, <2>3, <3>2 DEF cursor
      <4>2. Len(texts) = 0
        BY <4>1
      <4>3. QED  BY <2>3, <3>2, <4>1, <4>2
    <3>3. QED  BY <3>1, <3>2
  <2>11. OnCourse'
    BY <2>3, <2>10 DEF OnCourse, OnNext
  <2>12. Passed'
    <3>1. ASSUME n >= 1 PROVE texts[n].end_el < el
      <4>1. n \in 1 .. Len(texts)
        BY <2>9, <2>10, <3>1
      <4>2. /\ texts \in Searches /\ n \in DOMAIN texts
            /\ texts[n] \in [start_el : Els, start_off : Nat, end_el : Els, end_off : Nat]
        BY <2>3, <4>1, FoundAreHits
      <4>3. texts[n].end_el = texts[n].start_el /\ texts[n].start_el \in Nat
        BY <4>2, BookAssumption DEF Within
      <4>4. QED  BY <2>9, <2>10, <3>1, <4>3
    <3>2. QED  BY <2>7, <2>8, <2>10, <3>1 DEF Passed
  <2>13. AtText'
    BY <2>7, <2>8 DEF AtText, InContent
  <2>14. /\ bounds' = NoBounds /\ HitsOpen'
         /\ spans'.left \in Int /\ spans'.left <= MaxSpans
         /\ (texts = <<>> \/ texts \in Searches)'
    BY <2>2, <2>3, <2>8, <2>10 DEF HitsOpen
  <2>15. Unspanned'
    BY <2>8, <2>11, <2>12, <2>13, <2>14 DEF Unspanned
  <2>16. QED  BY <2>2, <2>14, <2>15 DEF TextInv
<1>4. QED  BY <1>1, <1>2, <1>3 DEF make_reader_file

\* What is known of the text and its hits before the first span.
LEMMA Texts ==
  ASSUME Within, StartEls = {}, NEW last \in [Els -> Els], Numbered(last)
  PROVE  Spec => [](IInv /\ InOrder(last) /\ TextInv)
<1>1. Init => InOrder(last) /\ TextInv
  <2>1. Init => InOrder(last)
    BY DEF Init, InOrder
  <2>2. ASSUME Init PROVE TextInv
    <3>1. /\ page = "begin" /\ texts = <<>> /\ spans.left = MaxSpans /\ bounds = NoBounds
          /\ open_hits = 0 /\ done = 0 /\ hit.start_el = 0
      BY <2>2 DEF Init, NoHit
    <3>2. QED  BY <3>1, BoundsAssumption DEF TextInv
  <2>3. QED  BY <2>1, <2>2
<1>2. IInv /\ IInv' /\ InOrder(last) /\ TextInv /\ [Next]_vars => InOrder(last)' /\ TextInv'
  <2>1. SUFFICES ASSUME IInv, IInv', InOrder(last), TextInv, [Next]_vars
                 PROVE  InOrder(last)' /\ TextInv'
    OBVIOUS
  <2>2. InOrder(last)'
    BY <2>1, NextInOrder
  <2>3. CASE UNCHANGED vars
    <3>1. UNCHANGED <<page, stack, ret, bounds, hide, in_search, texts, done, hit, spans,
                      begun, upto, open_hits, told_to_stop>>
      BY <2>3 DEF vars, cursor, budget
    <3>2. TextInv'
      BY <2>1, <3>1 DEF TextInv, NoSpanYet, Unspanned, OnCourse, OnNext, Formats, Passed,
         AtText, InContent, HitsOpen, HitIsOpen, EndsCurrent, Prev, Top
    <3>3. QED  BY <2>2, <3>2
  <2>4. CASE output_element
    BY <2>1, <2>2, <2>4, TextElement
  <2>5. CASE output_content
    BY <2>1, <2>2, <2>5, TextOutput
  <2>6. CASE span \/ make_reader_file
    BY <2>1, <2>2, <2>6, TextSpan, TextPage
  <2>7. QED  BY <2>1, <2>3, <2>4, <2>5, <2>6 DEF Next
<1>3. QED  BY <1>1, <1>2, Invariance, PTL DEF Spec

\* If each hit lies within one text and nothing hides (no procedure sets hide to
\* 1) or jumps (none sets startEl), each hit that is begun is ended in its text:
\* output_content never ends the last one again.
THEOREM HitsArePaired ==
  Within /\ StartEls = {} /\ Hides \subseteq {0, 2} => (Spec => []HitsPaired)
<1>1. SUFFICES ASSUME Within, StartEls = {}, Hides \subseteq {0, 2}
               PROVE  Spec => []HitsPaired
  OBVIOUS
<1>2. PICK last \in [Els -> Els] : Numbered(last)
  BY BookAssumption
<1>3. TextInv => HitsPaired
  <2>1. SUFFICES ASSUME TextInv, NoSpanYet, page = "output", ~told_to_stop
                 PROVE  open_hits = IF At("content", "found") \/ At("content", "ends")
                                    THEN 1 ELSE 0
    BY DEF HitsPaired
  <2>2. HitsOpen
    BY <2>1 DEF TextInv, Unspanned
  <2>3. stack # <<>> /\ HitIsOpen <=> At("content", "found") \/ At("content", "ends")
    BY <2>1 DEF HitIsOpen, InContent, At
  <2>4. QED  BY <1>1, <2>2, <2>3 DEF HitsOpen
<1>4. Spec => [](IInv /\ InOrder(last) /\ TextInv)
  BY <1>1, <1>2, Texts
<1>5. QED  BY <1>3, <1>4, PTL

\* If the hits of a text come one after the other in it, and nothing jumps, the
\* text is written once, from its first character to its last, or not at all:
\* before, in and after its hits, in whatever order their procedures fail.
THEOREM TextIsComplete ==
  Within /\ HitsInOrder /\ StartEls = {} => (Spec => []TextComplete)
<1>1. SUFFICES ASSUME Within, HitsInOrder, StartEls = {} PROVE Spec => []TextComplete
  OBVIOUS
<1>2. PICK last \in [Els -> Els] : Numbered(last)
  BY BookAssumption
<1>3. IInv /\ TextInv => TextComplete
  <2>1. SUFFICES ASSUME IInv, TextInv, At("element", "content"), Kind[Top.el] = "PCDATA",
                        ret = 1, NoSpanYet
                 PROVE  upto \in {0, TextLen[Top.el]}
    BY DEF TextComplete
  <2>2. /\ page = "output" /\ stack # <<>> /\ Top.fn = "element" /\ Top.at = "content"
        /\ told_to_stop => Stops(Top, ret)
    BY <2>1, AtIs
  <2>3. ~told_to_stop
    BY <2>1, <2>2 DEF Stops
  <2>4. AtText
    BY <2>1, <2>2, <2>3 DEF TextInv, Unspanned
  <2>5. QED  BY <1>1, <2>1, <2>2, <2>4 DEF AtText
<1>4. Spec => [](IInv /\ InOrder(last) /\ TextInv)
  BY <1>1, <1>2, Texts
<1>5. QED  BY <1>3, <1>4, PTL
=============================================================================
