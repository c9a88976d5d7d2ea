----------------------------- MODULE MCHashLilo -----------------------------
EXTENDS HashLilo, TLC

\* A small book: 0 contains 1 and 4; 1 contains 2 and 3; 4 contains 5.  There
\* is no room for 0 and 4 together, and 5 is too large on its own.
BookAncestor == [e \in 0 .. 5 |-> CASE e \in {0, 1, 4} -> 0
                                    [] e \in {2, 3} -> 1
                                    [] e = 5 -> 4]
BookCharge == [e \in 0 .. 5 |-> CASE e = 3 -> 2
                                  [] e = 4 -> 4
                                  [] e = 5 -> 5
                                  [] OTHER -> 1]
Numbers == 0 .. 5

\* A smaller one: 0 contains 1, and 1 contains 2, which is too large.  There is
\* no room for 0 and 1 together.
ShortAncestor == [e \in 0 .. 2 |-> IF e = 2 THEN 1 ELSE 0]
ShortCharge == [e \in 0 .. 2 |-> e + 1]
ShortNumbers == 0 .. 2

SomeJunk == {-1, 0}
CellSymmetry == Permutations(Cells)
=============================================================================
