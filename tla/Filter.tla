--------------------------------- MODULE Filter --------------------------------
(***************************************************************************)
(* Array.prototype.filter, for a test that says which set an element is    *)
(* in: what is left of a sequence, in its order.  It is SelectSeq          *)
(* (MCPages checks that), said without an operator for the test.           *)
(***************************************************************************)
EXTENDS Naturals, Sequences, FiniteSets

\* How many of the numbers of P are at most i.
Rank(P, i) == Cardinality({j \in P : j <= i})

\* Where in s the elements of S stand.
Places(s, S) == {i \in DOMAIN s : s[i] \in S}

\* The elements of s that are in S.
Among(s, S) ==
    LET P == Places(s, S)
    IN  [n \in 1..Cardinality(P) |-> s[CHOOSE i \in P : Rank(P, i) = n]]

===============================================================================
