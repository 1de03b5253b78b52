-------------------------------- MODULE Ranking --------------------------------
(***************************************************************************)
(* What the code takes from Python and pandas to put rows in order and to  *)
(* choose among them: sorted(), sort_values() and comprehensions with an   *)
(* if.  An element is found by its rank, the number of those before it, so *)
(* that these operators need no recursion and can be reasoned about.       *)
(* Equal elements keep the order they had.  sort_values() promises that    *)
(* only with kind="stable" (result_transforms.py:326, but not 316 and 320, *)
(* where its ties are left open); no property depends on ties.             *)
(***************************************************************************)
EXTENDS Integers, SequencesExt

\* The element of S with n elements of S before it, R being the pairs in order.
AtRank(S, R, n) == CHOOSE x \in S : Cardinality({y \in S : <<y, x>> \in R}) = n

\* The elements of s at the places S, in the order R of these places.
Arranged(s, S, R) == [k \in 1..Cardinality(S) |-> s[AtRank(S, R, k - 1)]]

\* [x for x in s if Test(x)].
Earlier(S) == {p \in S \X S : p[1] < p[2]}
Where(s, Test(_)) ==
    LET S == {i \in DOMAIN s : Test(s[i])} IN Arranged(s, S, Earlier(S))

\* sorted(s), by an order in which elements may be equal.
Ordered(s, Less(_, _)) ==
    LET S == DOMAIN s
        before == {p \in S \X S : \/ Less(s[p[1]], s[p[2]])
                                  \/ p[1] < p[2] /\ ~Less(s[p[2]], s[p[1]])}
    IN  Arranged(s, S, before)
=============================================================================
