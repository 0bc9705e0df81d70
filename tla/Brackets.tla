------------------------------ MODULE Brackets -------------------------------
(***************************************************************************)
(* Which start mark and which end mark in a file belong together, stated   *)
(* for the numbers S of the lines with a start and E of those with an end. *)
(* The parsers of extract/ find it with a stack, line by line; here it is  *)
(* said without one.                                                       *)
(***************************************************************************)
EXTENDS Integers, FiniteSets

(* Starts without ends up to line k, negative if there are ends too many.  *)
Balance(S, E, k) ==
    Cardinality({i \in S : i <= k}) - Cardinality({i \in E : i <= k})

(* What lies between the start i and the end j is balanced and never       *)
(* closes more than it opens.                                              *)
Matched(S, E, i, j) ==
    /\ i \in S /\ j \in E /\ i < j
    /\ Balance(S, E, j - 1) = Balance(S, E, i)
    /\ \A k \in i .. j - 1 : Balance(S, E, i) <= Balance(S, E, k)

(* The ends that belong to a start, and the start they belong to.          *)
MatchedEnds(S, E) == {j \in E : \E i \in S : Matched(S, E, i, j)}
MatchOf(S, E, j)  == CHOOSE i \in S : Matched(S, E, i, j)

(* The starts up to line k whose end has not come by then, and the one     *)
(* closest to it.                                                          *)
OpenAt(S, E, k) == {i \in S : i <= k /\ \A j \in E : j <= k => ~Matched(S, E, i, j)}
Innermost(S, E, i, k) == i \in OpenAt(S, E, k) /\ \A o \in OpenAt(S, E, k) : o <= i

(* Where the element j comes in the order of the numbers in S.             *)
Place(j, S) == Cardinality({k \in S : k <= j})
=============================================================================
