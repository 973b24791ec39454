------------------------------- MODULE Texts -------------------------------
(* Picking positions out of sequences, and joining sequences.               *)
EXTENDS Naturals, Sequences, FiniteSets

\* The numbers of a finite set, in order.
Ordered(S) == [n \in 1..Cardinality(S) |-> CHOOSE x \in S : Cardinality({y \in S : y < x}) = n - 1]

\* The elements of s at the positions of S, in order.
AtPositions(s, S) == [n \in 1..Cardinality(S) |-> s[Ordered(S)[n]]]

Least(S) == CHOOSE x \in S : \A y \in S : x <= y
Greatest(S) == CHOOSE x \in S : \A y \in S : y <= x

\* The concatenation of a sequence of sequences.
JoinedUpTo(ss) ==
  LET upTo[n \in 0..Len(ss)] == IF n = 0 THEN << >> ELSE upTo[n - 1] \o ss[n] IN upTo
Joined(ss) == JoinedUpTo(ss)[Len(ss)]
=============================================================================
