-------------------------------- MODULE Lists --------------------------------
(* What the collections of the standard library do to a list, in a form that *)
(* can be reasoned about.                                                    *)
EXTENDS Integers, Sequences, FiniteSets

\* What stands at some places of a list, in its order: the k-th place is the one up to which there are k.
Chosen(s, places) ==
  LET rank(i) == Cardinality({j \in places : j <= i})
  IN  [k \in 1..Cardinality(places) |-> s[CHOOSE i \in places : rank(i) = k]]
\* retain and shift_remove: the elements outside S.
Retained(s, S) == Chosen(s, {i \in DOMAIN s : s[i] \notin S})

\* The elements of a set along a strict order R: the k-th has k - 1 before it.
Along(S, R) ==
  LET place(x) == Cardinality({y \in S : <<y, x>> \in R \/ y = x})
  IN  [k \in 1..Cardinality(S) |-> CHOOSE x \in S : place(x) = k]
\* A stable sort: by the rank of what stands at a place, then by place.
SortedBy(s, rank) ==
  LET order == Along(DOMAIN s, {p \in (DOMAIN s) \X (DOMAIN s) :
                 rank[p[1]] < rank[p[2]] \/ (rank[p[1]] = rank[p[2]] /\ p[1] < p[2])})
  IN  [k \in DOMAIN order |-> s[order[k]]]
Ascending(s) == SortedBy(s, s)
\* iter().sum() of numbers
Total(s) ==
  LET upto[k \in 0..Len(s)] == IF k = 0 THEN 0 ELSE upto[k - 1] + s[k]
  IN  upto[Len(s)]
=============================================================================
