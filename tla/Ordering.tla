------------------------------ MODULE Ordering -------------------------------
(***************************************************************************)
(* What sorting and filtering do to the members of a finite set, or to the *)
(* places of a sequence: each is put after those that come before it.      *)
(***************************************************************************)
EXTENDS Integers, Sequences, FiniteSets

Distinct(s) == \A i, j \in DOMAIN s : s[i] = s[j] => i = j

\* The members of S, each once, in the order of `before`, a set of pairs that orders S strictly.
Ordered(S, before) ==
    LET Place(x) == Cardinality({y \in S : <<y, x>> \in before}) + 1
    IN  [n \in 1..Cardinality(S) |-> CHOOSE x \in S : Place(x) = n]

\* list.sort(key, reverse=True), as places: the greatest key first; a stable sort keeps equals.
Higher(key) ==
    {p \in (DOMAIN key) \X (DOMAIN key) :
        key[p[1]] > key[p[2]] \/ (key[p[1]] = key[p[2]] /\ p[1] < p[2])}
HighestFirst(key) == Ordered(DOMAIN key, Higher(key))

\* The elements of s at the places P, as s has them.
Upwards(P) == {p \in P \X P : p[1] < p[2]}
Picked(s, P) == [n \in 1..Cardinality(P) |-> s[Ordered(P, Upwards(P))[n]]]

\* The first n elements of s, or all of it when there are fewer.
First(n, s) == [i \in 1..(IF n < Len(s) THEN n ELSE Len(s)) |-> s[i]]

==============================================================================
