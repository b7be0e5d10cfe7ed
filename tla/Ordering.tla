------------------------------ MODULE Ordering ------------------------------
(***************************************************************************)
(* Putting rows in order: the sorts (sort.Slice, ORDER BY) and filters of  *)
(* the service, given by the place each row gets.                          *)
(***************************************************************************)
EXTENDS Integers, Sequences, FiniteSets

\* Lexicographic order of sequences of numbers of one length.
Before(x, y) ==
    \E i \in DOMAIN x : x[i] < y[i] /\ \A j \in 1..(i - 1) : x[j] = y[j]

\* The elements of a set in the order of their keys, which are distinct.
InOrder(S, key) ==
    [k \in 1..Cardinality(S) |->
        CHOOSE x \in S : Cardinality({y \in S : Before(key[y], key[x])}) = k - 1]

\* What a sequence has at some of its places.
Kept(s, places) ==
    LET order == InOrder(places, [i \in places |-> <<i>>])
    IN [k \in DOMAIN order |-> s[order[k]]]

FirstOf(s, limit) == SubSeq(s, 1, IF limit < Len(s) THEN limit ELSE Len(s))
=============================================================================
