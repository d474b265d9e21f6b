---------------------------- MODULE Subsequences ----------------------------
(***************************************************************************)
(* The part of a sequence at some of its places, in order, and the         *)
(* elements of a set in order: SelectSeq and SetToSortSeq with the places  *)
(* and the order as sets and not as operators, so that what they yield can *)
(* be reasoned about.                                                      *)
(***************************************************************************)
EXTENDS Integers, Sequences, FiniteSets

\* The numbers of I among 1 .. n, in order.
Places(n, I) ==
    LET places[k \in 0 .. n] ==
            IF k = 0 THEN <<>>
            ELSE IF k \in I THEN Append(places[k - 1], k) ELSE places[k - 1]
    IN places[n]

Part(s, I) ==
    LET places == Places(Len(s), I) IN [k \in 1 .. Len(places) |-> s[places[k]]]

\* The elements of S, each at the place that follows from how many are before it.
Sorted(S, before) ==
    [n \in 1 .. Cardinality(S) |-> CHOOSE x \in S : Cardinality(before[x]) = n - 1]

Ascending(S) == Sorted(S, [k \in S |-> {j \in S : j < k}])

=============================================================================
