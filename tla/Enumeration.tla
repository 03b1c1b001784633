----------------------------- MODULE Enumeration -----------------------------
(***************************************************************************)
(* Numbers listed in their order, and the sequences that Go code makes by  *)
(* going through a slice and keeping some of its elements, adding up, or   *)
(* sorting.                                                                *)
(***************************************************************************)
EXTENDS Integers, Sequences, FiniteSets

(* The elements of a finite set of numbers, smallest first *)
Smaller(S, x) == {y \in S : y < x}
Increasing(S) ==
    [k \in 1 .. Cardinality(S) |-> CHOOSE x \in S : Cardinality(Smaller(S, x)) = k - 1]

(* The indices of the elements of a sequence that pass a test, and the     *)
(* sequence of these elements                                              *)
Positions(s, Test(_)) == Increasing({i \in DOMAIN s : Test(s[i])})
Where(s, Test(_)) ==
    LET p == Positions(s, Test) IN [k \in DOMAIN p |-> s[p[k]]]

(* The total of a sequence of numbers, and of its beginnings *)
RunningTotal(s) == LET sum[n \in 0 .. Len(s)] == IF n = 0 THEN 0 ELSE sum[n - 1] + s[n] IN sum
TotalOf(s) == RunningTotal(s)[Len(s)]

(* A sequence sorted by an order that may leave elements undecided: those  *)
(* come in some order, as sort.Slice leaves them.                          *)
Permutes(p, S) == p \in [S -> S] /\ \A i, j \in S : p[i] = p[j] => i = j
Arranged(s, Before(_, _)) ==
    LET p == CHOOSE q \in [DOMAIN s -> DOMAIN s] :
                /\ Permutes(q, DOMAIN s)
                /\ \A i, j \in DOMAIN s : i < j => ~Before(s[q[j]], s[q[i]])
    IN  [i \in DOMAIN s |-> s[p[i]]]

=============================================================================
