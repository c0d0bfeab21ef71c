----------------------------- MODULE SortedSets -----------------------------
(***************************************************************************)
(* Sets and lists in an order.                                             *)
(***************************************************************************)
EXTENDS SequencesExt

(* The elements of a set, in an order that tells any two of them apart:    *)
(* the one in place n has n - 1 before it.                                 *)
SortedBy(before(_, _), S) ==
    [n \in 1 .. Cardinality(S) |->
        CHOOSE x \in S : Cardinality({y \in S : before(y, x)}) = n - 1]

(* A list in an order that may tie: what ties stays as it was.             *)
StablySorted(before(_, _), list) ==
    LET order == SortedBy(LAMBDA i, j : \/ before(list[i], list[j])
                                        \/ ~ before(list[j], list[i]) /\ i < j,
                          DOMAIN list)
    IN  [n \in DOMAIN list |-> list[order[n]]]
=============================================================================
