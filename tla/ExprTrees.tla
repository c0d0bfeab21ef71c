----------------------------- MODULE ExprTrees -----------------------------
(***************************************************************************)
(* Expressions that nest: leaves, and nodes over a list of parts.  What an *)
(* expression means is a recursive function on the trees of a language.    *)
(***************************************************************************)
EXTENDS Integers, Sequences

CONSTANT MaxNesting   \* how deep expressions nest; the code has no limit

ASSUME NestingIsNumber == MaxNesting \in Nat

Trees(leaves, kinds) ==
    LET upTo[h \in Nat] ==
            IF h = 0 THEN leaves
            ELSE upTo[h - 1] \cup [kind : kinds, parts : Seq(upTo[h - 1])]
    IN  upTo[MaxNesting]
=============================================================================
