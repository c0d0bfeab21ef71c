--------------------------- MODULE CompletionExpr ---------------------------
(***************************************************************************)
(* The completion expression of a scheduling block: which sets of placed   *)
(* tasks complete it, and its expansion into alternatives                  *)
(* (schedulers/src/scheduling_block/completion.rs).                        *)
(***************************************************************************)
EXTENDS ExprTrees, SequencesExt

CONSTANTS
    MaxDnfBranches,   \* MAX_DNF_BRANCHES: 1024 in the code
    TooLarge,         \* the expansion is given up
    NoExpression      \* the block has no completion expression

ASSUME DnfConstants == MaxDnfBranches \in Nat \ {0}
ASSUME TooLargeIsNoList == TooLarge \notin Seq(SUBSET Nat)

Leaf(t) == [kind |-> "leaf", task |-> t]
And(parts) == [kind |-> "and", parts |-> parts]
Or(parts) == [kind |-> "or", parts |-> parts]

CompletionExprs == Trees([kind : {"leaf"}, task : Nat], {"and", "or"})

IsSatisfiedBy(e, placed) ==
    LET holds[x \in CompletionExprs] ==
            CASE x.kind = "leaf" -> x.task \in placed
              [] x.kind = "and"  -> \A i \in DOMAIN x.parts : holds[x.parts[i]]
              [] OTHER           -> \E i \in DOMAIN x.parts : holds[x.parts[i]]
    IN  holds[e]

ReferencedTasks(e) ==
    LET tasks[x \in CompletionExprs] ==
            IF x.kind = "leaf" THEN {x.task}
            ELSE UNION {tasks[x.parts[i]] : i \in DOMAIN x.parts}
    IN  tasks[e]

(* Each branch of a with each branch of b, in order. *)
Products(a, b) ==
    [n \in 1 .. Len(a) * Len(b) |->
        a[1 + ((n - 1) \div Len(b))] \cup b[1 + ((n - 1) % Len(b))]]

(* One more alternative of an Or. Too many branches end the expansion.     *)
OrStep(acc, branches) ==
    IF acc = TooLarge \/ branches = TooLarge THEN TooLarge
    ELSE IF Len(acc) + Len(branches) > MaxDnfBranches THEN TooLarge
    ELSE acc \o branches

(* Faulty: a child without branches leaves the others as they are. *)
AndStep_SkipsEmpty(acc, branches) ==
    IF acc = TooLarge \/ branches = TooLarge THEN TooLarge
    ELSE IF branches = <<>> THEN acc
    ELSE IF Len(acc) * Len(branches) > MaxDnfBranches THEN TooLarge
    ELSE Products(acc, branches)

(* One more child of an And. An unsatisfiable child ends the expansion, so *)
(* that the children after it are not looked at.                           *)
AndStep(acc, branches) ==
    IF acc = TooLarge \/ acc = <<>> THEN acc
    ELSE IF branches = TooLarge THEN TooLarge
    ELSE IF Len(acc) * Len(branches) > MaxDnfBranches THEN TooLarge
    ELSE Products(acc, branches)

DnfCollect(e) ==
    LET collect[x \in CompletionExprs] ==
            CASE x.kind = "leaf" -> <<{x.task}>>
              [] x.kind = "and"  ->
                    FoldLeft(AndStep, <<{}>>, [i \in DOMAIN x.parts |-> collect[x.parts[i]]])
              [] OTHER           ->
                    FoldLeft(OrStep, <<>>, [i \in DOMAIN x.parts |-> collect[x.parts[i]]])
    IN  collect[e]

(* The distinct branches, or TooLarge. Their order is not represented. *)
DnfBranches(e) ==
    LET raw == DnfCollect(e) IN IF raw = TooLarge THEN TooLarge ELSE ToSet(raw)

(* The number of branches of the full expansion, however large. *)
Expansion(e) ==
    LET size[x \in CompletionExprs] ==
            CASE x.kind = "leaf" -> 1
              [] x.kind = "and"  ->
                    FoldLeft(LAMBDA n, m : n * m, 1, [i \in DOMAIN x.parts |-> size[x.parts[i]]])
              [] OTHER           ->
                    FoldLeft(LAMBDA n, m : n + m, 0, [i \in DOMAIN x.parts |-> size[x.parts[i]]])
    IN  size[e]

(* An expression with all of its parts. *)
Subexpressions(e) ==
    LET parts[x \in CompletionExprs] ==
            {x} \cup IF x.kind = "leaf" THEN {}
                     ELSE UNION {parts[x.parts[i]] : i \in DOMAIN x.parts}
    IN  parts[e]

-----------------------------------------------------------------------------
(* A block with its tasks, in input order, and an optional expression.     *)

(* Every leaf of an expression has to be a task of the block.              *)
Accepted(e, tasks) == ReferencedTasks(e) \subseteq ToSet(tasks)

CompletionBranches(e, tasks) ==
    IF e = NoExpression THEN {ToSet(tasks)} ELSE DnfBranches(e)

IsComplete(e, tasks, placed) ==
    IF e = NoExpression THEN ToSet(tasks) \subseteq placed ELSE IsSatisfiedBy(e, placed)

(* Some branch has windows for all of its tasks; without any branch, or    *)
(* with too many, every task of the block has to have one.                 *)
CountsAsSchedulable(e, tasks, withWindow) ==
    LET branches == CompletionBranches(e, tasks) IN
    IF branches \in {TooLarge, {}} THEN ToSet(tasks) \subseteq withWindow
    ELSE \E branch \in branches : branch \subseteq withWindow
=============================================================================
