---------------------------- MODULE Prescheduler ----------------------------
(***************************************************************************)
(* The pass that computes the feasible windows of every task               *)
(* (schedulers/src/prescheduler/mod.rs): tasks are evaluated in parallel   *)
(* and share a memo of dynamic results, read under one lock and written    *)
(* under another.                                                          *)
(*                                                                         *)
(* What the constraints of a task allow is an input: the windows left by   *)
(* the telescope and the static constraints (candidate), and what the      *)
(* dynamic ones allow inside them (dynamic).                               *)
(***************************************************************************)
EXTENDS Integers, FiniteSets

CONSTANTS
    Items,          \* the tasks, numbered in the order of the problem
    Windows,        \* possible windows
    DynamicKeys,    \* signature and rounded target of dynamic constraints
    NoDynamic,      \* the task has no dynamic constraints
    Error,          \* a check returned an error
    Pending,        \* no result yet
    Evaluations     \* inputs: [telescope, key, candidate, dynamic]

Outcomes == (SUBSET Windows) \cup {Error}

ASSUME PreschedulerConstants ==
    /\ Items \subseteq Nat /\ IsFiniteSet(Items)
    /\ NoDynamic \notin DynamicKeys
    /\ Evaluations \subseteq
         [telescope : Outcomes,
          key       : [Items -> DynamicKeys \cup {NoDynamic}],
          candidate : [Items -> Outcomes],
          dynamic   : [Items -> Outcomes]]

VARIABLES
    eval,       \* the problem at hand
    memo,       \* the shared cache: entries [key, candidate, windows]
    computing,  \* the tasks past their lookup, not yet at their insert
    got,        \* the windows or the error of each task, or Pending
    answer      \* the result of the run

preschedulerVars == <<eval, memo, computing, got, answer>>

PreschedulerInit ==
    /\ eval \in Evaluations
    /\ memo = {} /\ computing = {}
    /\ got = [t \in Items |-> Pending]
    /\ answer = Pending

(* The telescope is judged first, once. *)
JudgeTelescope ==
    /\ answer = Pending
    /\ eval.telescope \in {Error, {}}
    /\ answer' = IF eval.telescope = Error THEN [failed |-> 0]
                 ELSE [windows |-> [t \in Items |-> {}]]
    /\ UNCHANGED <<eval, memo, computing, got>>

Evaluating == answer = Pending /\ eval.telescope \notin {Error, {}}

SameKey(t, e) == e.key = eval.key[t] /\ e.candidate = eval.candidate[t]

(* The static check, and the memo under its lock. *)
Lookup(t) ==
    /\ Evaluating
    /\ got[t] = Pending /\ t \notin computing
    /\ \/ /\ eval.candidate[t] \in {Error, {}} \/ eval.key[t] = NoDynamic
          /\ got' = [got EXCEPT ![t] = eval.candidate[t]]
          /\ UNCHANGED computing
       \/ /\ eval.candidate[t] \notin {Error, {}} /\ eval.key[t] # NoDynamic
          /\ \/ \E e \in memo :
                  /\ SameKey(t, e)
                  /\ got' = [got EXCEPT ![t] = e.windows]
                  /\ UNCHANGED computing
             \/ /\ \A e \in memo : ~ SameKey(t, e)
                /\ computing' = computing \cup {t}
                /\ UNCHANGED got
    /\ UNCHANGED <<eval, memo, answer>>

Entry(t) == [key |-> eval.key[t], candidate |-> eval.candidate[t],
             windows |-> eval.dynamic[t]]

(* Faulty: an error is kept for the tasks that follow. *)
Insert_KeepsErrors(t) ==
    /\ t \in computing
    /\ computing' = computing \ {t}
    /\ got' = [got EXCEPT ![t] = eval.dynamic[t]]
    /\ memo' = {e \in memo : ~ SameKey(t, e)} \cup {Entry(t)}
    /\ UNCHANGED <<eval, answer>>

(* The computed windows replace what another task may have inserted since. *)
(* An error is not kept.                                                   *)
Insert(t) ==
    /\ t \in computing
    /\ computing' = computing \ {t}
    /\ got' = [got EXCEPT ![t] = eval.dynamic[t]]
    /\ memo' = IF eval.dynamic[t] = Error THEN memo
               ELSE {e \in memo : ~ SameKey(t, e)} \cup {Entry(t)}
    /\ UNCHANGED <<eval, answer>>

(* Faulty: a task with an error is left out of the answer. *)
Collected_SkipsErrors ==
    [windows |-> [t \in Items |-> IF got[t] = Error THEN {} ELSE got[t]]]

(* The results are read in the order of the problem: its first error wins. *)
Collected ==
    IF \E t \in Items : got[t] = Error
      THEN [failed |-> CHOOSE t \in Items :
                          got[t] = Error /\ \A u \in Items : got[u] = Error => t <= u]
      ELSE [windows |-> got]

Collect ==
    /\ Evaluating
    /\ \A t \in Items : got[t] # Pending
    /\ answer' = Collected
    /\ UNCHANGED <<eval, memo, computing, got>>

PreschedulerNext ==
    JudgeTelescope \/ Collect \/ \E t \in Items : Lookup(t) \/ Insert(t)

PreschedulerSpec == PreschedulerInit /\ [][PreschedulerNext]_preschedulerVars
-----------------------------------------------------------------------------
(* The key of the memo determines the result: no two tasks with the same   *)
(* rounded target and the same candidates have different windows.          *)
KeysDecide ==
    \A t, u \in Items :
        (eval.key[t] = eval.key[u] /\ eval.candidate[t] = eval.candidate[u])
            => eval.dynamic[t] = eval.dynamic[u]

(* What the constraints of a task allow. *)
Own(t) ==
    IF eval.candidate[t] \in {Error, {}} \/ eval.key[t] = NoDynamic
      THEN eval.candidate[t] ELSE eval.dynamic[t]

(* The answer of a run that evaluates one task after the other, with no    *)
(* memo.                                                                   *)
Sequential ==
    IF eval.telescope = Error THEN [failed |-> 0]
    ELSE IF eval.telescope = {} THEN [windows |-> [t \in Items |-> {}]]
    ELSE IF \E t \in Items : Own(t) = Error
      THEN [failed |-> CHOOSE t \in Items :
                          Own(t) = Error /\ \A u \in Items : Own(u) = Error => t <= u]
      ELSE [windows |-> [t \in Items |-> Own(t)]]

PreschedulerTypeOK ==
    /\ eval \in Evaluations
    /\ memo \subseteq [key : DynamicKeys, candidate : SUBSET Windows, windows : Outcomes]
    /\ \A e \in memo : e.windows # Error
    /\ computing \subseteq Items
    /\ got \in [Items -> Outcomes \cup {Pending}]

(* However the tasks interleave, the run answers what a sequential run     *)
(* without a memo would, its error included (prescheduler/mod.rs:52-85,    *)
(* 172-196).                                                               *)
AnswerIsSequential == KeysDecide /\ answer # Pending => answer = Sequential

(* When the key does not decide, a task may get the windows of another,    *)
(* but only of one with the same key, and the windows still lie in what    *)
(* its own dynamic check would have been asked about.                      *)
WindowsOfSameKey ==
    \A t \in Items :
        got[t] \notin {Pending, Own(t)} =>
            \E u \in Items :
                /\ eval.key[u] = eval.key[t] /\ eval.candidate[u] = eval.candidate[t]
                /\ got[t] = Own(u)

(* The memo that parallel tasks share changes no answer that its key       *)
(* decides, and no other beyond its key (prescheduler/mod.rs:52-85).       *)
MemoIsTransparent ==
    /\ AnswerIsSequential
    /\ WindowsOfSameKey
=============================================================================
