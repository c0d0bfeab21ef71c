------------------------------ MODULE EntryBags ------------------------------
(***************************************************************************)
(* The entries of an interval tree (schedulers/src/time/interval_tree.rs)  *)
(* as a bag: entries[t][p] tells how often task t is entered with period   *)
(* p.                                                                      *)
(***************************************************************************)
EXTENDS Periods

CONSTANTS
    Tasks,        \* task ids
    Instants      \* the ticks of the horizon, from its start

ASSUME InstantsAreTicks == Instants \subseteq Nat

Slots == PeriodsOver(Instants)

NoEntries == [t \in Tasks |-> [p \in Slots |-> 0]]

WithEntry(entries, t, p) == [entries EXCEPT ![t][p] = @ + 1]

EarliestEntry(entries, t) ==
    CHOOSE p \in Slots :
        /\ entries[t][p] > 0
        /\ \A q \in Slots : entries[t][q] > 0 => p.start <= q.start

(* One entry of the task goes, the earliest, if there is one. *)
WithoutEntry(entries, t) ==
    IF \A p \in Slots : entries[t][p] = 0 THEN entries
    ELSE [entries EXCEPT ![t][EarliestEntry(entries, t)] = @ - 1]
=============================================================================
