---------------------------- MODULE IntervalTree ----------------------------
(***************************************************************************)
(* The interval tree: a vector of entries sorted by their starts, with the *)
(* latest end from each position on (schedulers/src/time/                  *)
(* interval_tree.rs).  It implements a bag of entries.                     *)
(*                                                                         *)
(* Every entry of a task lasts as long as the task, which can_place sees   *)
(* to before a schedule inserts one (schedule/problem.rs:124-129).         *)
(***************************************************************************)
EXTENDS EntryBags, SequencesExt

CONSTANTS
    Lasts,        \* ticks that each task takes
    MaxEntries    \* bound: entries of the tree

ASSUME IntervalTreeConstants == Lasts \in [Tasks -> Nat] /\ MaxEntries \in Nat

VARIABLES
    entries,      \* [start, end, task], sorted by start
    held          \* the bag of the entries that were inserted and not removed

treeVars == <<entries, held>>

TreeInit == entries = <<>> /\ held = NoEntries

(* The number of entries that start before a bound: partition_point. *)
PartitionPoint(bound) == Cardinality({i \in DOMAIN entries : entries[i].start < bound})

(* A new entry goes before those that start with it. *)
InsertEntry(t, p) ==
    /\ Len(entries) < MaxEntries
    /\ entries' = InsertAt(entries, 1 + PartitionPoint(p.start),
                           [start |-> p.start, end |-> p.end, task |-> t])
    /\ held' = WithEntry(held, t, p)

(* The first entry of the task goes, if there is one. *)
RemoveEntry(t) ==
    /\ entries' = RemoveFirstMatch(entries, LAMBDA e : e.task = t)
    /\ held' = WithoutEntry(held, t)

SuffixMaxEnd(i) == Max({entries[j].end : j \in i .. Len(entries)})

(* Faulty: the scan ends at the first entry that lies before the query. *)
TreeQuery_StopsEarly(q) ==
    {entries[i].task : i \in
        {i \in 1 .. PartitionPoint(q.end) :
            /\ \A j \in 1 .. i : entries[j].end > q.start
            /\ Overlaps(entries[i], q)}}

(* The scan stops at the first position from which every end is too early. *)
TreeQuery(q) ==
    {entries[i].task : i \in
        {i \in 1 .. PartitionPoint(q.end) :
            /\ \A j \in 1 .. i : SuffixMaxEnd(j) > q.start
            /\ Overlaps(entries[i], q)}}

TreeNext ==
    \E t \in Tasks :
        \/ \E p \in {p \in Slots : Span(p) = Lasts[t]} : InsertEntry(t, p)
        \/ RemoveEntry(t)

TreeSpec == TreeInit /\ [][TreeNext]_treeVars
-----------------------------------------------------------------------------
(* The vector holds exactly the entries of the bag, whatever was entered   *)
(* twice, removed or never there (interval_tree.rs:74-96): a removal takes *)
(* the earliest entry of its task, not the one that was meant.             *)
HoldsTheBag ==
    \A t \in Tasks, p \in Slots :
        held[t][p] = Cardinality({i \in DOMAIN entries :
            entries[i] = [start |-> p.start, end |-> p.end, task |-> t]})

(* The pruned scan misses no entry that overlaps the query, even behind    *)
(* entries that end before it, and reports no other                        *)
(* (interval_tree.rs:98-135).                                              *)
QueryIsExact ==
    \A q \in Slots :
        TreeQuery(q) = {t \in Tasks : \E p \in Slots : held[t][p] > 0 /\ Overlaps(p, q)}

(* The sorted vector with its pruned scan cannot be told from a bag of     *)
(* entries (interval_tree.rs:74-135).                                      *)
TreeIsTheBag ==
    /\ HoldsTheBag
    /\ QueryIsExact
=============================================================================
