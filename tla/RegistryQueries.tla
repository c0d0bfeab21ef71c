-------------------------- MODULE RegistryQueries --------------------------
(***************************************************************************)
(* Reading the registry: listing and ranking runs, their Pareto front, and *)
(* the export of schedules to a directory (lab/src/registry/query.rs,      *)
(* crud/read.rs; lab/src/cli/registry/scoring.rs, crud/read.rs).           *)
(*                                                                         *)
(* A run is a record of its key, a number; of what its file is named after *)
(* (base: dataset, algorithm and slug); of its metrics, each a number or   *)
(* unknown; and of whether its artifact can be put together.  A directory  *)
(* is a set of [name, run].  The names of two bases differ if the bases do:*)
(* datasets and slugs with "__" in them are left out.                      *)
(***************************************************************************)
EXTENDS Integers, SortedSets

CONSTANTS
    Unknown,   \* SQL NULL, and a metric that is not there
    KeyTails   \* how many keys start with the same 8 characters

ASSUME UnknownIsNoNumber == Unknown \notin Int
ASSUME SomeTails == KeyTails \in Nat \ {0}

Ascending == {"fragmentation_index", "runtime_ms"}
SortKey(metric) == [metric |-> metric, desc |-> metric \notin Ascending]
default_sort_keys ==
    <<SortKey("priority_ratio"), SortKey("task_ratio"), SortKey("priority_density"),
      SortKey("runtime_ms")>>

(* ORDER BY: SQLite puts NULL before every number. *)
SqlLess(u, v) == IF u = Unknown THEN v # Unknown ELSE v # Unknown /\ u < v
KeyLess(k, a, b) ==
    IF k.desc THEN SqlLess(b.metrics[k.metric], a.metrics[k.metric])
    ELSE SqlLess(a.metrics[k.metric], b.metrics[k.metric])

sort_expr(keys, a, b) ==
    LET differ == {i \in DOMAIN keys : KeyLess(keys[i], a, b) \/ KeyLess(keys[i], b, a)} IN
    IF differ = {} THEN a.key < b.key
    ELSE KeyLess(keys[CHOOSE i \in differ : \A j \in differ : i <= j], a, b)

Take(n, list) == IF Len(list) <= n THEN list ELSE SubSeq(list, 1, n)

(* A comparison with NULL is not true. *)
Within(o, r) ==
    \/ o.metric = Unknown
    \/ LET v == r.metrics[o.metric] IN
       /\ o.min # Unknown => v # Unknown /\ v >= o.min
       /\ o.max # Unknown => v # Unknown /\ v <= o.max

Selected(rows, o) ==
    {r \in rows : (o.dataset = Unknown \/ r.base[1] = o.dataset) /\ Within(o, r)}

list(rows, o) ==
    LET keys == IF o.sort = <<>> THEN default_sort_keys ELSE o.sort IN
    Take(o.limit, SortedBy(LAMBDA a, b : sort_expr(keys, a, b), Selected(rows, o)))

Everything == [dataset |-> Unknown, metric |-> Unknown, min |-> Unknown, max |-> Unknown,
               sort |-> <<>>, limit |-> 100]
-----------------------------------------------------------------------------
(* What an unknown metric counts for in a score. *)
metric_value(r, metric) == IF r.metrics[metric] = Unknown THEN 0 ELSE r.metrics[metric]

Objective(metric, maximize) == [metric |-> metric, maximize |-> maximize]
default_objectives ==
    {Objective("priority_ratio", TRUE), Objective("task_ratio", TRUE),
     Objective("priority_density", TRUE), Objective("runtime_ms", FALSE)}

Beats(a, b, o) ==
    IF o.maximize THEN metric_value(a, o.metric) > metric_value(b, o.metric)
    ELSE metric_value(a, o.metric) < metric_value(b, o.metric)

(* Faulty: being as good everywhere is enough. *)
dominates_Weakly(a, b, objectives) == \A o \in objectives : ~ Beats(b, a, o)

dominates(a, b, objectives) ==
    /\ \A o \in objectives : ~ Beats(b, a, o)
    /\ \E o \in objectives : Beats(a, b, o)

pareto(rows, objectives) ==
    {r \in rows : ~ \E other \in rows : other.key # r.key /\ dominates(other, r, objectives)}

compare_rows_by_default_policy(a, b) ==
    LET better(m) == metric_value(a, m) > metric_value(b, m)
        equal(m) == metric_value(a, m) = metric_value(b, m)
    IN  \/ better("priority_ratio")
        \/ equal("priority_ratio") /\ better("task_ratio")
        \/ equal("priority_ratio") /\ equal("task_ratio") /\ better("priority_density")
        \/ /\ equal("priority_ratio") /\ equal("task_ratio") /\ equal("priority_density")
           /\ \/ metric_value(a, "runtime_ms") < metric_value(b, "runtime_ms")
              \/ equal("runtime_ms") /\ a.key < b.key

Score(r, weights) ==
    MapThenSumSet(LAMBDA m : metric_value(r, m) * weights[m], DOMAIN weights)

rank(rows, weights) ==
    LET before(a, b) == \/ Score(a, weights) > Score(b, weights)
                        \/ Score(a, weights) = Score(b, weights) /\ a.key < b.key
    IN  SortedBy(before, rows)
-----------------------------------------------------------------------------
(* The export to a directory.  A run is written under its base name, or,   *)
(* once another run of this export has that name, with the first 8         *)
(* characters of its key added, which other keys may share.                *)
KeyPrefix(key) == key \div KeyTails
Named(dir, name) == {e \in dir : e.name = name}
Write(dir, name, r, force) ==
    IF Named(dir, name) # {} /\ ~ force THEN dir
    ELSE (dir \ Named(dir, name)) \cup {[name |-> name, run |-> r.key]}

ExportRun(r, force, state) ==
    IF ~ r.exportable THEN state
    ELSE LET name == IF r.base \in state.used THEN Append(r.base, KeyPrefix(r.key)) ELSE r.base IN
         [used |-> state.used \cup {name, r.base}, dir |-> Write(state.dir, name, r, force)]

export(rows, o, force, dir) ==
    FoldLeft(LAMBDA s, r : ExportRun(r, force, s), [used |-> {}, dir |-> dir], list(rows, o)).dir
=============================================================================
