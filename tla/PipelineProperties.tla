------------------------- MODULE PipelineProperties -------------------------
(***************************************************************************)
(* What holds of the steps before and after the runs of a sweep, for the   *)
(* inputs of a sample:                                                     *)
(*   layout:   a horizon;                                                  *)
(*   sweep:    an experiment specification;                                *)
(*   registry: the rows of a registry before and after a further sweep;    *)
(*   views:    what arrives at a workspace, first the schedule of a run.   *)
(*                                                                         *)
(* And the pipeline put together: the laboratory that fills a registry of  *)
(* runs, and the publications that take what it wrote to a workspace.      *)
(* Publishers read files that the laboratory is done with, so the two      *)
(* share no state and their steps interleave freely.                       *)
(***************************************************************************)
EXTENDS SweepExpansion, RegistryQueries, WorkspaceViews, LabProperties, Publication

VARIABLE sample

About(kind) == sample.about = kind

Ticks(cfg) == cfg.lo.at .. (cfg.hi.at - 1)
Fixed(l) == \A c \in DOMAIN l : {l[c].lo.follows, l[c].hi.follows} = {NoCursor}

(* Every layout covers the horizon, and the territories of a fixed one do  *)
(* not overlap; a cursor that follows another reaches the horizon's edge   *)
(* while it waits (config.rs:369-448; cursor/config.rs:287-448).           *)
Layouts(h) == {single_forward(h), single_backward(h)} \cup {cursors(name, h) : name \in LayoutNames}
LayoutsTileHorizon ==
    About("layout") => LET h == sample.horizon IN
       \A l \in Layouts(h) :
          /\ UNION {Ticks(l[c]) : c \in DOMAIN l} = h.start .. (h.end - 1)
          /\ Fixed(l) => \A c, d \in DOMAIN l : c # d => Ticks(l[c]) \cap Ticks(l[d]) = {}

(* The laboratory spells out the scheduler's presets of the same names     *)
(* (lab/src/experiment/config.rs:350-365).                                 *)
NamesMeanPresets ==
    About("layout") => LET h == sample.horizon IN
    /\ cursors("four_quarter_forward", h) = four_quarter_forward(h)
    /\ cursors("dynamic_est_lst_meet", h) = dynamic_est_lst_meet(h)
    /\ cursors("dynamic_start_mid_forward", h) = dynamic_start_mid_forward(h)
-----------------------------------------------------------------------------
(* Two configurations of an algorithm share a slug only if they build the  *)
(* same scheduler, so that a file name or a row of a table never stands    *)
(* for two different runs of a dataset (config.rs:231-240, 606-619).       *)
SameScheduler(c, d) == build_scheduler(c, sample.horizon) = build_scheduler(d, sample.horizon)
SlugTellsRunsApart ==
    About("sweep") => \A a, b \in AllCells(sample.spec) :
       a.config.kind = b.config.kind /\ Slug(a.config) = Slug(b.config) =>
          SameScheduler(a.config, b.config)

(* A specification is only rejected if something cannot be built or named, *)
(* or one thing is asked for twice: a dataset id, a configuration, or two  *)
(* caps for greedy_one, which has none (cell.rs:66-112).                   *)
Unbuildable(c) == c.kind = "hap" /\ 0 \in {c.iota, c.rho, c.population, c.cap}
AskedTwice(spec) ==
    \/ \E i, k \in DOMAIN spec.datasets : i # k /\ spec.datasets[i].id = spec.datasets[k].id
    \/ \E a, b \in AllCells(spec) :
         /\ a # b /\ a.dataset = b.dataset /\ a.config.kind = b.config.kind
         /\ \/ a.config = b.config
            \/ a.config.kind = "hap" /\ SameScheduler(a.config, b.config)
RejectedForCause ==
    About("sweep") => LET spec == sample.spec IN
    (resolve_cells(spec) = Rejected) =
       \/ spec.datasets = <<>> \/ spec.algorithms = <<>>
       \/ \E i \in DOMAIN spec.datasets : spec.datasets[i].id \in InvalidIds
       \/ \E a \in AllCells(spec) : Unbuildable(a.config)
       \/ AskedTwice(spec)

(* The cells of a sweep have different run keys, so none of them is taken  *)
(* for another (runner.rs:349-369).                                        *)
CellsAreDistinctRuns ==
    About("sweep") => LET cells == resolve_cells(sample.spec) IN
    cells # Rejected => \A a, b \in cells : a # b =>
       build_identity(sample.spec, a, sample.content) # build_identity(sample.spec, b, sample.content)

Spell(axis, default) == IF axis = {} THEN {default} ELSE axis
SpelledAxes(kind, axes) ==
    CASE kind \in {"est", "lst"} ->
           [axes EXCEPT !.foms = Spell(@, DefaultFom), !.kBeams = Spell(@, 1)]
      [] kind = "multi_cursor" -> [axes EXCEPT !.layouts = Spell(@, "est_lst_split")]
      [] kind = "hap" ->
           [axes EXCEPT !.modes = Spell(@, "elitist_top_k"), !.caps = Spell(@, 4)]
Spelled(asked) == [asked EXCEPT !.axes = SpelledAxes(asked.kind, asked.axes)]

(* Spelling out a default that a block leaves out does not change the      *)
(* sweep (cell.rs:154-282).                                                *)
DefaultsMayBeSpelled ==
    About("sweep") =>
       resolve_cells([sample.spec EXCEPT !.algorithms = [j \in DOMAIN @ |-> Spelled(@[j])]])
          = resolve_cells(sample.spec)

(* A sweep runs what was asked for, each thing once: configurations that   *)
(* are different runs are told apart, and others are refused               *)
(* (cell.rs:66-282; config.rs:231-448).                                    *)
CellsAreWhatWasAsked ==
    /\ LayoutsTileHorizon
    /\ NamesMeanPresets
    /\ SlugTellsRunsApart
    /\ RejectedForCause
    /\ CellsAreDistinctRuns
    /\ DefaultsMayBeSpelled
-----------------------------------------------------------------------------
(* A run that is not on the Pareto front is dominated by one that is: the  *)
(* front leaves out nothing but what it can stand for (read.rs:123-154).   *)
FrontDominatesTheRest ==
    About("registry") => LET front == pareto(sample.rows, default_objectives) IN
       \A r \in sample.rows \ front : \E s \in front : dominates(s, r, default_objectives)

(* A metric that is missing is below every number in SQL and zero in the   *)
(* program, which tells it differently from numbers that are not positive. *)
Confused(a, b, metric) ==
    \E r, s \in {a, b} :
       r.metrics[metric] = Unknown /\ s.metrics[metric] # Unknown /\ s.metrics[metric] <= 0
ToldAlike(a, b) ==
    \A i \in DOMAIN default_sort_keys : ~ Confused(a, b, default_sort_keys[i].metric)

(* The first run in the program's default order is on the default front,   *)
(* so that a front cut short keeps it.  The program's order and the SQL    *)
(* ordering agree on every two runs unless a metric is missing in one and  *)
(* not positive in the other; if they agree on all, the default listing is *)
(* in the program's order (query.rs:86-108; scoring.rs:93-116;             *)
(* read.rs:147-148).                                                       *)
DefaultPoliciesAgree ==
    About("registry") =>
       LET rows == sample.rows
           program == SortedBy(compare_rows_by_default_policy, rows)
       IN  /\ rows # {} => Head(program) \in pareto(rows, default_objectives)
           /\ \A a, b \in rows : ToldAlike(a, b) =>
                (sort_expr(default_sort_keys, a, b) <=> compare_rows_by_default_policy(a, b))
           /\ (\A a, b \in rows : ToldAlike(a, b)) =>
                list(rows, Everything) = Take(Everything.limit, program)

(* A ranking never puts a run above one that dominates it under the        *)
(* objectives that its weights reward, those of the metrics whose weight   *)
(* is not zero (read.rs:69-95).                                            *)
Rewarded(weights) ==
    {Objective(m, weights[m] > 0) : m \in {m \in DOMAIN weights : weights[m] # 0}}
RankRespectsDominance ==
    About("registry") => \A weights \in sample.weights :
       LET ranked == rank(sample.rows, weights) IN
       \A i, j \in DOMAIN ranked : dominates(ranked[i], ranked[j], Rewarded(weights)) => i < j

(* A limit cuts a listing after it was filtered and sorted: who is left    *)
(* out comes after who is listed, under every sort key (read.rs:184-200).  *)
LimitKeepsTheFirst ==
    About("registry") => \A o \in sample.options :
       LET listed == list(sample.rows, o)
           keys == IF o.sort = <<>> THEN default_sort_keys ELSE o.sort
       IN  /\ Len(listed) <= o.limit /\ ToSet(listed) \subseteq Selected(sample.rows, o)
           /\ \A r \in Selected(sample.rows, o) \ ToSet(listed), i \in DOMAIN listed :
                \A j \in DOMAIN keys : KeyLess(keys[j], r, listed[i]) =>
                   \E k \in DOMAIN keys : k < j /\ KeyLess(keys[k], listed[i], r)

(* An export into an empty directory, and a forced one into the directory  *)
(* of an earlier export, leave a file for every listed run that can be     *)
(* exported.  The file is of that run, or of one with the same base name   *)
(* and the same first characters of the key: a run is missed only where    *)
(* two keys share them.  An export that is not forced never changes a file *)
(* (read.rs:228-290).                                                      *)
Alike(r, s) == s.base = r.base /\ KeyPrefix(s.key) = KeyPrefix(r.key)
Exported(rows, dir) ==
    \A r \in ToSet(list(rows, Everything)) : r.exportable =>
       \E e \in dir, s \in rows : s.exportable /\ e.run = s.key /\ Alike(r, s)
ExportsAreComplete ==
    About("registry") => LET dir == export(sample.rows, Everything, FALSE, {}) IN
    /\ Exported(sample.rows, dir)
    /\ Exported(sample.after, export(sample.after, Everything, TRUE, dir))
    /\ dir \subseteq export(sample.after, Everything, FALSE, dir)

(* Listings, rankings, fronts and exports of one registry do not           *)
(* contradict each other (read.rs:69-290; scoring.rs:93-116).              *)
RankingsAreConsistent ==
    /\ FrontDominatesTheRest
    /\ DefaultPoliciesAgree
    /\ RankRespectsDominance
    /\ LimitKeepsTheFirst
    /\ ExportsAreComplete
-----------------------------------------------------------------------------
(* Schedules of one dataset, site, period (up to the fourth decimal) and   *)
(* set of blocks are compared in one cohort, in whatever order their       *)
(* blocks come; others are not (store.rs:900-929).                         *)
SameProblem(a, b) ==
    /\ OrElse(a.metadata.dataset, "unknown") = OrElse(b.metadata.dataset, "unknown")
    /\ OrElse(a.metadata.site, "") = OrElse(b.metadata.site, "")
    /\ LET p == OrElse(a.metadata.period, Horizon(0, 0))
           q == OrElse(b.metadata.period, Horizon(0, 0))
       IN  Round4(p.start) = Round4(q.start) /\ Round4(p.end) = Round4(q.end)
    /\ \A x \in ToSet(Ids(a.blocks) \o Ids(b.blocks)) :
          Times(x, Ids(a.blocks)) = Times(x, Ids(b.blocks))
Ingested == {e \in Registered(sample.items) : sample.items[e.id].kind = "schedule"}
SameProblemSameCohort ==
    About("views") => \A d, e \in Ingested :
       SameProblem(sample.items[d.id].body, sample.items[e.id].body)
          = (cohort_key(d.manifest) = cohort_key(e.manifest))

(* What a run scheduled is what its workspace counts and lists.  The       *)
(* comparison shows every block of the run, and counts a block as          *)
(* completed if every task of it is placed; it shows no counts exactly if  *)
(* the preschedule cache fails for the problem and the period of the run.  *)
(* Each block that has a placement has a row for this manifest in the      *)
(* table of its cohort, as long as the table can be built at all           *)
(* (output.rs:142-169; store.rs:680-697, 781-824, 1167-1303).              *)
Has(b) == {i \in DOMAIN b.tasks : b.tasks[i] \in DOMAIN sample.placements}
ScheduledIsCounted ==
    About("views") =>
       LET listed == Registered(sample.items)
           blocks == ToSet(sample.problem)
       IN  \A e \in Ingested :
             LET body == sample.items[e.id].body
                 period == OrElse(body.metadata.period, Horizon(0, 0))
                 rows == cohort_blocks(sample.space, listed, cohort_key(e.manifest))
             IN
             e.id = 1 /\ body \in sample.space.kept =>
                /\ \A s \in comparison_summary(sample.space, listed) : s.id = 1 =>
                     s.ratios =
                        IF <<body, period>> \in sample.space.failing THEN None
                        ELSE [total |-> Cardinality(blocks),
                              completed |-> Cardinality({b \in blocks : Has(b) = DOMAIN b.tasks})]
                /\ rows \notin Errors =>
                     {r[1] : r \in {r \in rows : r[2] = 1}} = {b.id : b \in {b \in blocks : Has(b) # {}}}

(* A manifest whose own data contradict themselves is never shown as sound *)
(* (routes.rs:439-465; store.rs:1307-1322).                                *)
StatusNeverHidesErrors ==
    About("views") => \A e \in Registered(sample.items) : HasErrors(e.manifest) => e.manifest.status = "invalid"

(* The list of cohorts counts what the comparison shows, each manifest     *)
(* once, and a table never lists a manifest of another cohort or one whose *)
(* schedule the comparison does not have (store.rs:669-824).               *)
ViewsAgree ==
    About("views") =>
    LET listed == Registered(sample.items)
        shown == comparison_summary(sample.space, listed)
        cohorts == list_cohorts(sample.space, listed)
    IN  /\ \A s \in shown : s.cohort_key \in DOMAIN cohorts
        /\ \A key \in DOMAIN cohorts :
             LET of == {s \in shown : s.cohort_key = key}
                 has == {s \in of : s.has_full_schedule}
                 rows == cohort_blocks(sample.space, listed, key)
             IN  /\ cohorts[key] = [manifest_count |-> Cardinality(of),
                                    schedule_count |-> Cardinality(has)]
                 /\ rows \notin Errors => {r[2] : r \in rows} \subseteq {s.id : s \in has}

(* What a run scheduled is what the views of its workspace show, compared  *)
(* with runs of the same problem and no others (store.rs:669-824,          *)
(* 900-929).                                                               *)
ViewsAreConsistent ==
    /\ SameProblemSameCohort
    /\ ScheduledIsCounted
    /\ StatusNeverHidesErrors
    /\ ViewsAgree
-----------------------------------------------------------------------------
(* The pipeline                                                            *)

PipelineInit == LabInit /\ PubInit

LabStep == LabNext /\ UNCHANGED pubVars
PubStep == PubNext /\ UNCHANGED labVars

PipelineNext == LabStep \/ PubStep

PipelineSpec == PipelineInit /\ [][PipelineNext]_<<labVars, pubVars>>
-----------------------------------------------------------------------------
(* Runs, bodies, cells, locks, requests and counters have values that the  *)
(* code's types allow, and the counters of a request add up to the items   *)
(* it has been through (lab/src/experiment/runner.rs,                      *)
(* webapp/src/workspaces/routes.rs).                                       *)
PipelineTypeOK ==
    /\ LabTypeOK
    /\ PubTypeOK
=============================================================================
