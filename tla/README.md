# VIROLAI: a TLA+ verification project

VIROLAI plans telescope observations. Its Rust workspace has three parts:
`schedulers` (the domain model and the scheduling algorithms), `lab` (experiments
and the registry of their runs) and `webapp` (a server that keeps the resulting
schedules in workspaces). This directory holds TLA+ models of the parts whose
behaviour is hard to test, the configurations that model-check them with TLC, and
theorems about them that TLAPS checks.

    tlc -workers 2 -config cursor_safety.cfg MCCursor.tla
    tlc -workers 2 -config store_requests.cfg MCStore.tla
    tlc -workers 2 -config planner_safety.cfg MCPlanner.tla
    tlc -workers 2 -config problem_library.cfg MCLibrary.tla
    tlc -workers 2 -config lab_pipeline.cfg MCPipeline.tla
    tlapm CursorProofs.tla      # and the other *Proofs modules, up to eleven minutes each

## Inventory

| Component | State | Operations | What is hard | What makes it correct |
|---|---|---|---|---|
| Cursor engine (`scheduler/cursor`) | beams: a shared schedule, a position and a queue per cursor | refresh, rank, validate, place, truncate | cursors take turns on one schedule, regions move, reflected time | no double booking, dependencies and windows respected, no lost task, the search ends |
| EST candidates (`scheduler/est`) | window index, earliest start, flexibility | refresh, sort | incremental discarding of windows | earliest start equals a fresh computation |
| LST (`scheduler/lst`) | none of its own | one Backward cursor | reflection | LST is EST on reflected time |
| Figures of merit (`scheduler/fom`) | none | score a schedule | a sweep over windows that nest and touch, terms that must stay below one task | the density is the overload of every tick, the count of recoverable tasks comes first |
| HAP and conflict repair (`scheduler/hap`) | survivors, lobby of evicted tasks, best snapshot | place with eviction, repair cycle, select survivors | eviction chains, snapshot and restore, empty selections | no overlap, protected tasks stay, nothing dropped silently |
| Schedule, interval tree (`schedule`, `time`) | placement map and sorted interval list | insert, unplace, query | two structures kept in step | map and tree agree, queries are complete |
| Periods (`time`) | none | normalise, unite, intersect, query | periods that touch, nest, repeat | set algebra of the time covered |
| Problem and blocks (`schedule/problem.rs`, `scheduling_block`) | blocks, id index, dependency graph, completion conditions | push_block, place, move, add_dependency | errors after a partial change | the index stays right, cycles place nothing, branches mean what the condition means |
| Constraints (`constraints`) | none | evaluate an expression over a timeline | a static part asked first, a dynamic part only inside it | the same as judging each instant |
| Prescheduler (`prescheduler`) | memo of dynamic constraints | parallel check, compute, insert | interleaving, errors of one task | result independent of the interleaving |
| Metrics and manifest (`metrics.rs`, `manifest.rs`, `schedule/output.rs`) | none | ratios, stairs, gaps, score, validation | zero denominators, equal values, missing data | scores are fractions, stairs and gaps add up |
| Experiment runner (`lab/src/experiment`) | cells of a sweep, a mutex, a pool | expand, classify, prepare, run in parallel, upsert | stale classification, a file changed during a run, panics, other processes | cells are different runs, the summary is true |
| Run registry (`lab/src/registry`) | runs, schedule bodies, metadata in SQLite | upsert, list, reconstruct, check | bodies shared between runs, concurrent transactions | each run has a body of its own dataset, nothing stored is lost |
| Registry migration (`lab/src/bin/migrate_schedule_dedup.rs`) | rows and bodies yet to do | fill in, strip | killed and started over, sweeps beside it | artifacts are the same at every moment |
| Registry commands (`lab/src/cli/registry`) | an export directory | list, rank, compare, export | two orders, missing metrics, file names | orders agree, exports are complete |
| Publishing (`lab/src/bin/virolai/publish.rs`) | counters, attempt | POST chunks with retries | lost answers, overlapping copies | a schedule joins once, counts and exit code are true |
| Workspace store (`webapp/src/workspaces/store.rs`) | registry in memory and on disk, a membership index per workspace, body files | create, ingest, add, remove, garbage-collect, cohorts and comparison | several critical sections per request, crashes between file operations | no dangling reference, no leak, counts agree, views agree |
| Preschedule cache (`webapp/src/workspaces/preschedule_cache.rs`) | one file per key | get or compute | no lock, one temporary file per key, a key that leaves inputs out | nothing torn is served |
| Adapters, command line, user interface, checkpoint stream | none or data only | conversions | | |

The components meet as follows. A scheduling problem is built from blocks; the
prescheduler turns the hard constraints of every task into feasible periods; a
scheduler (EST, LST and the multi-cursor layouts through the cursor engine, or
HAP) builds a schedule, an algorithm-independent map of placements. The experiment
runner does this for every cell of an experiment, in parallel, and writes results
to the registry. `virolai publish` and the import routes send manifests and
schedules to the workspace store, which compares them in cohorts and runs the
prescheduler, through its cache, to say how many blocks could have been scheduled.

## Modules

| Module | Models |
|---|---|
| `Periods` | half-open periods of integer time |
| `CursorEngine` | `run_multi_cursor` and the candidate queue: the detailed specification |
| `CursorProperties` | its type invariant, safety properties and refinement, and LST as the reflection of EST |
| `PlanSearch` | the abstract specification: plans grow by one legal placement |
| `MCCursor` | the small instances for TLC |
| `CursorProofs` | the inductive invariant and the safety theorems; the proofs that the engine implements `PlanSearch`, that rounds place tasks, that frontiers stay apart, that no option is lost, and that LST is reflected EST |
| `WorkspaceStore` | the store's requests, write by write, with failures and crashes: the detailed specification |
| `WorkspaceProperties` | its type invariant, safety properties and refinement |
| `Membership` | the abstract specification: what the membership lists promise |
| `MCStore` | the small instances for TLC, and the scenarios that a behaviour may belong to |
| `StoreProofs` | the inductive invariants: durability, the agreement of memory and files, what one client alone can rely on; the proof that the store implements `Membership` |
| `AccumulativePlanner` | HAP and AP: the loop over blocks, the completion branches, the repair cycle, the selection of survivors: the detailed specification |
| `PlannerProperties` | its type invariant, safety properties, refinement and liveness |
| `Accumulation` | the abstract specification: what survives the turn of a block |
| `MCPlanner` | the small instances for TLC |
| `PlannerProofs` | the inductive invariant, the safety theorems, and the proof that the planner implements `Accumulation` |
| `SortedSets` | the sequence of a set under an order |
| `PeriodAlgebra` | period sets: normalisation, union, intersection, queries |
| `ExprTrees` | expressions that nest |
| `CompletionExpr` | completion conditions and their expansion into branches |
| `ConstraintExpr` | constraint expressions, static and dynamic |
| `FutureFlexibility` | the figure of merit of that name, in exact fractions |
| `ScheduleMetrics` | the metrics of a schedule and the composite score |
| `LibraryProperties` | what these algorithms must compute |
| `EntryBags`, `IntervalTree` | the entries of the interval tree as a bag, and the sorted vector with its pruned scan that implements it |
| `SchedulingProblem` | blocks, a problem built from them and its schedule |
| `Prescheduler` | one run of the prescheduler with its memo |
| `PrescheduleCache` | the files of the cache, operation by operation |
| `Library` | these four together, with their type invariant |
| `MCLibrary` | the small instances for TLC |
| `LibraryProofs` | the inductive invariants and theorems of the problem and its schedule, the interval tree, the prescheduler's memo and its cache |
| `AlgorithmProofs` | the proofs about period sets, completion expressions and constraint expressions |
| `MeasureProofs` | the proofs about the metrics and the figure of merit |
| `Laboratory` | sweeps, the registry and its migration |
| `LabProperties` | its type invariant, safety and liveness properties |
| `Publication` | publishing to a server over an unreliable connection, with its properties; it implements `Membership` |
| `SweepExpansion` | from an experiment specification to cells, slugs and schedulers; the layouts of `cursor/config.rs` and those that the laboratory names |
| `RegistryQueries` | listing, ranking, Pareto fronts and exports of a registry |
| `WorkspaceViews` | the manifest of a schedule, its validation, cohorts and what a workspace shows of them |
| `PipelineProperties` | what must hold of the last three; and the laboratory and the publications together (`PipelineSpec`), with their type invariant |
| `PipelineProofs` | the inductive invariants of the registry, of its records and of publications; the proofs about sweep expansion, registry queries and views |
| `MCPipeline` | the small instances for TLC |
| `FiniteLemmas` | what the proofs of several components share: least and largest numbers, ranks in an order, tops of an order, folds and sums over finite sets |

### CursorEngine

A state is one point of `beam_loop`: `live` holds the beams of this round not yet
expanded, `next` the children produced so far, `terminal` the beams that could
place nothing more, `result` the schedule returned. `layout` and `problem` are the
inputs of the run and never change.

| Action | Code |
|---|---|
| `Expand` | `expand` for one beam: refresh of every queue, `ranked_actions`, the loop over actions with `is_dominated_by_first`, `build_child` with its validation, the break at the branching factor; then `Terminal` (`Retire`) or `Children` (`Branch`) |
| `Truncate` | sort by score, `truncate(k)`, next round |
| `Return` | `max_by` score over the terminal beams |
| `Finished` | the program has returned |

What a beam stores is what the code stores, in another form:

* `front[c]` is `frame_cursor`; the schedule-time position is derived from it.
* `swept[c]` stands for the `next_window_idx` of all candidates of cursor c. A
  candidate skips windows that end before the start of an active region, and every
  candidate of a cursor is refreshed with the same regions, so the windows a
  candidate still considers are those that end after `swept[c]`.
* `queue[c]` is the set of tasks of `candidates`. Their order is recomputed by
  `sort_candidates` before it is read, and is a function of the set (the last key
  is the task id), so it is not stored: `Rank` counts the candidates before one.
* A placement carries the cursor that made it. The code does not keep that; it is
  only used to state properties.

Abstractions:

* Time is whole ticks instead of f64 days. Rounding is out of the model, which
  matters at one place: the assertion of `into_task_placement` compares sums of
  floating-point numbers, and the model shows it for exact arithmetic only.
* The figure of merit is a parameter of the program (`dyn ScheduleFom`) and may
  order beams in any way. So `Truncate` keeps any `KBeams` children in any order
  and `Return` returns any terminal beam. A property that holds here holds for
  every figure of merit, also for one that returns NaN.
* The soft-constraint score of a task, `SoftScore`, is a constant operator. The code
  evaluates it at the start of the active region in frame time, as the model does.
* Flexibility is `slack / duration`; fractions are compared by cross-multiplication.
* The transitive predecessors of a task, which the code collects with a queue, are
  the smallest set closed under predecessors.
* Configurations that `normalised` or `extent` reject, and an empty list of
  cursors, are excluded by the assumption `LayoutsAreNormalised`.

### WorkspaceStore

| Variable | Code |
|---|---|
| `known` | `WorkspaceStore::workspaces`, the map behind the mutex: status and `manifest_count` per workspace |
| `top` | the registry file, `index.json` of the root |
| `index` | `index.json` of a workspace: `entries` (manifest and idempotency key) and `slots` (for each SHA-256 with a `ScheduleArtifact`, its `manifest_ids`) |
| `bodies` | `manifests/<id>.json`: which schedule its `artifacts.schedule` references |
| `files` | `schedules/<sha>.json` |
| `section` | where the request of each client stands: the writes it has left, and what it is going to write |
| `acked` | history: registrations answered as created and not asked to be removed since |
| `echoed` | history: likewise, for those answered with the entry that has their key already |
| `failures`, `crashes` | counters that bound the faults |

A request is one critical section of the mutex (ingestion is two). Its first step
(`CreateWorkspace`, `UpdateWorkspace`, `DeleteWorkspace`, `ImportManifest`,
`RepeatImport`, `IngestSchedule` and `RegisterIngested`, `RemoveManifest`) takes the
mutex, makes the checks of the code and computes what to write; nothing else can
change it while the mutex is held, so computing early is the same as computing late.
`RepeatImport`, and `RegisterIngested` when the key is there already, write nothing:
`add_manifest` answers `Ok` with the existing entry, and `Echo` notes that answer.
Then comes one step per file operation, in the order of the code: `WriteBody`,
`WriteFile`, `UnlinkBody`, `Collect`, `WriteIndex`, `RemoveDir`, `WriteTop`. A request
that a check rejects changes nothing and is not a step.

`Fail` is an I/O error of any operation: the request ends and leaves what it wrote.
`CollectFails` is the one error that the code ignores. `Crash` may come between any
two steps; memory is then read back from the registry (`open`). Removing a
directory is not atomic: `Interrupted` leaves any part of its files, so long as the
index is whole or gone.

Abstractions:

* Each single write is atomic (temporary file, `sync_all`, rename), and survives the
  crash of the process. Power loss, where the rename itself may be lost because
  the directory is not synced, is not modelled.
* `workspace.json` is written but never read, and a missing index reads as an empty
  one, so neither has a state of its own. `create_dir_all` has none either.
* Manifest ids of ingested schedules are random UUIDs: `Fresh` demands an id that is
  in use nowhere.
* Names, descriptions, times and the metrics of manifests are left out; so are the
  read-only requests. A reader without the mutex (`comparison_summary`) may answer
  with an error while a removal runs; it changes no state.

### AccumulativePlanner

The planner is four nested loops: over blocks (`accumulative_plan`), over source
schedules, over the completion branches of the block (`run_branches`), and over the
tasks of the branch, each of which is a repair cycle (`task_scheduling_cycle`).
`phase` says which loop control is in.

| Variable | Code |
|---|---|
| `round`, `survivors` | the block in hand, as its position in the order of priorities, and `survivors` |
| `candidates`, `source`, `base` | the candidate schedules (keyed by fingerprint), the number of sources done, the source schedule |
| `branches`, `todo`, `working` | the branches yet to be tried, the tasks of the branch yet to be placed, the copy of the source they are placed in |
| `lobby`, `protected`, `iter` | the stack of tasks waiting to be placed, the tasks placed in this cycle, the iterations |
| `minCost`, `best` | the lowest lobby cost seen and the schedule that had it |
| `before` | history: the schedule when the cycle began |
| `result` | what `run` returns |

| Action | Code |
|---|---|
| `BeginSource`, `EndSource` | one pass of the loop over `population`: the source by turns, the rejection candidate |
| `BeginBranch`, `EndBranch` | a branch on a copy of the source; `is_complete` decides whether it becomes a candidate |
| `BeginCycle`, `Repair`, `EndCycle` | `task_scheduling_cycle`: one iteration takes the last task of the lobby, places it or drops it (`schedule_task`), puts what it displaced into the lobby and takes a snapshot if the lobby cost is strictly lower; the end restores the snapshot |
| `EndBlock` | the survivors are selected from the candidates, or kept if there are none |
| `Return` | the best survivor |

A schedule is a function from the placed tasks to their starts. The code keeps the
same placements in an interval tree, which it queries; the two agree as long as a
task is inserted only while it is not placed, and `TriedOnce` shows that.

Abstractions:

* The random number generator: `Choosable` is the set of candidates that a selector
  may pick, and the model picks any. The seed plays no further part.
* The crowding distance: when the Pareto front is larger than the number of
  survivors, any of its members may be left out, and the order is free.
* The last tie-break of the ranking compares the fingerprints of the schedules;
  the model takes tied schedules in any order.
* A candidate set is a set, which is what keying by fingerprint makes of it.
* The fitness is a sum of fractions; it is multiplied with `Unit`, a common multiple
  of the block sizes, so that it is a whole number.
* Soft-constraint scores are given as one priority per block; the code sums up
  the scores of the tasks of the block at a fixed instant.
* `completion_branches` (the disjunctive normal form of the completion condition) is
  an input of the model.

### The library below the schedulers

`PeriodAlgebra`, `CompletionExpr`, `ConstraintExpr`, `FutureFlexibility` and
`ScheduleMetrics` are pure algorithms, written as operators that take the steps of
the code (`push_merged` with the last period only, the recursion over an expression
with its early returns, the sweep over sorted events) and compared in
`LibraryProperties` with a plain reading of the task. Recursion is written as recursive
functions. A function needs a set to be defined on, so the expressions are trees nested
at most `MaxNesting` deep (`ExprTrees`); the code has no limit, and what is proved holds
for every `MaxNesting`. Time is whole ticks, scores are
pairs of numerator and denominator. An atom of a constraint is the set of instants it
allows, or one that fails; `Midpoint` is the moon separation, which judges the middle
of whatever timeline it is asked about.

`IntervalTree` is the sorted vector with `suffix_max_end`; `held` is the bag of entries
that it stands for. `SchedulingProblem` uses the bag (`EntryBags`).

| Variable of `SchedulingProblem` | Code |
|---|---|
| `draft`, `begun` | the block being built |
| `blocks`, `taskAt` | `SchedulingProblem::blocks`, `task_index` |
| `refused` | history: an error was returned by `push_block` or `add_dependency` |
| `placements`, `tree` | `Schedule::placements` and its interval index, as a bag |
| `replaced` | history: a placed task was placed again |

One action per method: `NewBlock`, `PushTask`, `AddDependency`, `PushBlock`, `PlaceTask`,
`UnplaceTask`, `MoveTask`. A refusal leaves what the code leaves: the edge of a cycle, the
index entries of the tasks before the duplicate. `block_dependency_feasible_periods`
is the part of `CanPlace` about predecessors; hard constraints and the visibility of the
telescope are the constant `Feasible`. As in every caller, a problem is complete
before a schedule is made for it.

`Prescheduler` is one run: the telescope is judged first, then each task looks into
the memo (`Lookup`) and, if it is not there, computes and inserts in a later step
(`Insert`); `Collect` reads the results in input order. `PrescheduleCache` has one step
for each file operation of `get_or_compute` (`Read`, `Create`, `WriteFirst`,
`WriteSecond`, `Rename`, `Serve`), with failures (`IoFails`) and crashes between any two.
A file is named after the request that created it, so that two requests that write to
one temporary file, or go on writing to a file that was renamed meanwhile, do what
they do on a POSIX file system.

### Laboratory

| Variable | Code |
|---|---|
| `outcome` | what the schedulers compute for a content and a configuration; fixed in a behaviour |
| `file` | the content of each dataset's file |
| `runs`, `schedules` | the two tables of the registry |
| `sweep` | the progress of `execute` in each process: phase, `prepared` datasets, the counter of overridden cells, whether the mutex is poisoned, the summary |
| `cell`, `hashed` | the progress of each cell and the dataset hash in its identity |
| `lock` | the registry's mutex of a process |
| `stale` | SQLite: somebody else committed since this transaction read |
| `migration` | rows and bodies that the migration has yet to visit |
| `edits`, `faults` | bounds |

| Action | Code |
|---|---|
| `Start`, `Classify`, `LookupFails`, `Classified` | `execute`: each cell is looked up in order; a failed lookup counts as a miss |
| `Prepare`, `Prepared` | each dataset once; one that cannot be prepared ends the sweep |
| `BeginCell`, `Identify` | `run_cell_inner` up to the second reading of the dataset file |
| `Lookup`, `Commit`, `StoreFails` | `upsert_result` under the mutex: a transaction that reads, then writes |
| `Panic`, `Return`, `Kill` | a panic in a cell, the end of the pool, the death of a process |
| `StartMigration`, `CheckRow`, `FillRow`, `TakeBodies`, `StripBody`, `EndMigration`, `KillMigration` | the two passes of the migration |
| `Edit` | somebody edits, removes or puts back a dataset file |

A schedule, its metadata and its metrics are represented by the run they come from,
so that a property can say that a row mixes two runs. The hash of a schedule is
`outcome` itself: two runs share a hash if and only if they place the same tasks at
the same microseconds. SQLite's write lock and busy timeout are not modelled; a
transaction that cannot get the lock fails as in `StoreFails`.

### Publication

A publisher is at `start`, `collect`, `send`, `wait` or at an exit; `request` holds,
for each sending of each chunk, how far the server is with it. `NoAnswer` is a
timeout or a lost connection, and the copy that was sent goes on being served.
`ServeItem` is one item of a batch, which the lock of the store makes one step;
`Refuse` is an item that the store cannot keep, and that may be listed nevertheless when
the write after that of the index fails (store.rs:407-408); `Restart` cuts every request
in progress. The workspace is the abstract `Membership`, which `WorkspaceStore` implements.

### Samples of the pipeline

`SweepExpansion`, `RegistryQueries` and `WorkspaceViews` hold
operators that carry the names of the functions they stand for. `SweepExpansion` goes
from a specification with defaults to cells with slugs, identities and schedulers, and
has the layouts that a cell may name.
`RegistryQueries` has the SQL listing beside the comparison that the program makes, both
with their treatment of missing metrics. A run key is a number, and `KeyPrefix`, its first
eight characters, the quotient by `KeyTails`, the number of keys with the same first
eight. `WorkspaceViews` follows a schedule from
`ScheduleOutput` through `manifest_from_schedule`, the merged workspace context and
`validate` to the cohort tables, the comparison and the ratio of completed blocks;
`failing` are the problems and periods for which the preschedule cache returns an error
(no telescope, the prescheduler, I/O), and the comparison then shows no counts. Hashes
are what they hash.

## Runs

Where several properties answer one question, a run checks their conjunction, whose
conjuncts are definitions of their own; the tables give the conjunction first and its
parts in brackets.

The `cursor_` runs and `lst_mirror` use the horizon 0..6, a beam width of 2, a branching
factor of 2 and an endangered threshold of 2. Two cursors and three tasks are the
smallest numbers with which a task can be lost to another cursor, a safe task can
obstruct an endangered one, a chain of dependencies is longer than one step, and
truncation has something to drop. Windows and durations are chosen so that a task may
fit no window, one or two of them, straddle the boundary of a territory, or have none.

| Run | Checks | Instance |
|---|---|---|
| `cursor_safety` | `TypeOK`; `PlansAreValid` (`NoDoubleBooking`, `DependenciesRespected`, `PlacedInWindow`, `PlacementFitsExtent`); `NothingLeftBehind` (`BehindFrontier`, `BackwardPlacesNoSuccessors`, `UnplacedStayQueued`); `FrontiersNeverCross`; that the engine implements `PlanSearch` (`SearchesPlans`); in the five layouts whose regions do not open behind their cursors (`NearSidesAdvance`), `NoOptionIsLost` (`QueueIsExact`, `DominancePruningIsSafe`, `TerminalIsStuck`); and that each round places one task in each beam and some beam is terminal when none is left (`RoundsPlaceOneTask`), which bounds the number of rounds | six layouts, every problem with windows from three sets (the last task from two, or with none), durations 1 and 2 (the last task not as long as the first), and no dependencies or a chain of two |
| `lst_mirror` | every step of LST is the reflected step of EST | one Backward cursor, no dependencies |
| `cursor_trailing` | `EstIsFirstValidOverlap`, violated | the layout described below |

The layouts are two cursors that meet (without a gap, and with different gaps), a
second forward cursor at the middle, fixed halves from both ends, overlapping fixed
territories that reach past the horizon, and a forward cursor that trails a
backward one.

**Fairness.** The engine is one loop of one thread, so `Spec` has weak fairness of
`Next` and nothing more: the loop keeps taking steps. That it ends is stated as an
invariant, `RoundsPlaceOneTask`: a round has finitely many expansions, and there are
at most as many rounds as tasks with a window.

**A divergence.** `normalised` accepts a Forward cursor whose start follows a
Backward cursor. Its active region grows towards the past as the other cursor
retreats. `Candidate::refresh` discards windows that end before the start of the
active region, where its comment and `scheduler/est/README.md` speak of windows
behind the *cursor*; in this layout the discarded windows lie ahead of the cursor
and come into its region later. `cursor_trailing` finds a state in which a usable
window has been forgotten. All safety properties hold for this layout too: the
schedule is valid, but a task may be left out. No layout shipped with the crate is
of this shape. For the other layouts the property holds (`QueueIsExact`).

**Dependencies and LST.** `BackwardPlacesNoSuccessors` states a consequence of the
dependency check that is easily overlooked: a Backward cursor places later tasks
first, and a task is only accepted when its predecessors are already placed before
it. Therefore LST leaves out every task that has predecessors, and a multi-cursor
layout places such a task only when another cursor has placed the predecessors.
For the same reason `lst_mirror` is stated for problems without dependencies.

### Runs of the workspace store

| Run | Checks | Instance |
|---|---|---|
| `store_requests` | `TypeOK`; `AckedIsDurable`; `RefinesMembership`; as long as nothing failed (`Unharmed`), `AnswersStand` (`AnsweredIsDurable`) and `FilesAgree` (`CountsMatch`, `ListedHaveBodies`, `RegisteredHaveFiles`, `SlotsNameListed`); with one client alone `AloneLosesNothing` (`AloneScheduleStored`, `AloneCollects`) | one of three scenarios, chosen at the start. `faults`: two clients, two workspaces, a manifest of one schedule, two failed writes and a crash at any points; workspaces are archived and not made active again. `together`: two clients, one workspace, three manifests, one schedule, posted manifests with a schedule file, kept bodies posted again. `alone`: one client, one workspace, three manifests (one references no stored schedule), two schedules |
| `store_crash` | `RegisteredHaveFiles`, violated | one client, one crash, nobody deletes a workspace |
| `store_race` | `ListedScheduleStored`, violated | two clients, no faults, nobody deletes a workspace |
| `store_retry` | `AnsweredIsDurable`, violated | one client, one failed write, nobody deletes a workspace |

Two clients and one idempotency key are the smallest numbers with a race for the
mutex and a retry; two manifests of one schedule with which a removal must keep
the schedule; two workspaces with which the registry, written whole, may carry the
other's record. Two failures can leave memory ahead of the registry and then
strike again. `ScenarioSpec` (`MCStore`) is `Spec` with the scenario as a variable that
restricts what clients begin, and lets nothing fail in `together` and `alone`.
No liveness is stated: the mutex is not fair, and an individual
request is a finite list of writes.

`AckedIsDurable` is about answers "created", and holds through faults. `AnsweredIsDurable`
is about every success of a registration: that it is listed and has its body. It holds
as long as nothing failed, for retries and requests at once, and not afterwards.

The scenario `alone` states what sharing promises under the use the user interface
makes of it: one request at a time, schedules ingested, no manifest posted that
references a schedule of the workspace. Outside it the property does not hold, as
the model shows when the step constraint is lifted. A manifest removed without its
artifact ("they may still be useful for re-import", store.rs:480-481) no longer
counts as a reference, so that the schedule may be collected before the body is posted
again. And a manifest listed before its schedule is stored is never entered into the
slot, since `add_manifest` cross-references existing slots only (store.rs:400-406).

**Three divergences.** `store_crash`: the header of store.rs says that all writes "keep
the store atomic on crash". Every file is atomic, the store is not. `remove_manifest`
deletes the body and the schedule file before it writes the index. After a crash in
between the slot is there and the file is not, and `put_schedule`, which trusts the
slot, will report success for that schedule without ever storing it.
`store_race`: `ingest_one` stores a schedule and lists its manifest in two critical
sections. If the last other reference is removed with its artifact in between, the
schedule is collected, and the new manifest references nothing though both
requests were answered with success.
`store_retry`: `add_manifest` answers a repeated registration with the entry that has the
key (store.rs:379-381) and writes nothing, whatever became of the first. If a removal
deleted the body and could not write the index, the entry is listed without a body, and a
client that registers the manifest again is told that all is well. A registration whose
index was written and whose registry write failed is confirmed in the same way, and a
crash may lose the workspace it is in.

### Runs of the planner

| Run | Checks | Instance |
|---|---|---|
| `planner_safety` | `TypeOK`; `SchedulesValid`; `RepairIsFair` (`TriedOnce`, `PlacedOnceStays`, `CycleAddsOrUndoes`); `BestNeverWorse`; the refinement `AccumulatesBlocks`, and `Termination` | three tasks with windows from three sets and durations 1 and 2; in blocks of their own, or two in a block that asks for both, or for either; priorities that differ, are equal or negative; AP, HAP with a stochastic selector and elitist selection of 2, HAP with a random selector, Pareto selection of 2, no rejection candidate and an iteration limit of 1 |
| `planner_rollback` | `MovedNotLost`, violated | AP |
| `planner_dependencies` | `DependenciesRespected`, violated | AP, two tasks of a block, the second after the first |

Three tasks are the smallest number with a chain of evictions (a task evicts
another, which evicts a third or finds another window), with a task placed
between two others, and with a block of two tasks that competes with a block of
one. The horizon of four ticks holds two long tasks but not three. An iteration
limit of 4 is never reached, a limit of 1 leaves evicted tasks in the lobby. With
two sources and two survivors a round begins from different schedules.

**Fairness.** The planner is sequential: weak fairness of `Next`. `Termination`
rests on the numbers of blocks, sources, branches and tasks, and not on `maxIter`:
`TriedOnce` bounds the cycle by the number of tasks.

**Two divergences.** `planner_rollback`: the notes in `hap/cru/README.md` say that an
empty lobby means that the task was added by moving others around. The lobby cost
is 0 when the waiting tasks could be placed for nothing, and a snapshot is taken
only when the cost falls. So the snapshot from before the last free placements
is the one restored, and the tasks moved last are lost. The planner stays valid
(`SchedulesValid`), and does not get worse by it if rejection candidates are kept
and selection is elitist (`BestNeverWorse`).
`planner_dependencies`: nothing under `scheduler/hap` reads the dependencies of a
block. A task is placed before its predecessor when its window opens earlier, where
`tests/hap_integration.rs` says that HAP respects the order.

### Runs of the library and of the pipeline

| Run | Checks | Instance |
|---|---|---|
| `problem_library` | `LibraryTypeOK`; algorithms against plain readings: `PeriodSetsAreSets` (`NormaliseKeepsTime`, `AlgebraIsSetAlgebra`, `QueriesFindThePeriod`), `BranchesMeanTheExpression` (`DnfMeansTheSame`, `ExpansionIsBounded`, `CountedBlocksCanComplete`), `StagedChecksAgree` (`CheckIsPointwise`, `WindowsHoldForCandidates`), `MeasuresMeanWhatTheySay` (`RecoverableFits`, `SweepIsTickwise`, `TermsAreFractions`; `StairsTellThePriorities`, `GapsFillTheEnvelope`, `OnlyThePerfectScoreIsOne`, `DensityComparesMeans`); the interval tree, `TreeIsTheBag` (`HoldsTheBag`, `QueryIsExact`); blocks, problem and schedule, `ProblemIsSound` (`NoOverlapPlaced`, `TreeCovers`, `TreeIsExactUnlessReplaced`, `LookupIsExact`, `FindsItselfUnlessRefused`, `CyclesAreInert`) and `PlacedAfterPredecessors`; the prescheduler, `MemoIsTransparent` (`AnswerIsSequential`, `WindowsOfSameKey`); its cache, `CacheIsTransparent` (`ServedIsOwn`, `ServedOfSameKey`, `FailsOnlyWhenMet`, `QuietEntryIsWhole`) | see below |
| `lab_pipeline` | `PipelineTypeOK`; `CellsAreWhatWasAsked` (`LayoutsTileHorizon`, `NamesMeanPresets`, `SlugTellsRunsApart`, `RejectedForCause`, `CellsAreDistinctRuns`, `DefaultsMayBeSpelled`); `RankingsAreConsistent` (`FrontDominatesTheRest`, `DefaultPoliciesAgree`, `RankRespectsDominance`, `LimitKeepsTheFirst`, `ExportsAreComplete`); `ViewsAreConsistent` (`SameProblemSameCohort`, `ScheduledIsCounted`, `StatusNeverHidesErrors`, `ViewsAgree`); the laboratory, `LinkedRunsHaveOwnBody`, `StoredStays`, `RecordsAreTruthful` (`IntegrityHolds`, `RowIsOfOneRun`, `ExportIsOwn`, `SummaryIsTruthful`, `MigrationIsComplete`); publications, `JoinsOnce`, `ReportsAreHonest` (`SuccessMeansPublished`, `CountsAddUp`, `CreatedOnce`); and `WorkEnds` (`SweepsEnd`, `MigrationsEnd`, `PublicationsEnd`) | see below |

`problem_library` and `lab_pipeline` each join parts that share no state. `LibrarySpec` and
`PipelineSpec` let the
steps of the parts interleave freely, and what is true of the behaviours of one part is
proved to be true of them together; a run would only multiply the states of the parts
with each other. So in a run the initial state chooses the part, and the behaviours are
those of this part alone. A part made of samples has one state per input.
`LibraryTypeOK` and `PipelineTypeOK` join the type invariants of the parts.

`problem_library`: period sets are every sequence of up to three periods and every pair
of subsets over five ticks, so that periods touch, nest, repeat and are empty.
Completion expressions are all with up to two parts at each of two levels, over three
tasks, the empty ones included, and those with three parts that have no, one or two
branches; with a bound of three branches, which some exceed as a whole, some in a part,
and some after their first parts only. (An `And` whose last part has no branch has none
itself, but the expansion may have been given up before: whether it is depends on the
order of the parts. `ExpansionIsBounded` says so.) Constraints are all pairs of
expressions of up to two atoms (and one of three) over four ticks. Future states have
three tasks, with and without dependencies, and one or two regions that overlap or leave
a gap. Results are all placements of three tasks over six ticks. The tree holds up to
four entries of three tasks on four instants. The problem has two block ids, three
blocks begun, blocks of up to two tasks and two edges; a third block follows only on a
refusal. The prescheduler has three tasks, the cache three requests for two problems
with equal or different keys and one fault: two requests that write the same temporary
file while a third reads, or one that is cut off.

`lab_pipeline`: two sweeps, one with two cells on two datasets and one with one cell,
one thread per cell, two configurations, and three contents. Two configurations and two
contents find the same schedule, one run fails, one content cannot be prepared. The
second sweep may run twice, on a registry that an older version left and that is being
migrated, started over once. There is one edit or one fault: the interleavings in which
one goes wrong are covered, and two independent ones are not. A publisher with two
chunks runs alone, or two with schedules in common at once, one of them with a file
that the server refuses; one retry, one refusal, one restart.

Registries have up to three runs, before and after one is added. Each default metric is
missing in some of them, three are zero or negative in some; weights may be zero or negative; two keys
share their first characters, and base names coincide. Views take a problem for which the
preschedule cache works and one for which it fails.

`AnswerIsSequential` assumes `KeysDecide` and `ServedIsOwn` assumes `KeyDecides`,
because the keys leave inputs out (targets rounded to a few decimals; constraints and
telescope). What holds when they do not decide is stated by `WindowsOfSameKey` and
`ServedOfSameKey`. `RowIsOfOneRun`,
`ExportIsOwn` and the half of `IntegrityHolds` about orphans assume that nobody edits
a dataset file while a sweep runs; `LinkedRunsHaveOwnBody` and `StoredStays` do not.

**Fairness.** A sweep that was started, a migration that was started and a publication
that was started take their next step if they can (`LabFairness`; weak fairness of
`ClientSteps` of each publisher). Faults, edits and starts have none, nor has the
server: a publication ends because its client counts attempts and every request has a
timeout. `SweepsEnd` and `MigrationsEnd` say that there is always a time when nobody is
at work, which fails if a mutex is left locked or a pass visits a row for ever.

### Divergences met that no run states

The following were met while these modules were written. They are choices or
disagreements between two places of the code, not violations of a sentence that a run
checks.

* The key of the preschedule cache is made of block and task ids, durations, targets and
  the horizon, "enough to detect 'different problem' without full constraint
  serialisation" (`preschedule_cache.rs:75-76`). The answer depends on the constraints
  and the telescope too, so a problem edited in one of these is served what was found
  for the old one. `OtherProblemsDetected` says what the comment promises; it does not
  hold on the instance of `problem_library`, and `ServedIsOwn` is what is left of it.
* The moon separation judges the midpoint of the timeline it is given
  (`moon_separation_constraint.rs:28`), of which its comment says "the candidate
  interval" (14-15). The prescheduler gives it the horizon or a static window, so
  a window says nothing about a candidate inside it. `CheckIsPointwise` and
  `WindowsHoldForCandidates` are therefore about expressions without it.
* The density term of the future-flexibility score spreads the load of a task over
  all periods of its windows, also those too short for it, where the comment
  (`future_flexibility.rs:249`) speaks of usable windows.
* "Stable lexicographic weights" (`future_flexibility.rs:47`) holds for the count
  against everything else (`TermsAreFractions`), not among the three terms.
* The hash of a schedule leaves the dataset out. When two datasets lead to equal
  placements, the second run is refused (`create.rs:99-109`) and counts as failed.
* A dataset that is edited while a sweep runs leaves a row whose identity has the new
  content and whose results come from the old one (`runner.rs:298`).
* The migration fills in metadata without the dataset's label.
* The slug of `greedy_one` leaves out the survivor cap, so a sweep over two caps with
  this mode is rejected as a whole (`RejectedForCause` counts it as asking twice).
* A publication whose last answer is lost may report failure although everything was
  registered (`SuccessMeansPublished` is one direction only).
* An export that is not forced skips a file that exists. If an earlier export into the
  same directory named another run so, the new run is not written; two runs with one base
  name and one key prefix share a file, forced or not, and the later one stays
  (`ExportsAreComplete` is about empty directories and forced exports, and a run misses
  its own file only to one with the same base name and prefix).
* The default order of the listing and that of the program differ where a metric is
  missing in one run and zero or negative in another, since a missing one is below every
  number in SQL and 0 in the program (`DefaultPoliciesAgree` says that they differ
  nowhere else). No document promises that they agree; the program's order only sorts a
  front.
* A failed preschedule makes the comparison show a manifest without counts and without
  saying why (store.rs:680-697).
* One `file://` schedule of a cohort that is too large or cannot be parsed makes the
  whole table of the cohort an error, while the comparison shows the manifest as one
  with a full schedule (`store.rs:636`).
* `completion` in a problem's JSON is dropped when it is read (`schedule/serde.rs:32-38`).
* A block without tasks counts as completed only if some task of another block is
  placed (`store.rs:1241-1245`).
* A posted manifest keeps the validation status that its client claims, and one with
  errors is refused; an ingested schedule whose manifest has errors is listed as
  invalid.

## Proofs

`CursorProofs` proves, for any number of tasks and cursors, any accepted layout,
any problem and any beam parameters, the type invariant, `PlansAreValid` and
`NothingLeftBehind`, each part by a theorem of its own. The assumptions are those of
`CursorEngine`: ids are natural numbers, the horizon is a period, layouts are
normalised, durations are positive.

The inductive invariant is `Safe`: the type invariant, `BeamOK` for every beam in
play, and that a result is returned only when no beam is live. `BeamOK` strengthens
the properties in three ways. Positions stay within extents (`FrontsInExtent`),
which needs that a cursor that follows another has the whole horizon as its extent.
Dependencies hold for all transitive predecessors. Every placement lies behind the
position of its cursor (`Behind`), which is what makes a Backward cursor unable to
place a predecessor later.

The argument goes from the frame arithmetic (`MirrorFacts`, `ActiveFacts`,
`FramePeriodFacts`) through the earliest start of a candidate (`EstFacts`: it exists
because a set of integers with a lower bound has a minimum) to what an action
places (`PlacementFacts`), and from there to `ChildOK`: the child of a sound beam is
sound. `ChosenBound` shows that at most `Branching` children are kept: the last
chosen action has fewer than `Branching` before it. One lemma per action then
shows that `Safe` is kept.

The second half of `CursorProofs` proves five things from `Safe`.

* Every step of the engine is a step or a stutter of `PlanSearch`.
* `RoundsPlaceOneTask`: a child has one placement more than its beam, by a task that
  its beam had not placed, so rounds count placements; an expansion that ends without a
  child makes its beam terminal. With at most as many rounds as tasks with a window,
  and finitely many expansions in a round, this is the part of termination that does
  not need fairness.
* `FrontiersNeverCross`, by an invariant of each beam (`Apart`): a region ends at the
  other frontier less the gap, so a placement in it leaves the gap; of two cursors
  that face each other the wider gap counts, from the first move on.
* `NoOptionIsLost`, with two invariants. `SweptBehind`: what a queue has discarded ends
  before the near edge of its cursor's region, which only moves on when no region opens
  behind its cursor (`NearSidesAdvance`). `Stuck`: a beam that was given up has no
  action at all. Between them stands that the candidate keys order the candidates
  totally: the key has the sum of the free spans in it, which is a fold.
* `LstIsReflectedEst` when all cursors run backward over the whole horizon and follow
  no other (`AllBackward`), as LST's does, and no task depends on another
  (`NoDependencies`: a dependency does not survive the reflection). Every operator of
  the engine is shown to commute with the reflection, from periods to the
  ranking of actions.

`StoreProofs` proves, for any number of workspaces, manifests, schedules, keys,
clients, failures and crashes, the type invariant, `AckedIsDurable` and
`RefinesMembership`, and `AnswersStand`. The assumptions are those of `WorkspaceStore`: posted
manifests are manifests, and `Absent` and `Unlinked` are not the names of anything.
Neither `AckedIsDurable` nor the refinement is inductive. A registration that is
acknowledged survives the next write only if that write was prepared with the
registration in view, so the inductive invariant `StoreSafe` follows a request
through its stages. `OneHolder` says that one client holds the mutex, hence that
what it read stays true. `Prepared` says that the index it is to write is one
membership step away from the one on disk, and that a registration in progress has
its body once it reaches the index, and is listed once it reaches the registry.
`Kept` and `Spares` say that an acknowledged registration is in place, in memory
too, and that no write under way removes it. There is one lemma per action; the
cases in which the others only wait are `OthersWait` and `MovesOn`. The refinement
then follows: an index is only replaced by one that is one step away
(`OneStepIsPromised`), or cleared with its directory.

`FilesAgree` is about a store in which nothing has failed yet (`Unharmed`) and whose
clients do not post two manifests of one id (`OneManifestPerId`): a second body under
the id of a listed manifest would leave the slots of the first. Its invariant
`FilesSafe` says that a workspace in which nobody is writing agrees, that what a
writer is to put in place agrees with the bodies and files as they will be once its
writes are over (`Ready`), and that an id that an ingestion has chosen is nobody
else's. `AloneLosesNothing` is about the scenario of one client without faults; it
allows an id to be posted again. `LoneSafe` ties each listed body to a slot and each
slot to a file, now and after the writes in hand.

`AnswersStand` is `AckedIsDurable` and the claim that before a fault no answer stands
for anything that was not created and acknowledged: `AnswersSafe` says that what is
listed was answered as created, except for the request that is writing it, which holds the
mutex while a repetition looks for its key (`FreeMeansAnswered`). With a failed write
this is what breaks: an entry is listed that no answer acknowledged, or that a removal has
left behind.

`PlannerProofs` proves, for any number of tasks and blocks, any problem and any
configuration, `SchedulesValid`, the three parts of `RepairIsFair`, `TypeOK`,
`BestNeverWorse` and that the planner implements `Accumulation`. The assumptions are
those of `AccumulativePlanner`: ids are natural numbers, and a branch lists tasks of
its own block, each once. The
inductive invariant `IInv` has four parts. `SoundInv`: every schedule is valid; an
insertion keeps it so (`InsertIsSound`), since what overlaps the new placement is
displaced, but only if the task is not placed already. That needs the other
three. `TurnInv`: no schedule holds a task of a block whose turn has not come; it
needs that blocks have their turns one by one (`Turns`, from the lemma that ranks in
a strict total order are a bijection). `BranchInv`: the tasks of the branch yet to
be placed are not placed. `CycleInv` is the bookkeeping of the repair cycle: the
lobby lists tasks once each, none of them placed; lobby and schedule together hold
what was placed before, and the task of the cycle; and iterations, waiting tasks and
placed but unprotected tasks add up to at most the number of tasks, because an
eviction moves a task from the last group to the second and an iteration
uses up one of the second.

The refinement adds that a candidate has survived the last round or completes the block
in hand (`Promising`), and that there is always a survivor. For Pareto selection that
needs a front that is never empty, which holds because domination is a strict order
of a finite set (`SomethingOnTop`). `CountInv` bounds the counters. `BestNeverWorse`
compares fitness before and after a round: the best survivor is among the candidates
when rejection candidates are kept, and the elitist ranking puts one at least
as good first. Fitness and costs are sums over sets, which are numbers by `SumsAreNumbers`.

`LibraryProofs` proves, for any tasks, blocks, durations and feasible periods, all the
properties of `SchedulingProblem` that `problem_library` checks. The assumptions are
those of the module and `InstantsAreTicks`: instants are natural numbers, counted from
the start of the horizon. The invariant has two halves that hardly meet.
`ScheduleInv` is that placements do not overlap, that the tree covers them, and that it
is exact unless a placed task was placed again. Covering is what makes the comparison
with the tree enough (`CanPlaceFacts`, `PlacedWithoutOverlap`), and it survives a
removal because the entry that goes, the earliest one of its task, is either the
placement itself or a stale one of a task that is unplaced with it. `MoveTask` goes
through the schedule without the task (`Lifted`) and back. `BuildInv` is that the
index is exact for the tasks of the problem, that it knows no others until a call is
refused, and that a block with a cycle has none of its cyclic tasks placed: a task on
a cycle is among its own transitive predecessors and could only be placed after itself.

Of the interval tree it proves `TreeIsTheBag`. `TreeInv` says that the vector is sorted
by start and that the bag counts what is in it; the scan may stop where it does because
the greatest end from there on is too early for the query.
`MemoIsTransparent` and `CacheIsTransparent` hold for any interleaving of threads or
requests. A memo entry is what some task of its key computed, so `MemoInv` needs only
that an answer put together from such entries is that of a sequential run if the key
decides. For the cache, `CacheInv` says of the files behind the two names of a key that
they were created for it, and that each half of one was found for problems of
the key (`ContentsOK`), so that what is read is one such answer or does not decode. That
a request fails only for a cause needs two more parts: two requests of one key that
are under way at once have met, and only one that a request has met takes its
temporary name away (`MeetingsOK`, `RenamesOK`); and a half that is missing is about to
be written by the request that emptied the file, unless something failed (`FilledOK`).
The assumption `IoError` says that a failure is no answer.

The parts of `Library` share no state. `PartsBehave` says that each of its behaviours is
one of every part, and with it `LibraryKeepsTypes` is proved from the theorems of the
parts. `PipelineKeepsTypes` is the same for `PipelineSpec`.

`AlgorithmProofs` is about every input, not about the samples.

* `PeriodSetsAlwaysSets`: any list of periods, any two finite sets of ticks. The merge of
  a normal form with one more period is shown to be a normal form of the union
  (`push_merged` looks at the last period only, which is enough because starts
  ascend); the sort is a permutation in order; the intersection walks two lists at
  once, and is followed from its end, since each step leaves less to go.
* `BranchesAlwaysMeanTheExpression`: any expression, nested to any depth, and any bound.
  A tree has a depth (`TreesHaveDepth`), which is what induction on expressions
  runs on. The expansion means what the expression means unless it is given up; it
  never holds more than the bound; and it is given up only when some part of the
  expression, or the first children of one, has more branches than the bound.
* `StagedChecksAlwaysAgree`: any two constraint expressions and any timeline. Two facts
  about an expression are carried through its structure: that it gives the ticks that a
  judgement tick by tick gives, inside the timeline, or fails for a cause
  (`ExpressionsCheckWell`), and that where it fails on a window it fails on the timeline
  around it (`ExpressionsFailOverall`). A dynamic part asked run by run inside the
  static part then finds the same as both asked at every tick (`TwoStages`).

`MeasureProofs` proves `MeasuresAlwaysMeanWhatTheySay`, from what is true of every result
and of every state of a search when they are read. `ResultIsRead`: finitely many tasks
with whole priorities, placements that do not overlap (which `PlansAreValid` and
`SchedulesValid` promise), and positive weights. `FutureIsRead`: windows in normal form
(which `PeriodSetsAreSets` promises), positive durations, predecessors among the tasks,
and a `Unit` in which the load of each task is a whole number. TLC has found that every
sample of `problem_library` satisfies them. Of a result: sorted values are a permutation
in order with the same sum (`AscendingFacts`); stairs start where values change; gaps
between placements that do not overlap telescope to the envelope; percentiles of an
ascending list ascend; and a score that is one has each of its terms at one, because
denominators are positive. Of a search: a task is recoverable if and only if some start
in some window fits; the sweep over sorted window boundaries keeps the load of
every tick between two boundaries (`LoadBetween`), so that the area it adds up is the
overload counted tick by tick; and the three terms are fractions of one.

`PipelineProofs` proves of the laboratory, for any number of datasets, configurations,
sweeps, cells, threads, edits and faults, `LabTypeOK`, `LinkedRunsHaveOwnBody` and
`StoredStays`, under the assumptions of `Laboratory` (types of the constants; `Absent`
and `Null` name nothing). `LinkedRunsHaveOwnBody` is not inductive: a transaction that
is open has found that the body under its hash is absent or of its own content, and
would link its run to the wrong body if another process stored one in between.
`SnapshotsOK` says that this cannot happen unseen: as long as nobody else committed
since the transaction read (`stale`), what it read is still so. `SweepsOK` says that at
most one cell of a process has a transaction open, the one that holds the mutex, and
that what a cell stores was computed from a prepared dataset. `MigrationOK` says that a
body the migration is about to write back is the stored one up to the fields it strips:
that no sweep replaces a body in the meantime is the point of keeping the first. One
lemma per action shows that `LabInv`, the conjunction of all, is kept, and that nothing
stored is lost. Sweeps whose transactions are serialised by SQLite are the only
assumption about the database.

The same module proves `RecordsAreTruthful`. `TruthInv` adds to `LabInv` what a
record depends on: what was hashed and prepared is what the files hold as long as
nobody edits one (`FilesAreSeen`), bodies belong to rows (`BodiesAreOfRows`), a cell
that reports success has its row, schedule and metadata stored, unless the mutex
was poisoned under it, and a summary counts the cells as they ended
(`SweepsAreAccounted`); and what the migration has come past needs nothing any more, or
cannot be helped because its dataset is gone (`MigrationIsOnItsWay`).

`PipelineProofs` has four more parts.

* Publications, for any publishers, files, sizes of a batch, retries and faults:
  `ReportsAreHonest`, types, and that the server implements `Membership`. `PubInv`
  counts: the counters of a request are those of the items it has served, those of a
  publisher those of the batches that are over, and each entry was created by one item
  of one request (`CreationsAreCounted`), so that nothing is counted twice although a
  batch may be sent again while it is being served.
* Sweeps, for any specification (`SpecIsRead`: blocks of the four kinds of algorithm)
  and any horizon: `CellsAreWhatWasAsked`. Layouts tile the horizon by arithmetic on its
  quarters; a slug has a field for everything the scheduler depends on, so two equal
  slugs mean equal schedulers, and expansion is refused exactly when two entries ask
  for the same; defaults fill in what they would fill in again.
* Registry queries, for any registry, options, weights and directory
  (`RegistryIsRead`: keys tell rows apart, base names are triples, metrics are whole
  numbers or missing, weights are whole numbers): `RankingsAreConsistent`. Each order
  is a strict total order, in which a place is taken by one row (`InLineFacts`): the
  SQL order because the first sort key that tells two rows apart decides, the ranking
  because scores are numbers. The front stands for the rest since domination is a
  strict order of a finite set; a dominating row scores more since a sum of larger
  terms is larger (`SumsCompare`). For exports, the states of the fold are counted off
  (`ExportSteps`), and `ExportInv` says that a name given by this export was not used
  by it before.
* Views, for any schedules and manifests that arrive after the schedule of a run
  (`ArrivesAfterRun`): `ViewsAreConsistent`. Cohorts have equal keys exactly if the
  problems are the same as far as the key looks; rows, counts and tables are all
  functions of the same harvested entries; counts are absent exactly where the cache fails.

`FiniteLemmas` holds what these proofs share. A fold of the community modules is a
`CHOOSE` of a function that satisfies its equation. `FoldExists` shows by
induction on cardinality that there is one, and `Shrinking` is the induction to say
what it returns; `Sums`, ranks and finite strict orders build on them. Induction over
numbers is `CountingUp`, from the well-founded order of the natural numbers, since the
library's induction theorems with an operator parameter cannot be instantiated. That a
recursive function exists is proved in the same way (`RecursionExists`): functions
that satisfy the equation up to a number agree with each other, and together are one
function for all numbers.

The assumptions are named in the modules that declare the constants, and TLC evaluates
them: types of the constants; finite windows and soft scores that are numbers
(`CursorEngine`); markers that are none of the values they stand beside (`Absent`,
`Null`, `Unlinked`, `Unknown`, `NoCursor`, `Missing`, `IoError`, `TooLarge`, `Failed`,
`Blocked`); finite sets of publishers; positive bounds and units (`MaxDnfBranches`,
`Unit`), and a depth of nesting that is a number. Hypotheses of single theorems
(`OneManifestPerId`, `AllBackward`, `NoDependencies`, `ArrivesAfterRun`,
`SpecIsRead`, `RegistryIsRead`, `ResultIsRead`, `FutureIsRead`) stand in the theorems;
the instances that TLC checks satisfy them (each scenario of `store_requests` posts at
most one manifest under an id of its own).

Only model-checked: liveness, which this prover cannot treat (`Termination` and
`WorkEnds`). The proof of `Termination` would combine `TriedOnce`, which is proved and
bounds a repair cycle, with the fairness of `Next`; that of `WorkEnds` the counters of
attempts with the fairness of clients. The six properties that
runs find violated do not hold as they stand (of these, `AnsweredIsDurable` is proved for a
store in which nothing failed yet, `AnswersStand`). Every other property that a run checks is proved.

## Not modelled, and why

| What | Why |
|---|---|
| the astronomy of constraints and visibility, soft-constraint scores | f64 arithmetic of an external library (siderust); the models take what it returns as given sets and numbers |
| rounding | time is whole ticks, scores are fractions; where a comparison of sums of f64 decides (`into_task_placement`), exact arithmetic is a real restriction of what is shown |
| the soft-constraint and composite figures of merit | sums of given numbers; the engine is checked for every figure of merit |
| field-by-field serialisation (`serde_repr.rs`, `scheduling_block/serde.rs`) | conversions without a decision; what is dropped or defaulted on the way and matters to a property is in `WorkspaceViews` |
| `upsert`, `upsert_schedule`, `attach_schedule` of the registry, `est/queue.rs` | used by tests only |
| `experiment/state.rs`, the checkpoint stream | no other code writes or reads it |
| the TSI and CTAO adapters | one-shot conversions from one format to another |
| the server's start, static pages, argument parsing, terminal output | no state, no decision that another part relies on |
| power loss | a rename that was reported may be lost because directories are not synced; the models treat a crash as the death of the process |
| SQLite itself | modelled as serialised transactions that fail when what they read is stale |
| a reader of a workspace that runs while a request changes it | it may answer with an error; it changes no state |
