--------------------------- MODULE WorkspaceViews ---------------------------
(***************************************************************************)
(* From the schedule a run writes (schedulers/src/schedule/output.rs) to   *)
(* the manifest, the cohort and the counts under which a workspace shows   *)
(* it (webapp/src/workspaces/routes.rs, store.rs; manifest.rs).            *)
(*                                                                         *)
(* A body is a schedule's JSON; its SHA-256 is the body itself.  A         *)
(* workspace w is the set of bodies kept in it (w.kept), what reading the  *)
(* one file outside gives that manifests may name (w.file: a body or an    *)
(* error), and what its preschedule cache answers with an error            *)
(* (w.failing: problems and horizons): no telescope, an error of the       *)
(* prescheduler, an entry that cannot be written.  Times are in quarters   *)
(* of the fourth decimal of a day.                                         *)
(***************************************************************************)
EXTENDS Integers, FiniteSets, SequencesExt

CONSTANTS
    None,                                   \* a field that is not there
    NotFound, BadRequest, InvalidManifest   \* errors of the store

Horizon(s, e) == [start |-> s, end |-> e]
-----------------------------------------------------------------------------
(* ScheduleOutput: the problem's JSON with the placements written into it. *)

annotate_tasks(tasks, placements) ==
    [i \in DOMAIN tasks |-> [id |-> tasks[i],
        at |-> IF tasks[i] \in DOMAIN placements THEN placements[tasks[i]] ELSE None]]

ScheduleOutput(problem, placements, metadata, metrics) ==
    [metadata |-> metadata, metrics |-> metrics, shape |-> "scheduling_blocks",
     blocks |-> [i \in DOMAIN problem |->
        [id |-> problem[i].id, tasks |-> annotate_tasks(problem[i].tasks, placements),
         start |-> None]]]
-----------------------------------------------------------------------------
(* Manifests *)

OrElse(value, default) == IF value = None THEN default ELSE value

NoContext == [period |-> None, observatory |-> None, pool |-> None, count |-> None]

manifest_from_schedule(body) ==
    IF body.metadata = None \/ body.metrics = None THEN BadRequest
    ELSE [dataset |-> OrElse(body.metadata.dataset, "unknown"), version |-> 1,
          horizon |-> OrElse(body.metadata.period, Horizon(0, 0)),
          metrics |-> body.metrics, uri |-> "none", sha |-> None, hex |-> TRUE,
          source |-> None, context |-> NoContext, status |-> "valid"]

Ids(blocks) == [i \in DOMAIN blocks |-> blocks[i].id]
Times(x, ids) == Cardinality({i \in DOMAIN ids : ids[i] = x})

(* Sorted ids are a bag. *)
block_pool_hash_from_ids(ids) == [x \in ToSet(ids) |-> Times(x, ids)]

derive_workspace_context_from_schedule(body) ==
    [period |-> body.metadata.period, observatory |-> body.metadata.site,
     pool |-> IF body.blocks = <<>> THEN None ELSE block_pool_hash_from_ids(Ids(body.blocks)),
     count |-> IF body.blocks = <<>> THEN None ELSE Len(body.blocks)]

merge_workspace_context(existing, derived) ==
    [field \in DOMAIN existing |-> OrElse(existing[field], derived[field])]

(* The issues of validate: [code, severe]. *)
validate(m) ==
    LET issue(found, code, severe) ==
          IF found THEN {[code |-> code, severe |-> severe]} ELSE {}
    IN  issue(m.dataset = "", "empty_dataset_id", TRUE)
        \cup issue(m.version # 1, "incompatible_schema_version", TRUE)
        \cup issue(m.horizon.end <= m.horizon.start, "invalid_horizon", TRUE)
        \cup issue(m.metrics = "mismatch", "stair_count_mismatch", TRUE)
        \cup issue(m.uri # "none" /\ ~ m.hex, "weak_artifact_sha256", FALSE)
        \cup issue(m.uri = "", "empty_artifact_uri", TRUE)

HasErrors(m) == \E i \in validate(m) : i.severe
Status(m) == IF HasErrors(m) THEN "invalid" ELSE IF validate(m) = {} THEN "valid" ELSE "warning"

(* A schedule is kept and its manifest registered, sound or not. *)
ingest_one(body) ==
    LET m == manifest_from_schedule(body) IN
    IF m = BadRequest THEN m
    ELSE LET full == [m EXCEPT !.uri = "ws", !.sha = body,
               !.context = merge_workspace_context(@, derive_workspace_context_from_schedule(body))]
         IN  [full EXCEPT !.status = Status(full)]

(* A manifest with errors is refused; another keeps the status it claims. *)
validate_manifest_payload(m) == IF HasErrors(m) THEN InvalidManifest ELSE m

Arrives(item) ==
    IF item.kind = "schedule" THEN ingest_one(item.body) ELSE validate_manifest_payload(item.manifest)

(* The manifests of a workspace by their place; an item that fails leaves  *)
(* the others of its batch alone.                                          *)
Registered(items) ==
    {[id |-> i, manifest |-> Arrives(items[i])] :
        i \in {j \in DOMAIN items : Arrives(items[j]) \notin {BadRequest, InvalidManifest}}}
-----------------------------------------------------------------------------
(* Views *)

Round4(t) == (t + 2) \div 4

period_of(m) == OrElse(m.context.period, m.horizon)

cohort_key(m) ==
    LET period == period_of(m) IN
    <<m.dataset, OrElse(m.context.observatory, ""), Round4(period.start), Round4(period.end),
      m.context.pool>>

Errors == {NotFound, BadRequest, InvalidManifest}

resolve_schedule_for_manifest(w, m) ==
    IF m.uri = "ws" /\ m.sha \in w.kept THEN m.sha
    ELSE IF m.uri = "file" THEN w.file
    ELSE NotFound

manifest_has_resolvable_schedule(w, m) ==
    \/ m.uri = "ws" /\ m.sha \in w.kept
    \/ m.uri = "file" /\ w.file # NotFound

(* Where the blocks of a body are placed: <<block, start>>.  A block       *)
(* starts with the first of its placed tasks.                              *)
Placed(block) == {i \in DOMAIN block.tasks : block.tasks[i].at # None}
FirstStart(block) ==
    LET starts == {block.tasks[i].at : i \in Placed(block)} IN
    CHOOSE s \in starts : \A t \in starts : s <= t

harvest_block_rows(body) ==
    IF body.shape = "scheduling_blocks"
      THEN {<<b.id, FirstStart(b)>> : b \in {b \in ToSet(body.blocks) : Placed(b) # {}}}
      ELSE {<<b.id, b.start>> : b \in {b \in ToSet(body.blocks) : b.start # None}}

(* Faulty: the cohort of a manifest is not looked at. *)
cohort_blocks_AnyCohort(w, entries, key) ==
    UNION {{<<row[1], e.id, row[2]>> :
               row \in harvest_block_rows(resolve_schedule_for_manifest(w, e.manifest))} :
           e \in {e \in entries : manifest_has_resolvable_schedule(w, e.manifest)}}

(* Any error but NotFound ends the table of the cohort. *)
cohort_blocks(w, entries, key) ==
    LET found == {e \in entries : /\ cohort_key(e.manifest) = key
                                  /\ manifest_has_resolvable_schedule(w, e.manifest)}
        bodyOf(e) == resolve_schedule_for_manifest(w, e.manifest)
        broken == {bodyOf(e) : e \in found} \cap {BadRequest, InvalidManifest}
    IN  IF broken # {} THEN CHOOSE error \in broken : TRUE
        ELSE UNION {{<<row[1], e.id, row[2]>> : row \in harvest_block_rows(bodyOf(e))} :
                    e \in found}

(* Only the present shape of a schedule is also a problem. *)
Parses(v) == v \notin Errors \cup {None} /\ v.shape = "scheduling_blocks"
resolve_problem_for_manifest(w, m) ==
    LET s == resolve_schedule_for_manifest(w, m) IN
    IF Parses(s) THEN s ELSE IF Parses(m.source) THEN m.source ELSE None

collect_task_placements(body) ==
    UNION {{<<b.tasks[i].id, b.tasks[i].at>> : i \in Placed(b)} : b \in ToSet(body.blocks)}

count_completed_blocks(problem, body) ==
    IF collect_task_placements(body) = {} THEN 0
    ELSE Cardinality({b \in ToSet(problem.blocks) : \A i \in DOMAIN b.tasks :
            \E p \in collect_task_placements(body) : p[1] = b.tasks[i].id})

block_ratios_for_manifest(w, m) ==
    LET problem == resolve_problem_for_manifest(w, m)
        body == resolve_schedule_for_manifest(w, m)
        answer(ok, ratios) == [ok |-> ok, ratios |-> ratios]
    IN  IF problem = None THEN answer(TRUE, None)
        ELSE IF <<problem, period_of(m)>> \in w.failing THEN answer(FALSE, None)
        ELSE answer(TRUE, [total |-> Len(problem.blocks),
                completed |-> IF body \in Errors THEN 0 ELSE count_completed_blocks(problem, body)])

(* An error of the counts is logged, and the row goes without them. *)
comparison_summary(w, entries) ==
    {[id |-> e.id, status |-> e.manifest.status,
      has_full_schedule |-> manifest_has_resolvable_schedule(w, e.manifest),
      cohort_key |-> cohort_key(e.manifest),
      ratios |-> LET counted == block_ratios_for_manifest(w, e.manifest) IN
                 IF counted.ok THEN counted.ratios ELSE None] : e \in entries}

list_cohorts(w, entries) ==
    LET of(key) == {e \in entries : cohort_key(e.manifest) = key} IN
    [key \in {cohort_key(e.manifest) : e \in entries} |->
        [manifest_count |-> Cardinality(of(key)),
         schedule_count |-> Cardinality({e \in of(key) :
            manifest_has_resolvable_schedule(w, e.manifest)})]]
=============================================================================
