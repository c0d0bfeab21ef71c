---------------------------- MODULE MCPipeline ----------------------------
(***************************************************************************)
(* A small instance of the pipeline around the schedulers: one behaviour   *)
(* per sample of what comes before and after a sweep, the behaviours of    *)
(* the laboratory and those of publications.  The parts share no state:    *)
(* each behaviour is one of one part.                                      *)
(***************************************************************************)
EXTENDS PipelineProperties

CONSTANTS d1, d2, x, y, b, e1, e2, h1, h2, s1, s2, a1, b1, c1

VARIABLE part

NoSample == [about |-> "nothing"]
-----------------------------------------------------------------------------
(* Samples *)

LayoutSamples == {[about |-> "layout", horizon |-> Horizon(s, s + n)] : s \in {0, 3}, n \in {4, 8}}

Beams(foms, kBeams) ==
    [foms |-> foms, endangered |-> {}, kBeams |-> kBeams, branching |-> {}]
Blocks ==
    {[kind |-> "est", axes |-> Beams(fs, ks)] :
        fs \in {{}, {"soft_constraint", "density"}}, ks \in {{}, {0}, {1, 2}}}
    \cup {[kind |-> "lst", axes |-> Beams({}, {1, 2})]}
    \cup {[kind |-> "multi_cursor",
           axes |-> [foms |-> {}, endangered |-> {}, kBeams |-> {0, 1}, branching |-> {},
                     layouts |-> ls]] :
            ls \in {{}, {"est_lst_split", "dynamic_est_lst_meet"}}}
    \cup {[kind |-> "hap",
           axes |-> [iota |-> {}, rho |-> {}, population |-> {}, modes |-> ms, caps |-> cs,
                     seeds |-> {}]] :
            ms \in {{}, {"greedy_one"}, {"greedy_one", "elitist_top_k"}},
            cs \in {{}, {2}, {2, 4}, {0, 2}}}

Dataset(id) == [id |-> id, path |-> "p", override |-> FALSE]
SweepSamples ==
    {[about |-> "sweep", horizon |-> Horizon(0, 8), content |-> [path \in {"p"} |-> "content"],
      spec |-> [datasets |-> ds, algorithms |-> as]] :
        ds \in {<<>>, <<Dataset("m")>>, <<Dataset("m"), Dataset("n")>>,
                <<Dataset("m"), Dataset("m")>>, <<Dataset("../m")>>},
        as \in UNION {[1 .. n -> Blocks] : n \in 0 .. 2}}

Metrics(pr, tr, pd, rt) ==
    [priority_ratio |-> pr, task_ratio |-> tr, priority_density |-> pd, runtime_ms |-> rt]
SomeMetrics ==
    {Metrics(1, 1, 1, Unknown), Metrics(1, 2, 1, 1), Metrics(1, 2, 1, 2), Metrics(2, 1, 1, 1),
     Metrics(2, 1, 2, 0), Metrics(0, 2, 1, 1), Metrics(Unknown, 2, 1, 1),
     Metrics(1, Unknown, -1, 2), Metrics(1, 1, Unknown, Unknown)}
Bases == {<<"m", "m", "m">>, <<"m", "m", "n">>, <<"m", "n", "o">>}
Row(k, base, metrics, sound) ==
    [key |-> k, base |-> <<base, "est", "1-1-1">>, metrics |-> metrics, exportable |-> sound]
RegistrySamples ==
    {[about |-> "registry",
      rows |-> {Row(k, bs[k], ms[k], k # unsound) : k \in DOMAIN ms},
      after |-> {Row(k, bs[k], ms[k], k # unsound) : k \in DOMAIN ms}
                \cup {Row(9, bs[1], Metrics(3, 3, 3, 1), TRUE)},
      weights |-> {[priority_ratio |-> 2, task_ratio |-> 0, runtime_ms |-> -1],
                   [priority_ratio |-> 1, task_ratio |-> 3, priority_density |-> 1]},
      options |-> {[Everything EXCEPT !.limit = 2],
                   [Everything EXCEPT !.limit = 1, !.sort = <<SortKey("runtime_ms"), SortKey("task_ratio")>>],
                   [Everything EXCEPT !.limit = 1, !.dataset = "m"],
                   [Everything EXCEPT !.limit = 1, !.metric = "runtime_ms", !.min = 1, !.max = 1]}] :
        bs \in Bases, unsound \in {0, 2}, ms \in UNION {[1 .. n -> SomeMetrics] : n \in 0 .. 3}}

Block(id, tasks) == [id |-> id, tasks |-> tasks]
Problem == <<Block("B1", <<1, 2>>), Block("B2", <<3>>)>>
Reordered == <<Block("B2", <<3>>), Block("B1", <<1, 2>>)>>
Smaller == <<Block("B2", <<3>>)>>
Meta(dataset, period, site) == [dataset |-> dataset, period |-> period, site |-> site]
Metas == {None, Meta("m", Horizon(0, 8), "site"), Meta(None, Horizon(0, 9), None),
          Meta("", Horizon(0, 8), "site"), Meta("m", None, "site"), Meta("m", Horizon(1, 9), "site")}
Placings == {[t \in {} |-> 0], [t \in {1} |-> 4], [t \in {1, 2} |-> 6 - t], [t \in {2, 3} |-> t]}

LegacyBody ==
    [metadata |-> Meta("m", Horizon(0, 8), "site"), metrics |-> "sound", shape |-> "blocks",
     blocks |-> <<[id |-> "B1", tasks |-> <<>>, start |-> 5], [id |-> "B3", tasks |-> <<>>, start |-> None]>>]
Ran(problem, placements, meta, metrics) ==
    [kind |-> "schedule", body |-> ScheduleOutput(problem, placements, meta, metrics)]
Posted(version, horizon, metrics, uri, hex, status) ==
    [kind |-> "manifest", manifest |->
       [dataset |-> "m", version |-> version, horizon |-> horizon, metrics |-> metrics,
        uri |-> uri, sha |-> None, hex |-> hex,
        source |-> ScheduleOutput(Smaller, [t \in {} |-> 0], None, None),
        context |-> [NoContext EXCEPT !.observatory = "site",
                        !.pool = block_pool_hash_from_ids(<<"B1", "B2">>)],
        status |-> status]]

Seconds ==
    {Ran(problem, [t \in {3} |-> 2], meta, "sound") :
        problem \in {Reordered, Smaller, <<>>}, meta \in Metas \ {None}}
    \cup {[kind |-> "schedule", body |-> LegacyBody]}
    \cup {Posted(v, h, me, u, hex, "valid") :
            v \in {1, 2}, h \in {Horizon(0, 8), Horizon(8, 0)}, me \in {"sound", "mismatch"},
            u \in {"none", "file", ""}, hex \in BOOLEAN}

(* The schedule of the run is kept, or lost, or its problem cannot be      *)
(* prescheduled, which for the period of another problem it may.           *)
ViewSamples ==
    {LET body == ScheduleOutput(Problem, at, meta, me) IN
     [about |-> "views", problem |-> Problem, placements |-> at,
      items |-> <<Ran(Problem, at, meta, me), second>>,
      space |-> [kept |-> {second.body : s \in {s \in {second} : s.kind = "schedule"}}
                          \cup (IF run = "lost" THEN {} ELSE {body}),
                 file |-> file1,
                 failing |-> IF run = "fails" THEN {body} \X {Horizon(0, 0), Horizon(0, 8)} ELSE {}]] :
        at \in Placings, meta \in Metas, me \in {"sound", "mismatch", None}, second \in Seconds,
        run \in {"kept", "lost", "fails"},
        file1 \in {NotFound, BadRequest, InvalidManifest, LegacyBody,
                   ScheduleOutput(Smaller, [t \in {3} |-> 7], None, None)}}

Wanted(v) ==
    /\ v.space.file = NotFound \/ (v.items[2].kind = "manifest" /\ v.items[2].manifest.uri = "file")
    /\ v.items[2].kind = "manifest" => v.items[1].body.metadata = Meta("m", Horizon(0, 8), "site")
    /\ v.items[1].body.metrics # "sound" =>
         v.items[1].body.metadata = Meta("m", Horizon(0, 8), "site") /\ DOMAIN v.placements = {1}

Samples == LayoutSamples \cup SweepSamples \cup RegistrySamples \cup {v \in ViewSamples : Wanted(v)}
-----------------------------------------------------------------------------
(* The laboratory *)

Cell(d, c) == [dataset |-> d, config |-> c]
MCCellsOf == [s \in {s1, s2} |-> IF s = s1 THEN <<Cell(d1, e1), Cell(d2, e1)>> ELSE <<Cell(d1, e2)>>]

(* Two configs find the same schedule, and so do two contents; one fails. *)
MCOutcomes ==
    {[content \in {x, y, b} |-> [config \in {e1, e2} |->
        IF content = b THEN h2 ELSE IF content = y /\ config = e2 THEN NoSchedule ELSE h1]]}

MCLegacy == {[dataset |-> d1, content |-> x, config |-> c] : c \in {e1, e2}}

(* Two sweeps use a new registry, or the second sweep runs, perhaps twice, *)
(* on an old one while that is migrated.  One edit or one fault happens.   *)
Linked == {k \in Keys : runs[k] # Absent /\ runs[k].hash # Null}
NewRegistry == \A k \in Keys : runs[k] = Absent
LaboratoryInit ==
    /\ LabInit
    /\ file = [d \in {d1, d2} |-> IF d = d1 THEN x ELSE y]
    /\ NewRegistry \/ \E k \in Linked : k.config = e1

LaboratoryNext ==
    /\ LabStep
    /\ edits' + faults' <= 1
    /\ IF part = "old registry" THEN sweep'[s1].starts = 0
       ELSE sweep'[s1].starts < 2 /\ sweep'[s2].starts < 2 /\ migration'.at = "idle"
-----------------------------------------------------------------------------
(* Publications *)

FileOf(k, bytes) == [kind |-> k, bytes |-> bytes]
MCFiles ==
    [p \in {a1, b1, c1} |->
       CASE p = a1 -> <<FileOf("schedule", "x"), FileOf("other", "o"), FileOf("schedule", "y"),
                        FileOf("schedule", "x")>>
         [] p = b1 -> <<FileOf("schedule", "x"), FileOf("schedule", "y")>>
         [] p = c1 -> <<FileOf("unmeasured", "z"), FileOf("schedule", "y")>>]

(* The first publication runs alone, the others at once; one of the        *)
(* server's faults happens.                                                *)
Begun == {p \in Publishers : client[p].at # "start"}
PublicationNext ==
    /\ PubStep
    /\ refusals' + serverFaults' <= 1
    /\ Begun' \subseteq {a1} \/ Begun' \subseteq {b1, c1}
-----------------------------------------------------------------------------
(* Whatever another part does not start from. *)
LabAtRest ==
    /\ outcome \in MCOutcomes
    /\ file = [d \in {d1, d2} |-> Missing]
    /\ runs = [k \in Keys |-> Absent] /\ schedules = [h \in Hashes |-> Absent]
    /\ NobodyWorks

MCPipelineInit ==
    /\ part \in {"samples", "new registry", "old registry", "publication"}
    /\ IF part = "samples" THEN sample \in Samples ELSE sample = NoSample
    /\ IF part \in {"new registry", "old registry"}
         THEN LaboratoryInit /\ NewRegistry = (part = "new registry")
         ELSE LabAtRest
    /\ PubInit

MCPipelineNext ==
    /\ \/ part \in {"new registry", "old registry"} /\ LaboratoryNext
       \/ part = "publication" /\ PublicationNext
    /\ UNCHANGED <<part, sample>>

MCPipelineSpec == MCPipelineInit /\ [][MCPipelineNext]_<<part, sample, labVars, pubVars>>

(* A sweep or a publication that was started goes on until it ends. *)
FairPipelineSpec ==
    /\ MCPipelineSpec
    /\ LabFairness
    /\ \A p \in Publishers : WF_pubVars(client[p].at # "start" /\ ClientSteps(p))
-----------------------------------------------------------------------------
(* Whatever was started comes to an end (runner.rs:140-203;                *)
(* migrate_schedule_dedup.rs:69-80; publish.rs:247-275).                   *)
WorkEnds ==
    /\ SweepsEnd
    /\ MigrationsEnd
    /\ PublicationsEnd
=============================================================================
