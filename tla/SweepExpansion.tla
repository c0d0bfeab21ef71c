--------------------------- MODULE SweepExpansion ---------------------------
(***************************************************************************)
(* From an experiment specification to the cells of a sweep                *)
(* (lab/src/experiment/cell.rs, config.rs, spec.rs).                       *)
(*                                                                         *)
(* A specification is a sequence of datasets and a sequence of algorithm   *)
(* blocks; a block is its kind and the set of values of each of its axes.  *)
(* A slug is the tuple of what its text is put together from.              *)
(***************************************************************************)
EXTENDS Integers, Sequences, FiniteSets

CONSTANTS
    NoCursor,     \* the side of a territory follows no cursor
    InvalidIds,   \* dataset ids that are no file names
    Rejected      \* the specification cannot be expanded

ASSUME NoCursorIsNoNumber == NoCursor \notin Nat
-----------------------------------------------------------------------------
(* The cursor layouts that can be asked for by name: the presets of the    *)
(* scheduler (schedulers/src/scheduler/cursor/config.rs) and the layouts   *)
(* of the laboratory (lab/src/experiment/config.rs), over a horizon h.     *)
(*                                                                         *)
(* A layout is a function of the cursors, in the form CursorEngine takes.  *)
(* The fractions of the horizon that the layouts use are quarters.         *)

Sitting(t) == [follows |-> NoCursor, at |-> t]
Below(h, c) == [follows |-> c, at |-> h.start]
Above(h, c) == [follows |-> c, at |-> h.end]

FractionRange(h, a, b) ==
    LET span == h.end - h.start IN
    [lo |-> Sitting(h.start + (span * a) \div 4), hi |-> Sitting(h.start + (span * b) \div 4)]

Cursor(dir, territory) == [dir |-> dir, lo |-> territory.lo, hi |-> territory.hi, gap |-> 0]
CursorForward(territory) == Cursor("forward", territory)
CursorBackward(territory) == Cursor("backward", territory)

(* Presets of the scheduler *)
single_forward(h) == [c \in {0} |-> CursorForward(FractionRange(h, 0, 4))]
single_backward(h) == [c \in {0} |-> CursorBackward(FractionRange(h, 0, 4))]
four_quarter_forward(h) == [c \in 0 .. 3 |-> CursorForward(FractionRange(h, c, c + 1))]
dynamic_est_lst_meet(h) ==
    [c \in 0 .. 1 |->
       IF c = 0 THEN CursorForward([lo |-> Sitting(h.start), hi |-> Above(h, 1)])
                ELSE CursorBackward([lo |-> Below(h, 0), hi |-> Sitting(h.end)])]

dynamic_start_mid_forward(h) ==
    [c \in 0 .. 1 |->
       IF c = 0 THEN CursorForward([lo |-> Sitting(h.start), hi |-> Above(h, 1)])
                ELSE CursorForward(FractionRange(h, 2, 4))]

(* Layouts of the laboratory *)
LayoutNames == {"est_lst_split", "start_mid_forward", "four_quarter_forward",
                "dynamic_est_lst_meet", "dynamic_start_mid_forward"}
FrontHalf(h) == FractionRange(h, 0, 2)
BackHalf(h) == FractionRange(h, 2, 4)
UpTo(h, c) == [lo |-> Sitting(h.start), hi |-> Above(h, c)]
DownTo(h, c) == [lo |-> Below(h, c), hi |-> Sitting(h.end)]

cursors(name, h) ==
    CASE name = "est_lst_split" -> [c \in 0 .. 1 |->
           IF c = 0 THEN CursorForward(FrontHalf(h)) ELSE CursorBackward(BackHalf(h))]
      [] name = "start_mid_forward" -> [c \in 0 .. 1 |->
           CursorForward(IF c = 0 THEN FrontHalf(h) ELSE BackHalf(h))]
      [] name = "four_quarter_forward" -> [c \in 0 .. 3 |->
           CursorForward(FractionRange(h, c, c + 1))]
      [] name = "dynamic_est_lst_meet" -> [c \in 0 .. 1 |->
           IF c = 0 THEN CursorForward(UpTo(h, 1)) ELSE CursorBackward(DownTo(h, 0))]
      [] name = "dynamic_start_mid_forward" -> [c \in 0 .. 1 |->
           CursorForward(IF c = 0 THEN UpTo(h, 1) ELSE BackHalf(h))]
-----------------------------------------------------------------------------
(* The axes of an algorithm block *)

DefaultFom == "soft_constraint"

pick_or_default(axis, default) == IF axis = {} THEN {default} ELSE axis

(* insert_est_configs and insert_lst_configs *)
BeamConfigs(kind, axes) ==
    [kind : {kind}, fom : pick_or_default(axes.foms, DefaultFom),
     endangered : pick_or_default(axes.endangered, 1),
     kBeams : pick_or_default(axes.kBeams, 1),
     branching : pick_or_default(axes.branching, 1)]

insert_multi_cursor_configs(axes) ==
    [kind : {"multi_cursor"}, fom : pick_or_default(axes.foms, DefaultFom),
     endangered : pick_or_default(axes.endangered, 1),
     kBeams : pick_or_default(axes.kBeams, 1),
     branching : pick_or_default(axes.branching, 1),
     layout : pick_or_default(axes.layouts, "est_lst_split")]

insert_hap_configs(axes) ==
    [kind : {"hap"}, iota : pick_or_default(axes.iota, 128),
     rho : pick_or_default(axes.rho, 3),
     population : pick_or_default(axes.population, 4),
     mode : pick_or_default(axes.modes, "elitist_top_k"),
     cap : pick_or_default(axes.caps, 4),
     seed : pick_or_default(axes.seeds, 0)]

Expand(sweep) ==
    CASE sweep.kind \in {"est", "lst"} -> BeamConfigs(sweep.kind, sweep.axes)
      [] sweep.kind = "multi_cursor" -> insert_multi_cursor_configs(sweep.axes)
      [] sweep.kind = "hap" -> insert_hap_configs(sweep.axes)

(* build_scheduler: a beam search raises its parameters to one, HAP        *)
(* refuses to run with zero.                                               *)
Builds(c) == c.kind = "hap" => c.iota # 0 /\ c.rho # 0 /\ c.population # 0 /\ c.cap # 0

AtLeastOne(n) == IF n = 0 THEN 1 ELSE n
into_selector(c) ==
    IF c.mode = "greedy_one" THEN <<"greedy">> ELSE <<c.mode, AtLeastOne(c.cap)>>

est_scheduler(c, territories) ==
    [fom |-> c.fom, endangered |-> c.endangered, kBeams |-> AtLeastOne(c.kBeams),
     branching |-> AtLeastOne(c.branching), cursors |-> territories]

hap_scheduler(c) ==
    [iota |-> c.iota, rho |-> c.rho, population |-> AtLeastOne(c.population),
     survivor |-> into_selector(c), seed |-> c.seed]

build_scheduler(c, h) ==
    CASE c.kind = "est" -> est_scheduler(c, single_forward(h))
      [] c.kind = "lst" -> est_scheduler(c, single_backward(h))
      [] c.kind = "multi_cursor" -> est_scheduler(c, cursors(c.layout, h))
      [] c.kind = "hap" -> hap_scheduler(c)

(* Faulty: a figure of merit never shows in the slug. *)
Slug_NoFom(c) ==
    CASE c.kind \in {"est", "lst"} -> <<c.endangered, c.kBeams, c.branching>>
      [] c.kind = "multi_cursor" -> <<c.layout, c.endangered, c.kBeams, c.branching>>
      [] c.kind = "hap" -> <<c.iota, c.rho, c.population, into_selector(c), c.seed>>

(* The default figure of merit does not show, nor does the cap of greedy_one. *)
FomSuffix(fom) == IF fom = DefaultFom THEN <<>> ELSE <<fom>>
EstSlug(c) == <<c.endangered, c.kBeams, c.branching>> \o FomSuffix(c.fom)
MultiCursorSlug(c) == <<c.layout>> \o EstSlug(c)
HapSlug(c) ==
    <<c.iota, c.rho, c.population,
      IF c.mode = "greedy_one" THEN <<"greedy">> ELSE <<c.mode, c.cap>>, c.seed>>
Slug(c) ==
    CASE c.kind \in {"est", "lst"} -> EstSlug(c)
      [] c.kind = "multi_cursor" -> MultiCursorSlug(c)
      [] c.kind = "hap" -> HapSlug(c)

CellId(spec, cell) == <<spec.datasets[cell.dataset].id, cell.config.kind, Slug(cell.config)>>

(* A cell by its place in the specification and its configuration. *)
AllCells(spec) ==
    UNION {[dataset : DOMAIN spec.datasets, block : {j}, config : Expand(spec.algorithms[j])] :
           j \in DOMAIN spec.algorithms}

resolve_cells(spec) ==
    IF \/ spec.datasets = <<>> \/ spec.algorithms = <<>>
       \/ \E i \in DOMAIN spec.datasets : spec.datasets[i].id \in InvalidIds
       \/ \E j \in DOMAIN spec.algorithms :
             Expand(spec.algorithms[j]) = {} \/ \E c \in Expand(spec.algorithms[j]) : ~ Builds(c)
       \/ \E a, b \in AllCells(spec) : a # b /\ CellId(spec, a) = CellId(spec, b)
    THEN Rejected ELSE AllCells(spec)

(* build_identity: what the run key is the hash of, for a dataset whose    *)
(* file has the content that contentOf gives.                              *)
build_identity(spec, cell, contentOf) ==
    LET d == spec.datasets[cell.dataset] IN
    [dataset |-> d.id, hash |-> contentOf[d.path], kind |-> cell.config.kind,
     slug |-> Slug(cell.config), config |-> cell.config, override |-> d.override]
=============================================================================
