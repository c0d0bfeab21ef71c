----------------------------- MODULE Laboratory -----------------------------
(***************************************************************************)
(* The laboratory: sweeps that run the cells of an experiment in parallel  *)
(* (lab/src/experiment/runner.rs), the SQLite registry in which they keep  *)
(* the results (lab/src/registry) and the migration of a registry written  *)
(* by an older version (lab/src/bin/migrate_schedule_dedup.rs).            *)
(*                                                                         *)
(* A sweep is a process of its own with a connection of its own; its cells *)
(* run on a pool of threads and store their results one at a time, in      *)
(* transactions that SQLite serialises: one that has read, and finds that  *)
(* somebody else committed when it wants to write, fails.                  *)
(*                                                                         *)
(* A dataset file is its content, and a content is its SHA-256. What a run *)
(* computes is determined by the content it prepared and its config; what  *)
(* describes the run (metadata, metrics) is the run it comes from.         *)
(***************************************************************************)
EXTENDS Naturals, FiniteSets, Sequences

CONSTANTS
    Datasets, Contents, Configs, Hashes,
    Broken,       \* contents that prepare_problem refuses
    NoSchedule,   \* the scheduler returned an error
    Outcomes,     \* what the schedulers may compute
    Sweeps,       \* processes that run a sweep
    CellsOf,      \* the cells of each of them, in order
    MaxParallel,  \* threads of a sweep
    Legacy,       \* runs an older registry may hold
    Missing, Absent, Null,
    MaxStarts, MaxEdits, MaxFaults   \* bounds

ASSUME LabConstants ==
    /\ Broken \subseteq Contents /\ Missing \notin Contents
    /\ NoSchedule \notin Hashes /\ Null \notin Hashes
    /\ CellsOf \in [Sweeps -> Seq([dataset : Datasets, config : Configs])]
    /\ MaxParallel \in Nat \ {0}
    /\ {MaxStarts, MaxEdits, MaxFaults} \subseteq Nat

(* A run by its identity; what a run leaves behind is labelled with it. *)
Keys == [dataset : Datasets, content : Contents, config : Configs]
Rows == [hash : Hashes \cup {Null}, metadata : Keys \cup {Null}, metrics : Keys]
Bodies == [owner : Contents, raw : Contents, embedded : Keys \cup {Null}]
Artifacts == [raw : Contents, placements : Hashes, metadata : Keys, metrics : Keys]
ASSUME AbsentIsNothing ==
    /\ Absent \notin Rows /\ Absent \notin Bodies /\ Absent \notin Contents
    /\ Null \notin Keys /\ Missing \notin Artifacts
ASSUME InputsAreTyped ==
    /\ Outcomes \subseteq [Contents -> [Configs -> Hashes \cup {NoSchedule}]]
    /\ Legacy \subseteq Keys

VARIABLES
    outcome,    \* the schedule hash of a content and a config, or NoSchedule
    file,       \* the content of each dataset's file
    runs,       \* table runs, by key
    schedules,  \* table schedules, by schedule_hash
    sweep,      \* the progress of execute in each process
    cell,       \* the progress of each cell in each process
    hashed,     \* the content in the identity last built for each cell
    lock,       \* the cell that holds the registry's mutex, or 0
    stale,      \* another connection committed since the open transaction read
    migration,
    edits, faults

labVars == <<outcome, file, runs, schedules, sweep, cell, hashed, lock, stale,
             migration, edits, faults>>

Stages == {"unseen", "skipped", "pending", "running", "storing", "committing",
           "done", "failed", "panicked"}
Ended == {"skipped", "done", "failed", "panicked"}

Cells(p) == DOMAIN CellsOf[p]
DatasetOf(p, i) == CellsOf[p][i].dataset
Run(p, i, c) == [dataset |-> DatasetOf(p, i), content |-> c, config |-> CellsOf[p][i].config]

NotStarted == [phase |-> "idle", override |-> FALSE, again |-> {},
               prepared |-> [d \in Datasets |-> Absent],
               poisoned |-> FALSE, summary |-> Null, starts |-> 0]
NotMigrating == [at |-> "idle", rows |-> {}, row |-> Null,
                 taken |-> [h \in Hashes |-> Absent], ended |-> FALSE]

(* A registry as older versions left it: artifacts of the first run under  *)
(* the hash that its other runs share, no metadata, or not even a hash.    *)
OldRegistry(K, linked) ==
    /\ runs = [k \in Keys |->
         IF k \notin K THEN Absent
         ELSE [hash |-> IF k \in linked THEN outcome[k.content][k.config] ELSE Null,
               metadata |-> Null, metrics |-> k]]
    /\ \E first \in [Hashes -> linked \cup {Absent}] :
         /\ \A h \in Hashes :
              LET same == {k \in linked : outcome[k.content][k.config] = h} IN
              /\ (first[h] = Absent) = (same = {})
              /\ first[h] # Absent => first[h] \in same
              /\ \A k \in same : k.content = first[h].content
         /\ schedules = [h \in Hashes |->
              IF first[h] = Absent THEN Absent
              ELSE [owner |-> first[h].content, raw |-> first[h].content,
                    embedded |-> first[h]]]

NobodyWorks ==
    /\ sweep = [p \in Sweeps |-> NotStarted]
    /\ cell = [p \in Sweeps |-> [i \in Cells(p) |-> "unseen"]]
    /\ hashed = [p \in Sweeps |-> [i \in Cells(p) |-> Absent]]
    /\ lock = [p \in Sweeps |-> 0]
    /\ stale = [p \in Sweeps |-> FALSE]
    /\ migration = NotMigrating
    /\ edits = 0
    /\ faults = 0

LabInit ==
    /\ outcome \in Outcomes
    /\ file \in [Datasets -> Contents \cup {Missing}]
    /\ \E K \in SUBSET Legacy : \E linked \in SUBSET K :
         /\ \A k \in K : outcome[k.content][k.config] # NoSchedule
         /\ OldRegistry(K, linked)
    /\ NobodyWorks
-----------------------------------------------------------------------------
(* execute, up to the pool *)

Phase(p, ph) == sweep[p].phase = ph
Goto(p, ph) == sweep' = [sweep EXCEPT ![p].phase = ph]
Move(p, i, s) == cell' = [cell EXCEPT ![p][i] = s]
First(S) == {i \in S : \A j \in S : i <= j}
With(p, s) == {i \in Cells(p) : cell[p][i] = s}
tables == <<runs, schedules>>
outside == <<outcome, file, migration, edits, faults>>

Start(p, o) ==
    /\ Phase(p, "idle") /\ sweep[p].starts < MaxStarts
    /\ sweep' = [sweep EXCEPT ![p] = [NotStarted EXCEPT
                    !.phase = "classify", !.override = o, !.starts = sweep[p].starts + 1]]
    /\ cell' = [cell EXCEPT ![p] = [i \in Cells(p) |-> "unseen"]]
    /\ hashed' = [hashed EXCEPT ![p] = [i \in Cells(p) |-> Absent]]
    /\ UNCHANGED <<tables, lock, stale, outside>>

(* The rows the classification sees; an unreadable file has no identity. *)
Hit(p, i) ==
    /\ file[DatasetOf(p, i)] # Missing
    /\ runs[Run(p, i, file[DatasetOf(p, i)])] # Absent

Classify(p) ==
    /\ Phase(p, "classify")
    /\ \E i \in First(With(p, "unseen")) : LET at == file[DatasetOf(p, i)] IN
          /\ hashed' = [hashed EXCEPT ![p][i] = IF at = Missing THEN Absent ELSE at]
          /\ Move(p, i, IF Hit(p, i) /\ ~ sweep[p].override THEN "skipped" ELSE "pending")
          /\ sweep' = IF Hit(p, i) /\ sweep[p].override
                        THEN [sweep EXCEPT ![p].again = @ \cup {i}] ELSE sweep
    /\ UNCHANGED <<tables, lock, stale, outside>>

(* A lookup that fails counts as a miss. *)
LookupFails(p) ==
    /\ Phase(p, "classify") /\ faults < MaxFaults
    /\ \E i \in First(With(p, "unseen")) : Move(p, i, "pending")
    /\ faults' = faults + 1
    /\ UNCHANGED <<tables, sweep, hashed, lock, stale, outcome, file, migration, edits>>

Classified(p) ==
    /\ Phase(p, "classify") /\ With(p, "unseen") = {}
    /\ Goto(p, "prepare")
    /\ UNCHANGED <<tables, cell, hashed, lock, stale, outside>>

Unprepared(p) == {i \in With(p, "pending") : sweep[p].prepared[DatasetOf(p, i)] = Absent}
CanPrepare(c) == c # Missing /\ c \notin Broken

(* One dataset that cannot be prepared ends the whole execution. *)
Prepare(p) ==
    /\ Phase(p, "prepare")
    /\ \E i \in First(Unprepared(p)) : LET d == DatasetOf(p, i) IN
       IF CanPrepare(file[d])
         THEN sweep' = [sweep EXCEPT ![p].prepared[d] = file[d]]
         ELSE Goto(p, "idle")
    /\ UNCHANGED <<tables, cell, hashed, lock, stale, outside>>

Prepared(p) ==
    /\ Phase(p, "prepare") /\ Unprepared(p) = {}
    /\ Goto(p, "run")
    /\ UNCHANGED <<tables, cell, hashed, lock, stale, outside>>
-----------------------------------------------------------------------------
(* run_cell_inner, on a thread of the pool *)

Busy(p) == With(p, "running") \cup With(p, "storing") \cup With(p, "committing")
ResultOf(p, i) == Run(p, i, sweep[p].prepared[DatasetOf(p, i)])
HashOf(p, i) == outcome[ResultOf(p, i).content][ResultOf(p, i).config]
KeyOf(p, i) == Run(p, i, hashed[p][i])

BeginCell(p, i) ==
    /\ Phase(p, "run") /\ cell[p][i] = "pending" /\ Cardinality(Busy(p)) < MaxParallel
    /\ Move(p, i, "running")
    /\ UNCHANGED <<tables, sweep, hashed, lock, stale, outside>>

(* The scheduler has run on what was prepared; the identity hashes the     *)
(* file as it is now.                                                      *)
Identify(p, i) ==
    /\ cell[p][i] = "running"
    /\ LET at == file[DatasetOf(p, i)] IN
       IF HashOf(p, i) = NoSchedule \/ at = Missing
         THEN Move(p, i, "failed") /\ UNCHANGED hashed
         ELSE Move(p, i, "storing") /\ hashed' = [hashed EXCEPT ![p][i] = at]
    /\ UNCHANGED <<tables, sweep, lock, stale, outside>>

(* upsert_result takes the mutex, opens a transaction and looks for the    *)
(* schedule. A poisoned mutex is passed over.                              *)
Collides(p, i) ==
    LET s == schedules[HashOf(p, i)] IN s # Absent /\ s.owner # hashed[p][i]

(* Faulty: the owner of a stored body is not compared. *)
Lookup_AnyOwner(p, i) ==
    /\ cell[p][i] = "storing" /\ lock[p] = 0
    /\ Move(p, i, "committing") /\ lock' = [lock EXCEPT ![p] = i]
    /\ stale' = [stale EXCEPT ![p] = FALSE]
    /\ UNCHANGED <<tables, sweep, hashed, outside>>

(* Faulty: the error path forgets to release the mutex. *)
Lookup_KeepsLock(p, i) ==
    /\ cell[p][i] = "storing" /\ lock[p] = 0
    /\ lock' = [lock EXCEPT ![p] = i]
    /\ stale' = [stale EXCEPT ![p] = FALSE]
    /\ Move(p, i, IF Collides(p, i) THEN "failed" ELSE "committing")
    /\ UNCHANGED <<tables, sweep, hashed, outside>>

Lookup(p, i) ==
    /\ cell[p][i] = "storing" /\ lock[p] = 0
    /\ \/ /\ sweep[p].poisoned
          /\ Move(p, i, "done") /\ UNCHANGED <<lock, stale>>
       \/ /\ ~ sweep[p].poisoned /\ Collides(p, i)
          /\ Move(p, i, "failed") /\ UNCHANGED <<lock, stale>>
       \/ /\ ~ sweep[p].poisoned /\ ~ Collides(p, i)
          /\ Move(p, i, "committing") /\ lock' = [lock EXCEPT ![p] = i]
          /\ stale' = [stale EXCEPT ![p] = FALSE]
    /\ UNCHANGED <<tables, sweep, hashed, outside>>

Release(p) == lock' = [lock EXCEPT ![p] = 0]
OthersStale(p) == stale' = [q \in Sweeps |-> stale[q] \/ q # p]

Body(p, i) == [owner |-> hashed[p][i], raw |-> ResultOf(p, i).content, embedded |-> Null]

NewRow(p, i) == [hash |-> HashOf(p, i), metadata |-> ResultOf(p, i), metrics |-> ResultOf(p, i)]

(* Faulty: the last body stays. *)
InsertSchedule_Replaces(p, i) == [schedules EXCEPT ![HashOf(p, i)] = Body(p, i)]

(* The first body of a schedule stays; a row takes what is not null, and a *)
(* sweep's results are never null.                                         *)
InsertSchedule(p, i) ==
    IF schedules[HashOf(p, i)] = Absent
      THEN [schedules EXCEPT ![HashOf(p, i)] = Body(p, i)] ELSE schedules

UpsertRow(p, i) == [runs EXCEPT ![KeyOf(p, i)] = NewRow(p, i)]

Commit(p, i) ==
    /\ cell[p][i] = "committing" /\ lock[p] = i
    /\ \/ /\ stale[p]
          /\ Move(p, i, "failed") /\ UNCHANGED <<tables, stale>>
       \/ /\ ~ stale[p]
          /\ schedules' = InsertSchedule(p, i)
          /\ runs' = UpsertRow(p, i)
          /\ OthersStale(p)
          /\ Move(p, i, "done")
    /\ Release(p)
    /\ UNCHANGED <<sweep, hashed, outside>>

StoreFails(p, i) ==
    /\ cell[p][i] = "committing" /\ faults < MaxFaults
    /\ Move(p, i, "failed") /\ Release(p)
    /\ faults' = faults + 1
    /\ UNCHANGED <<tables, sweep, hashed, stale, outcome, file, migration, edits>>

(* A panic of the scheduler, or one under the mutex that it poisons.       *)
Panic(p, i) ==
    /\ cell[p][i] \in {"running", "committing"} /\ faults < MaxFaults
    /\ Move(p, i, "panicked")
    /\ sweep' = [sweep EXCEPT ![p].poisoned = @ \/ lock[p] = i]
    /\ lock' = [lock EXCEPT ![p] = IF @ = i THEN 0 ELSE @]
    /\ faults' = faults + 1
    /\ UNCHANGED <<tables, hashed, stale, outcome, file, migration, edits>>

AllEnded(p) == \A i \in Cells(p) : cell[p][i] \in Ended
Summary(p) ==
    [total |-> Len(CellsOf[p]), skipped |-> Cardinality(With(p, "skipped")),
     overridden |-> Cardinality(sweep[p].again),
     completed |-> Cardinality(With(p, "done")), failed |-> Cardinality(With(p, "failed"))]

(* The pool hands a panic on once the other cells have ended: no summary.  *)
Return(p) ==
    /\ Phase(p, "run") /\ AllEnded(p)
    /\ sweep' = [sweep EXCEPT ![p].phase = "idle",
                    ![p].summary = IF With(p, "panicked") # {} THEN Null ELSE Summary(p)]
    /\ UNCHANGED <<tables, cell, hashed, lock, stale, outside>>

(* The process is killed; SQLite rolls its transaction back. *)
Kill(p) ==
    /\ sweep[p].phase # "idle" /\ faults < MaxFaults
    /\ Goto(p, "idle")
    /\ cell' = [cell EXCEPT ![p] = [i \in Cells(p) |->
                   IF @[i] \in Ended THEN @[i] ELSE "failed"]]
    /\ Release(p)
    /\ faults' = faults + 1
    /\ UNCHANGED <<tables, hashed, stale, outcome, file, migration, edits>>
-----------------------------------------------------------------------------
(* The migration *)

untouched == <<outcome, file, sweep, cell, hashed, lock, edits>>
AllStale == stale' = [q \in Sweeps |-> TRUE]
Unlabelled == {k \in Keys : runs[k] # Absent /\ runs[k].hash # Null /\ runs[k].metadata = Null}

StartMigration ==
    /\ migration.at = "idle" /\ ~ migration.ended
    /\ migration' = [NotMigrating EXCEPT !.at = "backfill", !.rows = Unlabelled]
    /\ UNCHANGED <<untouched, tables, stale, faults>>

(* metadata_json_from_identity hashes the file, then reads it once more.   *)
CheckRow(k) ==
    /\ migration.at = "backfill" /\ migration.row = Null /\ k \in migration.rows
    /\ migration' = IF file[k.dataset] = k.content
                      THEN [migration EXCEPT !.row = k]
                      ELSE [migration EXCEPT !.rows = @ \ {k}]
    /\ UNCHANGED <<untouched, tables, stale, faults>>

FillRow ==
    /\ migration.at = "backfill" /\ migration.row # Null
    /\ LET k == migration.row
           c == file[k.dataset]
       IN  IF CanPrepare(c)
             THEN /\ runs' = [runs EXCEPT ![k].metadata = [k EXCEPT !.content = c]]
                  /\ AllStale
             ELSE UNCHANGED <<runs, stale>>
    /\ migration' = [migration EXCEPT !.rows = @ \ {migration.row}, !.row = Null]
    /\ UNCHANGED <<untouched, schedules, faults>>

TakeBodies ==
    /\ migration.at = "backfill" /\ migration.rows = {}
    /\ migration' = [migration EXCEPT !.at = "strip", !.taken = schedules]
    /\ UNCHANGED <<untouched, tables, stale, faults>>

(* Faulty: a body that was stripped is visited again. *)
StripBody_Revisits(h) ==
    /\ migration.at = "strip" /\ migration.taken[h] # Absent
    /\ schedules' = [schedules EXCEPT ![h] = [migration.taken[h] EXCEPT !.embedded = Null]]
    /\ AllStale
    /\ UNCHANGED <<untouched, runs, migration, faults>>

StripBody(h) ==
    /\ migration.at = "strip" /\ migration.taken[h] # Absent
    /\ IF migration.taken[h].embedded # Null
         THEN /\ schedules' = [schedules EXCEPT ![h] = [migration.taken[h] EXCEPT !.embedded = Null]]
              /\ AllStale
         ELSE UNCHANGED <<schedules, stale>>
    /\ migration' = [migration EXCEPT !.taken[h] = Absent]
    /\ UNCHANGED <<untouched, runs, faults>>

EndMigration ==
    /\ migration.at = "strip" /\ \A h \in Hashes : migration.taken[h] = Absent
    /\ migration' = [NotMigrating EXCEPT !.ended = TRUE]
    /\ UNCHANGED <<untouched, tables, stale, faults>>

KillMigration ==
    /\ migration.at # "idle" /\ faults < MaxFaults
    /\ migration' = NotMigrating
    /\ faults' = faults + 1
    /\ UNCHANGED <<untouched, tables, stale>>
-----------------------------------------------------------------------------
(* Somebody edits, removes or puts back a dataset file. *)
Edit(d, c) ==
    /\ edits < MaxEdits /\ file[d] # c
    /\ file' = [file EXCEPT ![d] = c]
    /\ edits' = edits + 1
    /\ UNCHANGED <<outcome, tables, sweep, cell, hashed, lock, stale, migration, faults>>

CellSteps(p, i) == BeginCell(p, i) \/ Identify(p, i) \/ Lookup(p, i) \/ Commit(p, i)
SweepSteps(p) ==
    \/ Classify(p) \/ Classified(p) \/ Prepare(p) \/ Prepared(p) \/ Return(p)
    \/ \E i \in Cells(p) : CellSteps(p, i)
MigrationSteps ==
    FillRow \/ TakeBodies \/ EndMigration
    \/ (\E k \in Keys : CheckRow(k)) \/ (\E h \in Hashes : StripBody(h))

LabNext ==
    \/ \E p \in Sweeps :
         \/ SweepSteps(p) \/ LookupFails(p) \/ Kill(p)
         \/ \E o \in BOOLEAN : Start(p, o)
         \/ \E i \in Cells(p) : StoreFails(p, i) \/ Panic(p, i)
    \/ StartMigration \/ MigrationSteps \/ KillMigration
    \/ \E d \in Datasets, c \in Contents \cup {Missing} : Edit(d, c)

(* Started threads and processes go on until they end or are killed. *)
LabFairness ==
    /\ \A p \in Sweeps : WF_labVars(SweepSteps(p))
    /\ WF_labVars(MigrationSteps)

LabSpec == LabInit /\ [][LabNext]_labVars
FairLabSpec == LabSpec /\ LabFairness
-----------------------------------------------------------------------------
(* reconstruct_artifact and check_integrity *)

(* Faulty: run-specific fields found in the body are trusted. *)
Export_TrustsBody(k) ==
    LET row == runs[k] IN
    IF row.hash = Null \/ schedules[row.hash] = Absent THEN Missing
    ELSE IF schedules[row.hash].embedded # Null
      THEN [raw |-> schedules[row.hash].raw, placements |-> row.hash,
            metadata |-> schedules[row.hash].embedded, metrics |-> schedules[row.hash].embedded]
    ELSE IF row.metadata = Null THEN Missing
    ELSE [raw |-> schedules[row.hash].raw, placements |-> row.hash,
          metadata |-> row.metadata, metrics |-> row.metrics]

Export(k) ==
    LET row == runs[k] IN
    IF row.hash = Null \/ schedules[row.hash] = Absent \/ row.metadata = Null THEN Missing
    ELSE [raw |-> schedules[row.hash].raw, placements |-> row.hash,
          metadata |-> row.metadata, metrics |-> row.metrics]

MissingBodies == {k \in Keys : /\ runs[k] # Absent /\ runs[k].hash # Null
                               /\ schedules[runs[k].hash] = Absent}
OrphanBodies == {h \in Hashes : /\ schedules[h] # Absent
                                /\ ~ \E k \in Keys : runs[k] # Absent /\ runs[k].hash = h}
=============================================================================
