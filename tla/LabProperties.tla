--------------------------- MODULE LabProperties ---------------------------
(***************************************************************************)
(* What makes the laboratory correct.                                      *)
(***************************************************************************)
EXTENDS Laboratory

(* Both tables hold rows their readers expect; a cell has an identity      *)
(* before it stores and holds the mutex while its transaction is open.     *)
LabTypeOK ==
    /\ outcome \in [Contents -> [Configs -> Hashes \cup {NoSchedule}]]
    /\ file \in [Datasets -> Contents \cup {Missing}]
    /\ runs \in [Keys -> Rows \cup {Absent}]
    /\ schedules \in [Hashes -> Bodies \cup {Absent}]
    /\ \A p \in Sweeps :
         /\ cell[p] \in [Cells(p) -> Stages]
         /\ hashed[p] \in [Cells(p) -> Contents \cup {Absent}]
         /\ lock[p] \in Cells(p) \cup {0}
         /\ \A i \in Cells(p) :
              /\ cell[p][i] \in {"storing", "committing"} => hashed[p][i] # Absent
              /\ (cell[p][i] = "committing") = (lock[p] = i)

(* A run that is linked to a schedule finds its body, and the body is one  *)
(* of the same dataset, whatever sweeps and migrations run at once and     *)
(* wherever they are cut short (create.rs:12-19, 30-54; read.rs:20-50).    *)
LinkedRunsHaveOwnBody ==
    \A k \in Keys : runs[k] # Absent /\ runs[k].hash # Null =>
       /\ schedules[runs[k].hash] # Absent
       /\ schedules[runs[k].hash].owner = k.content

(* As long as nobody edits the dataset files, every body belongs to a run, *)
(* so the registry's own integrity check finds nothing (read.rs:20-50).    *)
IntegrityHolds == MissingBodies = {} /\ (edits = 0 => OrphanBodies = {})

(* The metadata, the metrics and the schedule of a row are those of one    *)
(* execution; they are those of the row's identity unless a file was       *)
(* edited while a sweep ran (runner.rs:278-310; identity.rs:24-27).  A     *)
(* migration may fill in metadata of an edited file.                       *)
Migrated == migration # NotMigrating \/ faults > 0
RowIsOfOneRun ==
    \A k \in Keys : runs[k] # Absent =>
       LET r == runs[k] IN
       /\ r.hash # Null => r.hash = outcome[r.metrics.content][r.metrics.config]
       /\ r.metadata # Null /\ ~ Migrated => r.metadata = r.metrics
       /\ r.metrics.dataset = k.dataset /\ r.metrics.config = k.config
       /\ edits = 0 => r.metrics = k /\ r.metadata \in {k, Null}

(* An exported artifact tells of the run it is asked for, also when its    *)
(* body is shared with other runs, and at every moment of a migration,     *)
(* wherever it stops (export.rs:21-83; migrate_schedule_dedup.rs:69-80).   *)
ExportIsOwn ==
    edits = 0 => \A k \in Keys : runs[k] # Absent /\ Export(k) # Missing =>
       Export(k) = [raw |-> k.content, placements |-> outcome[k.content][k.config],
                    metadata |-> k, metrics |-> k]

(* A sweep that returns a summary has accounted for each cell once, and    *)
(* the registry holds a result for each cell it counts as completed or as  *)
(* skipped; also when the mutex was poisoned and results were not stored   *)
(* (runner.rs:169-203, 299-310).                                           *)
SummaryIsTruthful ==
    \A p \in Sweeps : sweep[p].summary # Null =>
       LET s == sweep[p].summary IN
       /\ s.skipped + s.completed + s.failed = s.total
       /\ sweep[p].override => s.skipped = 0
       /\ s.overridden <= s.completed + s.failed
       /\ \A i \in Cells(p) : cell[p][i] \in {"done", "skipped"} =>
             /\ runs[KeyOf(p, i)] # Absent
             /\ cell[p][i] = "done" => Export(KeyOf(p, i)) # Missing

(* Nothing that is stored is lost: rows stay, with a schedule and metadata *)
(* once they have them, and a body only ever loses what an older version   *)
(* embedded in it (create.rs:12-19; migrate_schedule_dedup.rs:17-18).      *)
NothingIsLost ==
    /\ \A k \in Keys : runs[k] # Absent =>
         /\ runs'[k] # Absent
         /\ runs[k].hash # Null => runs'[k].hash # Null
         /\ runs[k].metadata # Null => runs'[k].metadata # Null
    /\ \A h \in Hashes : schedules[h] # Absent =>
         schedules'[h] \in {schedules[h], [schedules[h] EXCEPT !.embedded = Null]}
StoredStays == [][NothingIsLost]_tables

(* Once a migration has come to its end, started over or not, no body is   *)
(* left with fields of one run, and a linked run without metadata is one   *)
(* whose dataset could not be read (migrate_schedule_dedup.rs:7-18).       *)
MigrationIsComplete ==
    migration.ended =>
       /\ \A h \in Hashes : schedules[h] # Absent => schedules[h].embedded = Null
       /\ edits = 0 => \A k \in Unlabelled : file[k.dataset] # k.content \/ k.content \in Broken

(* Rows, exports, summaries and the end of a migration tell what was run,  *)
(* whatever sweeps ran at once, and wherever they were cut short           *)
(* (runner.rs:169-310; export.rs:21-83).                                   *)
RecordsAreTruthful ==
    /\ IntegrityHolds
    /\ RowIsOfOneRun
    /\ ExportIsOwn
    /\ SummaryIsTruthful
    /\ MigrationIsComplete

(* A sweep that was started ends, with a summary, an error or a panic, and *)
(* so does a migration: nobody waits for the mutex for ever, and there is  *)
(* always a time when nobody is at work (runner.rs:140-203;                *)
(* migrate_schedule_dedup.rs:69-80).                                       *)
SweepsEnd == []<>(\A p \in Sweeps : sweep[p].phase = "idle")
MigrationsEnd == []<>(migration.at = "idle")
=============================================================================
