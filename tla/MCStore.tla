------------------------------ MODULE MCStore ------------------------------
(***************************************************************************)
(* Instances of the workspace store for TLC. A behaviour belongs to one of *)
(* the scenarios of the instance, chosen at its start:                     *)
(*   "faults"     clients at once, several workspaces, one manifest of one *)
(*                schedule; workspaces are archived and stay so; writes    *)
(*                fail and the process dies,                               *)
(*   "kept"       no client deletes a workspace,                           *)
(*   "together"   clients at once in one workspace, who also post a        *)
(*                manifest that references the schedule s1 of it,          *)
(*   "alone"      one client in one workspace, whose own manifest          *)
(*                references no schedule.                                  *)
(* Nothing fails in the last two.                                          *)
(***************************************************************************)
EXTENDS WorkspaceProperties

CONSTANTS m1, m2, m3, s1, s2, Scenarios

ASSUME KnownScenarios == Scenarios \subseteq {"faults", "kept", "together", "alone"}

VARIABLE scenario

(* Clients only ingest schedules. *)
NoImports == {}

(* Clients also post a manifest that references a schedule of the          *)
(* workspace, as one read from another workspace does, or that references  *)
(* none.                                                                   *)
BothImports ==
    {[manifest |-> m3, schedule |-> s1], [manifest |-> m3, schedule |-> Unlinked]}

Begins(c, op) == section[c] = Idle /\ section'[c] # Idle /\ section'[c].op = op

FaultsStep ==
    \A c \in Clients :
        /\ Begins(c, "put") => section'[c].manifest = m1 /\ section'[c].schedule = s1
        /\ Begins(c, "add") => section'[c].manifest = m1
        /\ Begins(c, "update") => known'[section'[c].ws].status = "archived"

OneWorkspace ==
    \A c \in Clients : section'[c] # Idle => section'[c].ws = CHOOSE w \in Workspaces : TRUE

NothingFails == failures' = failures /\ crashes' = crashes

KeptStep == \A c \in Clients : ~ Begins(c, "delete")

TogetherStep ==
    \A c \in Clients :
        /\ Begins(c, "put") => section'[c].schedule = s1
        /\ Begins(c, "add") /\ section'[c].manifest = m3 => section'[c].schedule = s1

AloneStep ==
    \A c \in Clients :
        /\ section'[c] # Idle => c = CHOOSE d \in Clients : TRUE
        /\ Begins(c, "add") => section'[c].manifest = m3 /\ section'[c].schedule = Unlinked

ScenarioInit == Init /\ scenario \in Scenarios
ScenarioNext ==
    /\ Next
    /\ scenario = "faults" => FaultsStep
    /\ scenario = "kept" => KeptStep
    /\ scenario \in {"together", "alone"} => OneWorkspace /\ NothingFails
    /\ scenario = "together" => TogetherStep
    /\ scenario = "alone" => AloneStep
    /\ UNCHANGED scenario
ScenarioSpec == ScenarioInit /\ [][ScenarioNext]_<<vars, scenario>>

(* With one client, between requests, every listed manifest that           *)
(* references a stored schedule finds its file (routes.rs:435-465); with   *)
(* two the run store_race shows how it can be lost.                        *)
AloneScheduleStored == scenario = "alone" => ListedScheduleStored

(* With one client, removing a manifest collects a schedule only if no     *)
(* manifest that stays listed references it (store.rs:483-496;             *)
(* tests.rs:503-504).                                                      *)
AloneCollects ==
    [][scenario = "alone" =>
         \A c \in Clients : \A w \in Workspaces, s \in Schedules :
            Holding(c, "collect") /\ s \in files[w] /\ s \notin files'[w] =>
               \A e \in section[c].index.entries : bodies[w][e.manifest] # s]_vars

(* One client by itself that ingests schedules and posts only a manifest   *)
(* of its own without a stored schedule loses no schedule that a manifest  *)
(* references (store.rs:483-496).                                          *)
AloneLosesNothing ==
    /\ []AloneScheduleStored
    /\ AloneCollects
=============================================================================
