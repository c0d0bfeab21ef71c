--------------------------- MODULE WorkspaceStore ---------------------------
(***************************************************************************)
(* The file store of the web application's workspaces, with the requests   *)
(* that change it (webapp/src/workspaces/store.rs, routes.rs).             *)
(*                                                                         *)
(* A request takes the one mutex of the store, reads what it needs,        *)
(* decides, and then writes one file after the other; every write is a     *)
(* step of its own.  Ingesting a schedule takes the mutex twice.  A write  *)
(* may fail: the request gives up with an error and leaves what it wrote.  *)
(* The process may crash: memory is lost and read back from the registry.  *)
(* A single write is atomic, being a temporary file and a rename.          *)
(*                                                                         *)
(* workspace.json is never read back, and a missing index reads as an      *)
(* empty one; neither is represented.                                      *)
(***************************************************************************)
EXTENDS Integers, FiniteSets

CONSTANTS
    Workspaces,    \* workspace ids (slugs of names)
    Manifests,     \* manifest ids
    Schedules,     \* SHA-256 of schedule bodies
    Keys,          \* idempotency keys that clients may give
    Imports,       \* manifests that clients bring: [manifest, schedule]
    Reimports,     \* clients also post again manifests that the store kept
    Clients,       \* concurrent requests
    Absent,        \* no such file, record or slot
    Unlinked,      \* a manifest that references no stored schedule
    MaxFailures,   \* bound: failed writes of a behaviour
    MaxCrashes     \* bound: crashes of a behaviour

ASSUME StoreConstants ==
    /\ Imports \subseteq [manifest : Manifests, schedule : Schedules \cup {Unlinked}]
    /\ Reimports \in BOOLEAN
    /\ Absent \notin Schedules \cup Manifests \cup Keys \cup {Unlinked}
    /\ Unlinked \notin Schedules
    /\ MaxFailures \in Nat /\ MaxCrashes \in Nat

VARIABLES
    known,      \* memory: the record of each workspace
    top,        \* disk: the registry of workspaces, top-level index.json
    index,      \* disk: per workspace, the membership list and schedule slots
    bodies,     \* disk: per workspace and manifest, the schedule it references
    files,      \* disk: per workspace, the schedule files
    section,    \* what the request of each client has still to do
    acked,      \* history: [ws, manifest] whose registration was answered as
                \* created and whose removal nobody requested since
    echoed,     \* history: likewise, for registrations answered only with an
                \* existing entry
    failures,   \* bounded by MaxFailures
    crashes     \* bounded by MaxCrashes

disk == <<top, index, bodies, files>>
answers == <<acked, echoed>>
faults == <<failures, crashes>>
vars == <<known, disk, section, answers, faults>>

(* ManifestEntry, WsIndex and WorkspaceRecord. slots[s] holds the          *)
(* manifest_ids of the slot of s.                                          *)
Entries == [key : Keys \cup Manifests, manifest : Manifests]
Indexes == [entries : SUBSET Entries,
            slots : [Schedules -> (SUBSET Manifests) \cup {Absent}]]
Counts == {Cardinality(E) : E \in SUBSET Entries}
Records == [status : {"active", "archived"}, count : Counts]
ASSUME AbsentIsNoRecord == Absent \notin Records
ASSUME AbsentIsNoSlot == \A slot \in SUBSET Manifests : slot # Absent

EmptyIndex == [entries |-> {}, slots |-> [s \in Schedules |-> Absent]]

(* A request in progress. At "idle" and "stored" it does not hold the      *)
(* mutex; "stored" lies between the two halves of an ingestion.            *)
Stages == {"stored", "body", "file", "unlink", "collect", "rmdir", "index", "top"}
Idle == [at |-> "idle"]
Sections ==
    [op : {"create", "update", "delete", "add", "remove", "put"},
     at : Stages,
     ws : Workspaces,
     manifest : Manifests \cup {Absent},
     schedule : Schedules \cup {Unlinked, Absent},
     key : Keys \cup Manifests \cup {Absent},
     index : Indexes,                 \* the index to be written
     record : Records \cup {Absent}]  \* the record to be kept in memory

Request(op, at, w) ==
    [op |-> op, at |-> at, ws |-> w, manifest |-> Absent, schedule |-> Absent,
     key |-> Absent, index |-> EmptyIndex, record |-> Absent]

Holds(c) == section[c].at \notin {"idle", "stored"}

(* Faulty: nobody waits for the mutex. *)
Free_Always == TRUE
Free == \A c \in Clients : ~ Holds(c)

Goto(c, at) == section' = [section EXCEPT ![c].at = at]
Done(c) == section' = [section EXCEPT ![c] = Idle]
Holding(c, at) == section[c].at = at

HasKey(w, k) == \E e \in index[w].entries : e.key = k
Lists(w, m) == \E e \in index[w].entries : e.manifest = m

-----------------------------------------------------------------------------
Init ==
    /\ known = [w \in Workspaces |-> Absent]
    /\ top = [w \in Workspaces |-> Absent]
    /\ index = [w \in Workspaces |-> EmptyIndex]
    /\ bodies = [w \in Workspaces |-> [m \in Manifests |-> Absent]]
    /\ files = [w \in Workspaces |-> {}]
    /\ section = [c \in Clients |-> Idle]
    /\ acked = {} /\ echoed = {}
    /\ failures = 0 /\ crashes = 0

CreateWorkspace(c, w) ==
    /\ section[c] = Idle /\ Free
    /\ known[w] = Absent
    /\ section' = [section EXCEPT ![c] =
          [Request("create", "index", w) EXCEPT !.record = [status |-> "active", count |-> 0]]]
    /\ UNCHANGED <<known, disk, answers, faults>>

(* The record in memory changes before anything is written. *)
UpdateWorkspace(c, w, status) ==
    /\ section[c] = Idle /\ Free
    /\ known[w] # Absent
    /\ known' = [known EXCEPT ![w].status = status]
    /\ section' = [section EXCEPT ![c] = Request("update", "top", w)]
    /\ UNCHANGED <<disk, answers, faults>>

DeleteWorkspace(c, w) ==
    /\ section[c] = Idle /\ Free
    /\ known[w] # Absent
    /\ section' = [section EXCEPT ![c] = Request("delete", "rmdir", w)]
    /\ acked' = {a \in acked : a.ws # w}
    /\ echoed' = {a \in echoed : a.ws # w}
    /\ UNCHANGED <<known, disk, faults>>

(* The new slots once manifest m, which references schedule s, is listed:  *)
(* s is cross-referenced only if it has a slot.                            *)
(* Faulty: the cross-reference is forgotten. *)
CrossReferenced_Not(slots, m, s) == slots
CrossReferenced(slots, m, s) ==
    IF s \in Schedules /\ slots[s] # Absent
      THEN [slots EXCEPT ![s] = @ \cup {m}]
      ELSE slots

(* The critical section that lists manifest m, which references s, in w.   *)
(* A body is written only if there is none.                                *)
Adding(w, m, s, k) ==
    LET entries == index[w].entries \cup {[key |-> k, manifest |-> m]}
    IN  [Request("add", IF bodies[w][m] = Absent THEN "body" ELSE "index", w) EXCEPT
           !.manifest = m,
           !.schedule = s,
           !.index = [entries |-> entries, slots |-> CrossReferenced(index[w].slots, m, s)],
           !.record = [known[w] EXCEPT !.count = Cardinality(entries)]]

(* The manifests a client may post: its own, and those whose bodies the    *)
(* store keeps.                                                            *)
Posts(w) ==
    Imports \cup {[manifest |-> m, schedule |-> bodies[w][m]] :
                     m \in {n \in Manifests : Reimports /\ bodies[w][n] # Absent}}

(* A client posts a manifest, under a key or under its id. *)
ImportManifest(c, w, i, k) ==
    /\ section[c] = Idle /\ Free
    /\ known[w] # Absent
    /\ ~ HasKey(w, k)
    /\ section' = [section EXCEPT ![c] = Adding(w, i.manifest, i.schedule, k)]
    /\ UNCHANGED <<known, disk, answers, faults>>

(* A key in use is answered with its entry, a success, and nothing is      *)
(* looked at or written. Recorded is what no other answer stands for.      *)
Echo(w, k) ==
    echoed' = echoed \cup
       ({[ws |-> w, manifest |-> e.manifest] : e \in {f \in index[w].entries : f.key = k}} \ acked)

RepeatImport(c, w, k) ==
    /\ section[c] = Idle /\ Free
    /\ known[w] # Absent
    /\ HasKey(w, k)
    /\ Echo(w, k)
    /\ UNCHANGED <<known, disk, section, acked, faults>>

(* An id that occurs nowhere, as a random UUID does. *)
Fresh(m) ==
    /\ \A i \in Imports : i.manifest # m
    /\ \A w \in Workspaces :
          /\ bodies[w][m] = Absent
          /\ ~ Lists(w, m)
          /\ \A s \in Schedules : index[w].slots[s] # Absent => m \notin index[w].slots[s]
    /\ \A c \in Clients : section[c] # Idle => section[c].manifest # m

(* The critical section that stores schedule s, unless it has a slot.      *)
Putting(w, m, s, k) ==
    [Request("put", IF index[w].slots[s] # Absent THEN "stored" ELSE "file", w) EXCEPT
       !.manifest = m, !.schedule = s, !.key = k,
       !.index = [index[w] EXCEPT !.slots[s] = {}]]

(* First half of an ingestion. *)
IngestSchedule(c, w, m, s, k) ==
    /\ section[c] = Idle /\ Free
    /\ known[w] # Absent
    /\ Fresh(m)
    /\ section' = [section EXCEPT ![c] = Putting(w, m, s, k)]
    /\ UNCHANGED <<known, disk, answers, faults>>

(* Second half: list the manifest derived from the schedule, or answer     *)
(* with the entry that has the key, or with an error.                      *)
RegisterIngested(c) ==
    LET r == section[c]
    IN  /\ Holding(c, "stored") /\ Free
        /\ \/ /\ known[r.ws] = Absent
              /\ Done(c)
              /\ UNCHANGED echoed
           \/ /\ known[r.ws] # Absent /\ HasKey(r.ws, r.key)
              /\ Done(c)
              /\ Echo(r.ws, r.key)
           \/ /\ known[r.ws] # Absent /\ ~ HasKey(r.ws, r.key)
              /\ section' = [section EXCEPT ![c] =
                    Adding(r.ws, r.manifest, r.schedule, r.key)]
              /\ UNCHANGED echoed
        /\ UNCHANGED <<known, disk, acked, faults>>

(* The slots once manifest m is removed; its schedule is the one its body  *)
(* references. Removing the artifact drops the slot nobody references.     *)
(* Faulty: the manifest stays in the slot. *)
SlotsWithout_Kept(w, m, deletes) == index[w].slots

SlotsWithout(w, m, deletes) ==
    LET s == bodies[w][m]
    IN  IF s \notin Schedules \/ index[w].slots[s] = Absent THEN index[w].slots
        ELSE [index[w].slots EXCEPT ![s] = IF deletes /\ @ \subseteq {m} THEN Absent ELSE @ \ {m}]

(* The critical section that removes manifest m from w: the files go       *)
(* first, the index is written last.                                       *)
(* Faulty: of a manifest listed under several keys only one is removed. *)
Removing_OneEntry(w, m, deletes) ==
    LET entries == index[w].entries \ {CHOOSE e \in index[w].entries : e.manifest = m}
        slots == SlotsWithout(w, m, deletes)
        s == bodies[w][m]
    IN  [Request("remove", IF deletes /\ s # Absent THEN "unlink" ELSE "index", w) EXCEPT
           !.manifest = m,
           !.schedule = IF slots # index[w].slots /\ slots[s] = Absent THEN s ELSE Absent,
           !.index = [entries |-> entries, slots |-> slots],
           !.record = [known[w] EXCEPT !.count = Cardinality(entries)]]

Removing(w, m, deletes) ==
    LET entries == {e \in index[w].entries : e.manifest # m}
        slots == SlotsWithout(w, m, deletes)
        s == bodies[w][m]
    IN  [Request("remove", IF deletes /\ s # Absent THEN "unlink" ELSE "index", w) EXCEPT
           !.manifest = m,
           !.schedule = IF slots # index[w].slots /\ slots[s] = Absent THEN s ELSE Absent,
           !.index = [entries |-> entries, slots |-> slots],
           !.record = [known[w] EXCEPT !.count = Cardinality(entries)]]

RemoveManifest(c, w, m, deletes) ==
    /\ section[c] = Idle /\ Free
    /\ known[w] # Absent
    /\ Lists(w, m)
    /\ section' = [section EXCEPT ![c] = Removing(w, m, deletes)]
    /\ acked' = acked \ {[ws |-> w, manifest |-> m]}
    /\ echoed' = echoed \ {[ws |-> w, manifest |-> m]}
    /\ UNCHANGED <<known, disk, faults>>

-----------------------------------------------------------------------------
(* The writes of a critical section, in the order of the code. *)
WriteBody(c) ==
    /\ Holding(c, "body")
    /\ bodies' = [bodies EXCEPT ![section[c].ws][section[c].manifest] = section[c].schedule]
    /\ Goto(c, "index")
    /\ UNCHANGED <<known, top, index, files, answers, faults>>

WriteFile(c) ==
    /\ Holding(c, "file")
    /\ files' = [files EXCEPT ![section[c].ws] = @ \cup {section[c].schedule}]
    /\ Goto(c, "index")
    /\ UNCHANGED <<known, top, index, bodies, answers, faults>>

(* Faulty: a manifest without a schedule of its own collects one. *)
UnlinkBody_AlwaysCollects(c) ==
    /\ Holding(c, "unlink")
    /\ bodies' = [bodies EXCEPT ![section[c].ws][section[c].manifest] = Absent]
    /\ Goto(c, "collect")
    /\ UNCHANGED <<known, top, index, files, answers, faults>>

UnlinkBody(c) ==
    /\ Holding(c, "unlink")
    /\ bodies' = [bodies EXCEPT ![section[c].ws][section[c].manifest] = Absent]
    /\ Goto(c, IF section[c].schedule = Absent THEN "index" ELSE "collect")
    /\ UNCHANGED <<known, top, index, files, answers, faults>>

Collect(c) ==
    /\ Holding(c, "collect")
    /\ files' = [files EXCEPT ![section[c].ws] = @ \ {section[c].schedule}]
    /\ Goto(c, "index")
    /\ UNCHANGED <<known, top, index, bodies, answers, faults>>

(* The memory record follows the index at once, unless a schedule is put.  *)
WriteIndex(c) ==
    /\ Holding(c, "index")
    /\ index' = [index EXCEPT ![section[c].ws] = section[c].index]
    /\ IF section[c].op = "put"
         THEN Goto(c, "stored") /\ UNCHANGED known
         ELSE Goto(c, "top") /\ known' = [known EXCEPT ![section[c].ws] = section[c].record]
    /\ UNCHANGED <<top, bodies, files, answers, faults>>

RemoveDir(c) ==
    LET w == section[c].ws
    IN  /\ Holding(c, "rmdir")
        /\ index' = [index EXCEPT ![w] = EmptyIndex]
        /\ bodies' = [bodies EXCEPT ![w] = [m \in Manifests |-> Absent]]
        /\ files' = [files EXCEPT ![w] = {}]
        /\ known' = [known EXCEPT ![w] = Absent]
        /\ Goto(c, "top")
        /\ UNCHANGED <<top, answers, faults>>

(* The registry is written whole, from memory; the request is answered. *)
(* Faulty: only a new workspace is registered. *)
WriteTop_OnCreate(c) ==
    /\ Holding(c, "top")
    /\ top' = IF section[c].op = "create" THEN known ELSE top
    /\ acked' = acked \cup
          IF section[c].op = "add"
            THEN {[ws |-> section[c].ws, manifest |-> section[c].manifest]} ELSE {}
    /\ Done(c)
    /\ UNCHANGED <<known, index, bodies, files, echoed, faults>>

WriteTop(c) ==
    /\ Holding(c, "top")
    /\ top' = known
    /\ acked' = acked \cup
          IF section[c].op = "add"
            THEN {[ws |-> section[c].ws, manifest |-> section[c].manifest]} ELSE {}
    /\ Done(c)
    /\ UNCHANGED <<known, index, bodies, files, echoed, faults>>

-----------------------------------------------------------------------------
(* A directory whose removal was cut short has lost any part of itself. *)
Torn(w) ==
    \E gone \in SUBSET {m \in Manifests : bodies[w][m] # Absent}, kept \in SUBSET files[w] :
        /\ bodies' = [bodies EXCEPT ![w] = [m \in Manifests |-> IF m \in gone THEN Absent ELSE @[m]]]
        /\ files' = [files EXCEPT ![w] = kept]
        /\ \/ UNCHANGED index
           \/ index' = [index EXCEPT ![w] = EmptyIndex]

Interrupted(c) ==
    \/ Holding(c, "rmdir") /\ Torn(section[c].ws)
    \/ ~ Holding(c, "rmdir") /\ UNCHANGED <<index, bodies, files>>

(* A write fails and its request returns the error. *)
Fail(c) ==
    /\ failures < MaxFailures
    /\ Holds(c) /\ ~ Holding(c, "collect")
    /\ Interrupted(c)
    /\ Done(c)
    /\ failures' = failures + 1
    /\ UNCHANGED <<known, top, answers, crashes>>

(* The error of collecting a schedule file is ignored. *)
CollectFails(c) ==
    /\ failures < MaxFailures
    /\ Holding(c, "collect")
    /\ Goto(c, "index")
    /\ failures' = failures + 1
    /\ UNCHANGED <<known, disk, answers, crashes>>

(* The process dies and is started again. *)
Crash ==
    /\ crashes < MaxCrashes
    /\ \/ Free /\ UNCHANGED <<index, bodies, files>>
       \/ \E c \in Clients : Holds(c) /\ Interrupted(c)
    /\ known' = top
    /\ section' = [c \in Clients |-> Idle]
    /\ crashes' = crashes + 1
    /\ UNCHANGED <<top, answers, failures>>

-----------------------------------------------------------------------------
Requests(c) ==
    \E w \in Workspaces :
        \/ CreateWorkspace(c, w)
        \/ \E status \in {"active", "archived"} : UpdateWorkspace(c, w, status)
        \/ DeleteWorkspace(c, w)
        \/ \E i \in Posts(w) : \E k \in Keys \cup {i.manifest} : ImportManifest(c, w, i, k)
        \/ \E m \in Manifests, s \in Schedules : \E k \in Keys \cup {m} :
              IngestSchedule(c, w, m, s, k)
        \/ \E m \in Manifests, deletes \in BOOLEAN : RemoveManifest(c, w, m, deletes)

Repeats(c) ==
    \E w \in Workspaces : \E i \in Posts(w) : \E k \in Keys \cup {i.manifest} :
       RepeatImport(c, w, k)

Writes(c) ==
    \/ WriteBody(c) \/ WriteFile(c) \/ UnlinkBody(c) \/ Collect(c)
    \/ WriteIndex(c) \/ RemoveDir(c) \/ WriteTop(c)

Next ==
    \/ \E c \in Clients : Requests(c) \/ Repeats(c) \/ RegisterIngested(c) \/ Writes(c)
    \/ \E c \in Clients : Fail(c) \/ CollectFails(c)
    \/ Crash

Spec == Init /\ [][Next]_vars
=============================================================================
