------------------------ MODULE WorkspaceProperties ------------------------
(***************************************************************************)
(* What makes the workspace store correct.                                 *)
(***************************************************************************)
EXTENDS WorkspaceStore

(* What a request in progress has in hand at each stage. *)
Coherent(r) ==
    /\ r.op = "put" => r.manifest # Absent /\ r.schedule \in Schedules /\ r.key # Absent
    /\ r.op = "add" => r.manifest # Absent /\ r.schedule # Absent
    /\ r.op = "remove" => r.schedule # Unlinked
    /\ r.op \in {"create", "add", "remove"} => r.record # Absent
    /\ r.at = "body" => r.op = "add"
    /\ r.at \in {"file", "stored"} => r.op = "put"
    /\ r.at \in {"unlink", "collect"} => r.op = "remove" /\ r.manifest # Absent
    /\ r.at = "collect" => r.schedule \in Schedules
    /\ r.at = "index" => r.op \notin {"update", "delete"}
    /\ r.at = "rmdir" => r.op = "delete"

(* The memory and every file hold what their readers expect, and a request *)
(* never reaches a write it has nothing to write for.                      *)
TypeOK ==
    /\ known \in [Workspaces -> Records \cup {Absent}]
    /\ top \in [Workspaces -> Records \cup {Absent}]
    /\ index \in [Workspaces -> Indexes]
    /\ bodies \in [Workspaces -> [Manifests -> Schedules \cup {Unlinked, Absent}]]
    /\ files \in [Workspaces -> SUBSET Schedules]
    /\ section \in [Clients -> Sections \cup {Idle}]
    /\ \A c \in Clients : section[c] # Idle => Coherent(section[c])
    /\ acked \subseteq [ws : Workspaces, manifest : Manifests]
    /\ echoed \subseteq [ws : Workspaces, manifest : Manifests]
    /\ failures \in 0 .. MaxFailures
    /\ crashes \in 0 .. MaxCrashes

(* The membership list of a workspace changes one request at a time and    *)
(* never holds a key twice, whatever requests run at once, fail or are cut *)
(* short by a crash (store.rs:370-383, 407, 449-456, 498).                 *)
Promise == INSTANCE Membership WITH
    Keys <- Keys \cup Manifests,
    members <- [w \in Workspaces |-> index[w].entries]

RefinesMembership == Promise!Spec

(* Between requests, manifest_count is the length of the membership list   *)
(* (store.rs:408, 499, 846-859).                                           *)
CountsMatch ==
    Free => \A w \in Workspaces :
       known[w] # Absent => known[w].count = Cardinality(index[w].entries)

(* Between requests, the body of every listed manifest can be read         *)
(* (store.rs:384-390, 483-485).                                            *)
ListedHaveBodies ==
    Free => \A w \in Workspaces : \A e \in index[w].entries :
       bodies[w][e.manifest] # Absent

(* Between requests, every schedule with a slot has its file: put_schedule *)
(* trusts the slot and does not look (store.rs:534-558, 488-495).          *)
RegisteredHaveFiles ==
    Free => \A w \in Workspaces, s \in Schedules :
       index[w].slots[s] # Absent => s \in files[w]

(* Between requests, a slot names only listed manifests whose body         *)
(* references its schedule: a slot that keeps another is never collected   *)
(* (store.rs:399-406, 475-481).                                            *)
SlotsNameListed ==
    Free => \A w \in Workspaces, s \in Schedules :
       index[w].slots[s] # Absent =>
          \A m \in index[w].slots[s] : Lists(w, m) /\ bodies[w][m] = s

(* No write has failed yet, and the process has not died.                  *)
Unharmed == failures = 0 /\ crashes = 0

(* As long as nothing failed, the memory, the index, the bodies and the    *)
(* files agree between requests, whatever requests run at once             *)
(* (store.rs:370-408, 475-499).                                            *)
FilesAgree ==
    Unharmed =>
       /\ CountsMatch
       /\ ListedHaveBodies
       /\ RegisteredHaveFiles
       /\ SlotsNameListed

(* Between requests, every listed manifest that references a stored        *)
(* schedule finds its file (routes.rs:435-465).                            *)
ListedScheduleStored ==
    Free => \A w \in Workspaces : \A e \in index[w].entries :
       bodies[w][e.manifest] \in Schedules => bodies[w][e.manifest] \in files[w]

(* The manifest is in a workspace that a restart finds, listed and with    *)
(* its body.                                                               *)
Registered(a) ==
    /\ top[a.ws] # Absent
    /\ Lists(a.ws, a.manifest)
    /\ bodies[a.ws][a.manifest] # Absent

(* A manifest whose registration was answered as created stays registered, *)
(* whatever fails or crashes, until somebody asks for its removal          *)
(* (store.rs:384-409, 846-866).                                            *)
AckedIsDurable == \A a \in acked : Registered(a)

(* So does one whose registration was only answered with the existing      *)
(* entry of its key: a client that repeats a request because it saw no     *)
(* answer, or an error, takes that for success (store.rs:379-381). The run *)
(* store_retry shows how it fails.                                         *)
AnsweredIsDurable == \A a \in acked \cup echoed : Registered(a)

(* As long as nothing failed it holds, for repetitions and requests at     *)
(* once (store.rs:379-409, 449-501).                                       *)
AnswersStand == Unharmed => AnsweredIsDurable
=============================================================================
