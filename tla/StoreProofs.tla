---------------------------- MODULE StoreProofs ----------------------------
(***************************************************************************)
(* Proofs about the workspace store, for any workspaces, manifests,        *)
(* schedules, keys and clients: what holds under any number of failures    *)
(* and crashes, what holds without them, and what one client alone can     *)
(* rely on (the scenario "alone" of MCStore).                              *)
(***************************************************************************)
EXTENDS MCStore, FiniteSetTheorems, TLAPS

USE DEF answers

(* The sections are well typed and coherent: the part of TypeOK that every *)
(* action touches.                                                         *)
SectionsOK ==
    /\ section \in [Clients -> Sections \cup {Idle}]
    /\ \A c \in Clients : section[c] # Idle => Coherent(section[c])

(* A client that is not idle has a coherent request. *)
LEMMA RequestFacts ==
    ASSUME SectionsOK, NEW c \in Clients, section[c].at # "idle"
    PROVE  section[c] \in Sections /\ Coherent(section[c])
<1>1. section[c] # Idle
    BY DEF Idle
<1> QED
    BY <1>1 DEF SectionsOK

(* A request has a stage, so it is not Idle. *)
LEMMA RequestIsNotIdle ==
    ASSUME NEW r \in Sections
    PROVE  r # Idle /\ r.at \in Stages
BY DEF Sections, Stages, Idle

(* One client takes up a request, moves on with it, or is done with it. *)
LEMMA SectionChanges ==
    ASSUME SectionsOK, NEW c \in Clients, NEW r \in Sections \cup {Idle},
           r # Idle => Coherent(r),
           section' = [section EXCEPT ![c] = r]
    PROVE  SectionsOK'
<1>1. section' \in [Clients -> Sections \cup {Idle}]
    BY DEF SectionsOK
<1>2. ASSUME NEW d \in Clients, section'[d] # Idle
      PROVE  Coherent(section'[d])
    <2>1. CASE d = c
        BY <1>2, <2>1 DEF SectionsOK
    <2>2. CASE d # c
        BY <1>2, <2>2 DEF SectionsOK
    <2> QED
        BY <2>1, <2>2
<1> QED
    BY <1>1, <1>2 DEF SectionsOK

(* The next stage of a request. *)
LEMMA GotoKeeps ==
    ASSUME SectionsOK, NEW c \in Clients, NEW at \in Stages,
           section[c].at # "idle", Goto(c, at),
           Coherent([section[c] EXCEPT !.at = at])
    PROVE  SectionsOK'
<1>1. section[c] \in Sections
    BY RequestFacts
<1>2. [section[c] EXCEPT !.at = at] \in Sections
    BY <1>1 DEF Sections
<1>3. section' = [section EXCEPT ![c] = [section[c] EXCEPT !.at = at]]
    BY DEF Goto
<1> QED
    BY <1>2, <1>3, SectionChanges

(* A new request is typed if what was filled in is. *)
LEMMA RequestIsSection ==
    ASSUME NEW op \in {"create", "update", "delete", "add", "remove", "put"},
           NEW at \in Stages, NEW w \in Workspaces
    PROVE  /\ Request(op, at, w) \in Sections
           /\ Request(op, at, w).op = op
           /\ Request(op, at, w).at = at
           /\ Request(op, at, w).ws = w
<1>1. EmptyIndex \in Indexes
    BY DEF EmptyIndex, Indexes
<1> QED
    BY <1>1 DEF Request, Sections

(* Cross-references keep the type of the slots. *)
LEMMA CrossReferencedType ==
    ASSUME NEW slots \in [Schedules -> (SUBSET Manifests) \cup {Absent}],
           NEW m \in Manifests, NEW s
    PROVE  CrossReferenced(slots, m, s) \in [Schedules -> (SUBSET Manifests) \cup {Absent}]
<1>1. CASE s \in Schedules /\ slots[s] # Absent
    <2>1. slots[s] \cup {m} \in SUBSET Manifests
        BY <1>1
    <2> QED
        BY <1>1, <2>1 DEF CrossReferenced
<1>2. CASE ~ (s \in Schedules /\ slots[s] # Absent)
    BY <1>2 DEF CrossReferenced
<1> QED
    BY <1>1, <1>2

(* So does the removal of a manifest. *)
LEMMA SlotsWithoutType ==
    ASSUME TypeOK, NEW w \in Workspaces, NEW m \in Manifests, NEW deletes \in BOOLEAN
    PROVE  SlotsWithout(w, m, deletes) \in [Schedules -> (SUBSET Manifests) \cup {Absent}]
<1> DEFINE s == bodies[w][m]
           slots == index[w].slots
<1>1. slots \in [Schedules -> (SUBSET Manifests) \cup {Absent}]
    BY DEF TypeOK, Indexes
<1>2. CASE s \notin Schedules \/ slots[s] = Absent
    BY <1>1, <1>2 DEF SlotsWithout
<1>3. CASE ~ (s \notin Schedules \/ slots[s] = Absent)
    <2>1. slots[s] \ {m} \in SUBSET Manifests
        BY <1>1, <1>3
    <2>2. SlotsWithout(w, m, deletes) = [slots EXCEPT ![s] =
             IF deletes /\ slots[s] \subseteq {m} THEN Absent ELSE slots[s] \ {m}]
        BY <1>3 DEF SlotsWithout
    <2> HIDE DEF slots, s
    <2> QED
        BY <1>1, <2>1, <2>2
<1> QED
    BY <1>2, <1>3

-----------------------------------------------------------------------------
(* The requests *)

(* The request to list a manifest. *)
LEMMA AddingFacts ==
    ASSUME TypeOK, NEW w \in Workspaces, known[w] # Absent, NEW m \in Manifests,
           NEW s \in Schedules \cup {Unlinked}, NEW k \in Keys \cup Manifests
    PROVE  /\ Adding(w, m, s, k) \in Sections
           /\ Coherent(Adding(w, m, s, k))
           /\ Adding(w, m, s, k).op = "add"
           /\ Adding(w, m, s, k).at = IF bodies[w][m] = Absent THEN "body" ELSE "index"
           /\ Adding(w, m, s, k).ws = w
           /\ Adding(w, m, s, k).manifest = m
           /\ Adding(w, m, s, k).schedule = s
           /\ Adding(w, m, s, k).index.entries =
                 index[w].entries \cup {[key |-> k, manifest |-> m]}
           /\ Adding(w, m, s, k).index.slots = CrossReferenced(index[w].slots, m, s)
           /\ Adding(w, m, s, k).record.count =
                 Cardinality(Adding(w, m, s, k).index.entries)
<1> DEFINE at == IF bodies[w][m] = Absent THEN "body" ELSE "index"
           entries == index[w].entries \cup {[key |-> k, manifest |-> m]}
           next == [entries |-> entries, slots |-> CrossReferenced(index[w].slots, m, s)]
           record == [known[w] EXCEPT !.count = Cardinality(entries)]
           r == Request("add", at, w)
<1>1. Adding(w, m, s, k) = [r EXCEPT !.manifest = m, !.schedule = s,
                                     !.index = next, !.record = record]
    BY DEF Adding
<1>2. next \in Indexes
    <2>1. index[w] \in Indexes
        BY DEF TypeOK
    <2>2. [key |-> k, manifest |-> m] \in Entries
        BY DEF Entries
    <2>3. entries \in SUBSET Entries
        BY <2>1, <2>2 DEF Indexes
    <2>4. CrossReferenced(index[w].slots, m, s) \in [Schedules -> (SUBSET Manifests) \cup {Absent}]
        BY <2>1, CrossReferencedType DEF Indexes
    <2> QED
        BY <2>3, <2>4 DEF Indexes
<1>3. record \in Records /\ record.count = Cardinality(entries)
    <2>1. known[w] \in Records
        BY DEF TypeOK
    <2>2. Cardinality(entries) \in Counts
        BY <1>2 DEF Counts, Indexes
    <2> HIDE DEF entries
    <2> QED
        BY <2>1, <2>2 DEF Records
<1>4. at \in Stages /\ at \in {"body", "index"}
    BY DEF Stages
<1>5. r \in Sections /\ r.op = "add" /\ r.at = at /\ r.ws = w
    BY <1>4, RequestIsSection
<1>6. m # Absent /\ s # Absent /\ record # Absent
    BY <1>3, StoreConstants, AbsentIsNoRecord
<1>7. next.entries = entries /\ next.slots = CrossReferenced(index[w].slots, m, s)
    OBVIOUS
<1> HIDE DEF at, next, record, r, entries
<1>8. Adding(w, m, s, k) \in Sections
    BY <1>1, <1>2, <1>3, <1>5 DEF Sections
<1>9. /\ Adding(w, m, s, k).op = "add"
      /\ Adding(w, m, s, k).at = at
      /\ Adding(w, m, s, k).ws = w
      /\ Adding(w, m, s, k).manifest = m
      /\ Adding(w, m, s, k).schedule = s
      /\ Adding(w, m, s, k).record = record
      /\ Adding(w, m, s, k).index = next
    BY <1>1, <1>5 DEF Sections
<1>10. Coherent(Adding(w, m, s, k))
    BY <1>4, <1>6, <1>9 DEF Coherent
<1> QED
    BY <1>3, <1>7, <1>8, <1>9, <1>10 DEF at, entries

(* The request to create a workspace. *)
LEMMA CreatingFacts ==
    ASSUME NEW w \in Workspaces, NEW r,
           r = [Request("create", "index", w) EXCEPT
                  !.record = [status |-> "active", count |-> 0]]
    PROVE  /\ r \in Sections /\ Coherent(r)
           /\ r.op = "create" /\ r.at = "index" /\ r.ws = w /\ r.index = EmptyIndex
           /\ r.manifest = Absent /\ r.record.count = 0 /\ r.index.entries = {}
<1>1. 0 \in Counts
    <2>1. Cardinality({}) = 0
        BY FS_EmptySet
    <2> QED
        BY <2>1 DEF Counts
<1>2. [status |-> "active", count |-> 0] \in Records
    BY <1>1 DEF Records
<1>3. Request("create", "index", w) \in Sections
    BY RequestIsSection DEF Stages
<1>4. r \in Sections
    BY <1>2, <1>3 DEF Sections
<1>5. /\ r.op = "create" /\ r.at = "index" /\ r.ws = w /\ r.index = EmptyIndex
      /\ r.manifest = Absent /\ r.index.entries = {}
      /\ r.record = [status |-> "active", count |-> 0] /\ r.record.count = 0
    BY DEF Request, EmptyIndex
<1>6. r.record # Absent
    BY <1>2, <1>5, AbsentIsNoRecord
<1> QED
    BY <1>4, <1>5, <1>6 DEF Coherent

(* The request to store a schedule. *)
LEMMA PuttingFacts ==
    ASSUME TypeOK, NEW w \in Workspaces, NEW m \in Manifests, NEW s \in Schedules,
           NEW k \in Keys \cup Manifests
    PROVE  /\ Putting(w, m, s, k) \in Sections
           /\ Coherent(Putting(w, m, s, k))
           /\ Putting(w, m, s, k).op = "put"
           /\ Putting(w, m, s, k).at \in {"stored", "file"}
           /\ Putting(w, m, s, k).ws = w
           /\ Putting(w, m, s, k).manifest = m
           /\ Putting(w, m, s, k).schedule = s
           /\ Putting(w, m, s, k).index.entries = index[w].entries
           /\ Putting(w, m, s, k).index.slots[s] = {}
           /\ \A q \in Schedules \ {s} :
                 Putting(w, m, s, k).index.slots[q] = index[w].slots[q]
           /\ Putting(w, m, s, k).at = "stored" => index[w].slots[s] # Absent
<1> DEFINE r == Putting(w, m, s, k)
           at == IF index[w].slots[s] # Absent THEN "stored" ELSE "file"
           next == [index[w] EXCEPT !.slots[s] = {}]
           q == Request("put", at, w)
<1>1. index[w] \in Indexes
    BY DEF TypeOK
<1>2. next \in Indexes /\ next.entries = index[w].entries
      /\ next.slots[s] = {}
      /\ \A o \in Schedules \ {s} : next.slots[o] = index[w].slots[o]
    BY <1>1 DEF Indexes
<1>3. /\ at \in {"stored", "file"} /\ at \in Stages
      /\ at = "stored" => index[w].slots[s] # Absent
    BY DEF Stages
<1>4. q \in Sections /\ q.op = "put" /\ q.at = at /\ q.ws = w
    BY <1>3, RequestIsSection
<1>5. r = [q EXCEPT !.manifest = m, !.schedule = s, !.key = k, !.index = next]
    BY DEF Putting
<1> HIDE DEF at, next, q, r
<1>6. /\ r \in Sections
      /\ r.op = "put" /\ r.at = at /\ r.ws = w /\ r.index = next
      /\ r.manifest = m /\ r.schedule = s /\ r.key = k
    BY <1>2, <1>4, <1>5 DEF Sections
<1>7. m # Absent /\ k # Absent
    BY StoreConstants
<1>8. Coherent(r)
    BY <1>3, <1>6, <1>7 DEF Coherent
<1> QED
    BY <1>2, <1>3, <1>6, <1>8 DEF r

(* The request to remove a manifest. *)
LEMMA RemovingFacts ==
    ASSUME TypeOK, NEW w \in Workspaces, known[w] # Absent, NEW m \in Manifests,
           NEW deletes \in BOOLEAN
    PROVE  /\ Removing(w, m, deletes) \in Sections
           /\ Coherent(Removing(w, m, deletes))
           /\ Removing(w, m, deletes).op = "remove"
           /\ Removing(w, m, deletes).at \in {"unlink", "index"}
           /\ Removing(w, m, deletes).at = "unlink" <=> deletes /\ bodies[w][m] # Absent
           /\ Removing(w, m, deletes).ws = w
           /\ Removing(w, m, deletes).manifest = m
           /\ Removing(w, m, deletes).index.entries =
                 {e \in index[w].entries : e.manifest # m}
           /\ Removing(w, m, deletes).index.slots = SlotsWithout(w, m, deletes)
           /\ Removing(w, m, deletes).schedule =
                 IF /\ SlotsWithout(w, m, deletes) # index[w].slots
                    /\ SlotsWithout(w, m, deletes)[bodies[w][m]] = Absent
                   THEN bodies[w][m] ELSE Absent
           /\ Removing(w, m, deletes).record.count =
                 Cardinality(Removing(w, m, deletes).index.entries)
<1> DEFINE entries == {e \in index[w].entries : e.manifest # m}
           slots == SlotsWithout(w, m, deletes)
           s == bodies[w][m]
           r == Removing(w, m, deletes)
           at == IF deletes /\ s # Absent THEN "unlink" ELSE "index"
           collects == IF slots # index[w].slots /\ slots[s] = Absent THEN s ELSE Absent
           next == [entries |-> entries, slots |-> slots]
           record == [known[w] EXCEPT !.count = Cardinality(entries)]
           q == Request("remove", at, w)
<1>1. index[w] \in Indexes
    BY DEF TypeOK
<1>2. entries \in SUBSET Entries
    BY <1>1 DEF Indexes
<1>3. next \in Indexes /\ next.entries = entries /\ next.slots = slots
    BY <1>2, SlotsWithoutType DEF Indexes
<1>4. record \in Records /\ record.count = Cardinality(entries)
    <2>1. known[w] \in Records
        BY DEF TypeOK
    <2>2. Cardinality(entries) \in Counts
        BY <1>2 DEF Counts
    <2> HIDE DEF entries
    <2> QED
        BY <2>1, <2>2 DEF Records
<1>5. collects \in Schedules \cup {Absent} /\ collects # Unlinked
    <2>1. slots # index[w].slots => s \in Schedules
        BY DEF SlotsWithout
    <2> HIDE DEF s, slots
    <2> QED
        BY <2>1, StoreConstants
<1>6. at \in {"unlink", "index"} /\ at \in Stages
    BY DEF Stages
<1>7. q \in Sections /\ q.op = "remove" /\ q.at = at /\ q.ws = w
    BY <1>6, RequestIsSection
<1>8. r = [q EXCEPT !.manifest = m, !.schedule = collects, !.index = next, !.record = record]
    BY DEF Removing
<1>9. m # Absent /\ record # Absent
    BY <1>4, StoreConstants, AbsentIsNoRecord
<1> HIDE DEF at, next, q, collects, record, r, entries
<1>10. /\ r \in Sections
       /\ r.op = "remove" /\ r.at = at /\ r.ws = w /\ r.index = next
       /\ r.manifest = m /\ r.record = record /\ r.schedule = collects
    BY <1>3, <1>4, <1>5, <1>7, <1>8 DEF Sections
<1>11. Coherent(r)
    BY <1>5, <1>6, <1>9, <1>10 DEF Coherent
<1> QED
    BY <1>3, <1>4, <1>6, <1>10, <1>11 DEF r, at, entries, collects, slots, s

-----------------------------------------------------------------------------
(* The inductive invariant *)

(* At most one client holds the mutex. *)
OneHolder == \A c, d \in Clients : Holds(c) /\ Holds(d) => c = d

(* An index may be replaced by one whose membership list is one step away. *)
OneStep(old, new) ==
    \/ new = old
    \/ new = {}
    \/ \E m \in Manifests : new = {e \in old : e.manifest # m}
    \/ \E k \in Keys \cup Manifests, m \in Manifests :
          (\A e \in old : e.key # k) /\ new = old \cup {[key |-> k, manifest |-> m]}

Writing == {"body", "file", "unlink", "collect", "index"}
Names(entries, m) == \E e \in entries : e.manifest = m

(* What the holder of the mutex has read is still true: the index it is to *)
(* write is one step from the one on disk, and a registration in progress  *)
(* has done what its stage requires.                                       *)
Prepared(c) ==
    /\ section[c].at \in Writing =>
          OneStep(index[section[c].ws].entries, section[c].index.entries)
    /\ section[c].at \in {"body", "index"} /\ section[c].op = "add" =>
          Names(section[c].index.entries, section[c].manifest)
    /\ section[c].at = "index" /\ section[c].op = "add" =>
          bodies[section[c].ws][section[c].manifest] # Absent
    /\ section[c].at = "top" /\ section[c].op = "add" =>
          /\ known[section[c].ws] # Absent
          /\ Lists(section[c].ws, section[c].manifest)
          /\ bodies[section[c].ws][section[c].manifest] # Absent

(* An acknowledged registration is in place, and no write in progress      *)
(* takes it away.                                                          *)
Kept(a) ==
    /\ top[a.ws] # Absent
    /\ known[a.ws] # Absent
    /\ Lists(a.ws, a.manifest)
    /\ bodies[a.ws][a.manifest] # Absent

Spares(c, a) ==
    /\ section[c].at \in Writing /\ section[c].ws = a.ws =>
          Names(section[c].index.entries, a.manifest)
    /\ section[c].at = "unlink" /\ section[c].ws = a.ws => section[c].manifest # a.manifest
    /\ section[c].at = "rmdir" => section[c].ws # a.ws

StoreSafe ==
    /\ TypeOK
    /\ OneHolder
    /\ \A c \in Clients : Prepared(c)
    /\ \A a \in acked : Kept(a) /\ \A c \in Clients : Spares(c, a)

(* A client without the mutex has nothing prepared. *)
LEMMA WaitingIsPrepared ==
    ASSUME NEW c \in Clients, ~ Holds(c)
    PROVE  Prepared(c) /\ \A a : Spares(c, a)
<1>1. section[c].at \in {"idle", "stored"}
    BY DEF Holds
<1> QED
    BY <1>1 DEF Prepared, Spares, Writing

(* The empty store is safe. *)
LEMMA StoreInitial ==
    ASSUME Init
    PROVE  StoreSafe
<1>1. EmptyIndex \in Indexes
    BY DEF EmptyIndex, Indexes
<1>2. SectionsOK
    BY DEF Init, SectionsOK
<1>3. ASSUME NEW c \in Clients PROVE ~ Holds(c)
    BY DEF Init, Idle, Holds
<1>4. TypeOK
    BY <1>1, <1>2, StoreConstants DEF Init, TypeOK, SectionsOK
<1>5. acked = {}
    BY DEF Init
<1> QED
    BY <1>3, <1>4, <1>5, WaitingIsPrepared DEF StoreSafe, OneHolder

(* The history of repeated answers is typed. *)
EchoOK == echoed \subseteq [ws : Workspaces, manifest : Manifests]

(* An answer with the entries of a key keeps it so. *)
LEMMA EchoIsTyped ==
    ASSUME StoreSafe, NEW w \in Workspaces, NEW k, Echo(w, k)
    PROVE  EchoOK'
<1>1. echoed \subseteq [ws : Workspaces, manifest : Manifests]
    BY DEF StoreSafe, TypeOK
<1>2. \A e \in index[w].entries : e.manifest \in Manifests
    BY DEF StoreSafe, TypeOK, Indexes, Entries
<1>3. {[ws |-> w, manifest |-> e.manifest] : e \in {f \in index[w].entries : f.key = k}}
         \subseteq [ws : Workspaces, manifest : Manifests]
    BY <1>2
<1> QED
    BY <1>1, <1>3 DEF Echo, EchoOK

(* So does letting go of some of it. *)
LEMMA EchoShrinks ==
    ASSUME StoreSafe, echoed' \subseteq echoed
    PROVE  EchoOK'
BY DEF StoreSafe, TypeOK, EchoOK

(* A client that finds the mutex free and takes up a request: the others   *)
(* wait, so the invariant only asks for what its own request requires.     *)
LEMMA TakesUp ==
    ASSUME StoreSafe, NEW c \in Clients, NEW r \in Sections, Coherent(r), Free,
           section' = [section EXCEPT ![c] = r], UNCHANGED <<disk, faults>>,
           known' \in [Workspaces -> Records \cup {Absent}],
           \A w \in Workspaces : known[w] # Absent => known'[w] # Absent,
           acked' \subseteq acked, EchoOK',
           Prepared(c)', \A a \in acked' : Spares(c, a)'
    PROVE  StoreSafe'
<1>1. SectionsOK'
    BY SectionChanges DEF StoreSafe, TypeOK, SectionsOK
<1>2. TypeOK'
    BY <1>1 DEF StoreSafe, TypeOK, SectionsOK, EchoOK, disk, faults
<1>3. ASSUME NEW d \in Clients, d # c
      PROVE  section'[d] = section[d] /\ ~ Holds(d)'
    <2>1. section'[d] = section[d]
        BY <1>3 DEF StoreSafe, TypeOK
    <2> QED
        BY <2>1 DEF Free, Holds
<1>4. OneHolder'
    BY <1>3 DEF OneHolder
<1>5. ASSUME NEW d \in Clients PROVE Prepared(d)' /\ \A a \in acked' : Spares(d, a)'
    <2>1. CASE d = c
        BY <2>1
    <2>2. CASE d # c
        <3>1. section'[d].at \in {"idle", "stored"}
            BY <1>3, <2>2 DEF Holds
        <3> QED
            BY <3>1 DEF Prepared, Spares, Writing
    <2> QED
        BY <2>1, <2>2
<1>6. ASSUME NEW a \in acked' PROVE Kept(a)'
    <2>1. Kept(a) /\ a.ws \in Workspaces
        BY DEF StoreSafe, TypeOK
    <2> QED
        BY <2>1 DEF Kept, Lists, disk
<1> QED
    BY <1>2, <1>4, <1>5, <1>6 DEF StoreSafe

(* Taking up a request to create a workspace keeps the store safe. *)
LEMMA CreateWorkspaceSafe ==
    ASSUME StoreSafe, NEW c \in Clients, NEW w \in Workspaces, CreateWorkspace(c, w)
    PROVE  StoreSafe'
<1> DEFINE r == [Request("create", "index", w) EXCEPT
                   !.record = [status |-> "active", count |-> 0]]
<1>1. /\ r \in Sections /\ Coherent(r)
      /\ r.op = "create" /\ r.at = "index" /\ r.ws = w /\ r.index.entries = {}
    BY CreatingFacts
<1>2. /\ section' = [section EXCEPT ![c] = r] /\ Free /\ known[w] = Absent
      /\ UNCHANGED <<known, disk, answers, faults>>
    BY DEF CreateWorkspace
<1> HIDE DEF r
<1>3. section'[c] = r
    BY <1>2 DEF StoreSafe, TypeOK
<1>4. Prepared(c)'
    BY <1>1, <1>3 DEF Prepared, OneStep
<1>5. ASSUME NEW a \in acked' PROVE Spares(c, a)'
    <2>1. a.ws # w
        BY <1>2 DEF StoreSafe, Kept
    <2> QED
        BY <1>1, <1>3, <2>1 DEF Spares
<1>6. known' \in [Workspaces -> Records \cup {Absent}]
    BY <1>2 DEF StoreSafe, TypeOK
<1> QED
    BY <1>1, <1>2, <1>4, <1>5, <1>6, EchoShrinks, TakesUp DEF disk, faults

(* So does a request to archive or reactivate one. *)
LEMMA UpdateWorkspaceSafe ==
    ASSUME StoreSafe, NEW c \in Clients, NEW w \in Workspaces,
           NEW status \in {"active", "archived"}, UpdateWorkspace(c, w, status)
    PROVE  StoreSafe'
<1> DEFINE r == Request("update", "top", w)
<1>1. r \in Sections /\ r.op = "update" /\ r.at = "top" /\ r.ws = w
    BY RequestIsSection DEF Stages
<1>2. Coherent(r)
    BY <1>1 DEF Coherent
<1>3. /\ section' = [section EXCEPT ![c] = r] /\ Free /\ known[w] # Absent
      /\ known' = [known EXCEPT ![w].status = status]
      /\ UNCHANGED <<disk, answers, faults>>
    BY DEF UpdateWorkspace
<1> HIDE DEF r
<1>4. section'[c] = r
    BY <1>3 DEF StoreSafe, TypeOK
<1>5. [known[w] EXCEPT !.status = status] \in Records
    <2>1. known[w] \in Records
        BY <1>3 DEF StoreSafe, TypeOK
    <2> QED
        BY <2>1 DEF Records
<1>6. /\ known' = [known EXCEPT ![w] = [known[w] EXCEPT !.status = status]]
      /\ known \in [Workspaces -> Records \cup {Absent}]
    BY <1>3 DEF StoreSafe, TypeOK
<1>7. known' \in [Workspaces -> Records \cup {Absent}]
    BY <1>5, <1>6
<1>8. \A v \in Workspaces : known[v] # Absent => known'[v] # Absent
    BY <1>5, <1>6, AbsentIsNoRecord
<1>9. Prepared(c)' /\ \A a \in acked' : Spares(c, a)'
    BY <1>1, <1>4 DEF Prepared, Spares, Writing
<1> QED
    BY <1>1, <1>2, <1>3, <1>7, <1>8, <1>9, EchoShrinks, TakesUp DEF disk, faults

(* So does a request to delete one: what was acknowledged is let go first. *)
LEMMA DeleteWorkspaceSafe ==
    ASSUME StoreSafe, NEW c \in Clients, NEW w \in Workspaces, DeleteWorkspace(c, w)
    PROVE  StoreSafe'
<1> DEFINE r == Request("delete", "rmdir", w)
<1>1. r \in Sections /\ r.op = "delete" /\ r.at = "rmdir" /\ r.ws = w
    BY RequestIsSection DEF Stages
<1>2. Coherent(r)
    BY <1>1 DEF Coherent
<1>3. /\ section' = [section EXCEPT ![c] = r] /\ Free
      /\ acked' = {a \in acked : a.ws # w} /\ echoed' \subseteq echoed
      /\ UNCHANGED <<known, disk, faults>>
    BY DEF DeleteWorkspace
<1> HIDE DEF r
<1>4. section'[c] = r
    BY <1>3 DEF StoreSafe, TypeOK
<1>5. Prepared(c)' /\ \A a \in acked' : Spares(c, a)'
    BY <1>1, <1>3, <1>4 DEF Prepared, Spares, Writing
<1>6. known' \in [Workspaces -> Records \cup {Absent}]
    BY <1>3 DEF StoreSafe, TypeOK
<1> QED
    BY <1>1, <1>2, <1>3, <1>5, <1>6, EchoShrinks, TakesUp DEF disk, faults

(* Listing a manifest under a key that is not in use. *)
LEMMA AddingSafe ==
    ASSUME StoreSafe, NEW c \in Clients, NEW w \in Workspaces, NEW m \in Manifests,
           NEW s \in Schedules \cup {Unlinked}, NEW k \in Keys \cup Manifests,
           known[w] # Absent, ~ HasKey(w, k), Free,
           section' = [section EXCEPT ![c] = Adding(w, m, s, k)],
           UNCHANGED <<known, disk, answers, faults>>
    PROVE  StoreSafe'
<1> DEFINE r == Adding(w, m, s, k)
<1>1. /\ r \in Sections /\ Coherent(r) /\ r.op = "add" /\ r.ws = w /\ r.manifest = m
      /\ r.at = (IF bodies[w][m] = Absent THEN "body" ELSE "index")
      /\ r.index.entries = index[w].entries \cup {[key |-> k, manifest |-> m]}
    BY AddingFacts DEF StoreSafe
<1> HIDE DEF r
<1>2. section'[c] = r
    BY DEF StoreSafe, TypeOK, r
<1>3. OneStep(index[w].entries, r.index.entries)
    BY <1>1 DEF OneStep, HasKey
<1>4. Names(r.index.entries, m)
    <2>1. [key |-> k, manifest |-> m] \in r.index.entries
        BY <1>1
    <2> QED
        BY <2>1 DEF Names
<1>5. Prepared(c)'
    BY <1>1, <1>2, <1>3, <1>4 DEF Prepared, disk
<1>6. ASSUME NEW a \in acked' PROVE Spares(c, a)'
    <2>1. a.ws = w => Names(r.index.entries, a.manifest)
        BY <1>1 DEF StoreSafe, Kept, Lists, Names
    <2> QED
        BY <1>1, <1>2, <2>1 DEF Spares
<1>7. known' \in [Workspaces -> Records \cup {Absent}]
    BY DEF StoreSafe, TypeOK
<1>8. section' = [section EXCEPT ![c] = r]
    BY DEF r
<1> QED
    BY <1>1, <1>5, <1>6, <1>7, <1>8, EchoShrinks, TakesUp DEF disk, faults

(* So does a posted manifest. *)
LEMMA ImportManifestSafe ==
    ASSUME StoreSafe, NEW c \in Clients, NEW w \in Workspaces, NEW i \in Posts(w),
           NEW k \in Keys \cup {i.manifest}, ImportManifest(c, w, i, k)
    PROVE  StoreSafe'
<1>1. i.manifest \in Manifests /\ i.schedule \in Schedules \cup {Unlinked}
    BY StoreConstants DEF Posts, StoreSafe, TypeOK
<1> QED
    BY <1>1, AddingSafe DEF ImportManifest

(* So does the first half of an ingestion. *)
LEMMA IngestScheduleSafe ==
    ASSUME StoreSafe, NEW c \in Clients, NEW w \in Workspaces, NEW m \in Manifests,
           NEW s \in Schedules, NEW k \in Keys \cup {m}, IngestSchedule(c, w, m, s, k)
    PROVE  StoreSafe'
<1> DEFINE r == Putting(w, m, s, k)
<1>1. /\ r \in Sections /\ Coherent(r)
      /\ r.op = "put" /\ r.at \in {"stored", "file"} /\ r.ws = w
      /\ r.index.entries = index[w].entries
    <2>1. k \in Keys \cup Manifests /\ TypeOK
        BY DEF StoreSafe
    <2> QED
        BY <2>1, PuttingFacts
<1>2. /\ section' = [section EXCEPT ![c] = r] /\ Free
      /\ UNCHANGED <<known, disk, answers, faults>>
    BY DEF IngestSchedule
<1> HIDE DEF r
<1>3. section'[c] = r
    BY <1>2 DEF StoreSafe, TypeOK
<1>4. Prepared(c)'
    BY <1>1, <1>2, <1>3 DEF Prepared, OneStep, disk
<1>5. ASSUME NEW a \in acked' PROVE Spares(c, a)'
    <2>1. a.ws = w => Names(r.index.entries, a.manifest)
        BY <1>1, <1>2 DEF StoreSafe, Kept, Lists, Names
    <2> QED
        BY <1>1, <1>3, <2>1 DEF Spares
<1>6. known' \in [Workspaces -> Records \cup {Absent}]
    BY <1>2 DEF StoreSafe, TypeOK
<1> QED
    BY <1>1, <1>2, <1>4, <1>5, <1>6, EchoShrinks, TakesUp DEF disk, faults

(* A request ends, with nothing on disk changed. *)
LEMMA GivesUp ==
    ASSUME StoreSafe, NEW c \in Clients, section' = [section EXCEPT ![c] = Idle],
           UNCHANGED <<known, disk, acked>>, EchoOK',
           failures' \in 0 .. MaxFailures, crashes' \in 0 .. MaxCrashes
    PROVE  StoreSafe'
<1>1. SectionsOK'
    BY SectionChanges DEF StoreSafe, TypeOK, SectionsOK
<1>2. TypeOK'
    BY <1>1 DEF StoreSafe, TypeOK, SectionsOK, EchoOK, disk
<1>3. ASSUME NEW d \in Clients
      PROVE  section'[d] = section[d] \/ section'[d].at = "idle"
    BY DEF StoreSafe, TypeOK, Idle
<1>4. OneHolder'
    BY <1>3 DEF StoreSafe, OneHolder, Holds
<1>5. ASSUME NEW d \in Clients PROVE Prepared(d)'
    <2>1. Prepared(d)
        BY DEF StoreSafe
    <2> QED
        BY <1>3, <2>1 DEF Prepared, Writing, disk, Lists
<1>6. ASSUME NEW a \in acked', NEW d \in Clients PROVE Kept(a)' /\ Spares(d, a)'
    <2>1. Kept(a) /\ Spares(d, a)
        BY DEF StoreSafe
    <2> QED
        BY <1>3, <2>1 DEF Kept, Spares, Writing, disk, Lists
<1> QED
    BY <1>2, <1>4, <1>5, <1>6 DEF StoreSafe

(* A request that is answered with the entry of its key changes nothing. *)
LEMMA RepeatImportSafe ==
    ASSUME StoreSafe, NEW c \in Clients, NEW w \in Workspaces, NEW k, RepeatImport(c, w, k)
    PROVE  StoreSafe'
<1>1. UNCHANGED <<known, top, index, bodies, files, section, acked, failures, crashes>>
    BY DEF RepeatImport, disk, faults
<1>2. EchoOK'
    BY EchoIsTyped DEF RepeatImport
<1> QED
    BY <1>1, <1>2 DEF StoreSafe, TypeOK, EchoOK, OneHolder, Holds, Prepared, Kept, Spares, Lists

(* So does its second half, which lists the manifest or gives up. *)
LEMMA RegisterIngestedSafe ==
    ASSUME StoreSafe, NEW c \in Clients, RegisterIngested(c)
    PROVE  StoreSafe'
<1> DEFINE r == section[c]
<1>1. r.at = "stored" /\ Free /\ UNCHANGED <<known, disk, acked, faults>>
    BY DEF RegisterIngested, Holding
<1>2. r \in Sections /\ Coherent(r)
    BY <1>1, RequestFacts DEF StoreSafe, TypeOK, SectionsOK
<1>3. r.manifest \in Manifests /\ r.schedule \in Schedules /\ r.key \in Keys \cup Manifests
      /\ r.ws \in Workspaces
    BY <1>1, <1>2 DEF Coherent, Sections
<1>4. CASE known[r.ws] = Absent \/ HasKey(r.ws, r.key)
    <2>1. section' = [section EXCEPT ![c] = Idle]
        BY <1>4 DEF RegisterIngested, Done
    <2>2. failures' \in 0 .. MaxFailures /\ crashes' \in 0 .. MaxCrashes
        BY <1>1 DEF StoreSafe, TypeOK, faults
    <2>3. EchoOK'
        BY <1>3, <1>4, EchoIsTyped, EchoShrinks DEF RegisterIngested
    <2> QED
        BY <1>1, <2>1, <2>2, <2>3, GivesUp
<1>5. CASE ~ (known[r.ws] = Absent \/ HasKey(r.ws, r.key))
    <2>1. /\ section' = [section EXCEPT ![c] = Adding(r.ws, r.manifest, r.schedule, r.key)]
          /\ UNCHANGED <<known, disk, answers, faults>>
        BY <1>1, <1>5 DEF RegisterIngested
    <2> HIDE DEF r
    <2> QED
        BY <1>1, <1>3, <1>5, <2>1, AddingSafe
<1> QED
    BY <1>4, <1>5

(* So does a request to remove a manifest. *)
LEMMA RemoveManifestSafe ==
    ASSUME StoreSafe, NEW c \in Clients, NEW w \in Workspaces, NEW m \in Manifests,
           NEW deletes \in BOOLEAN, RemoveManifest(c, w, m, deletes)
    PROVE  StoreSafe'
<1> DEFINE r == Removing(w, m, deletes)
<1>1. /\ section' = [section EXCEPT ![c] = r] /\ Free /\ known[w] # Absent
      /\ acked' = acked \ {[ws |-> w, manifest |-> m]} /\ echoed' \subseteq echoed
      /\ UNCHANGED <<known, disk, faults>>
    BY DEF RemoveManifest
<1>2. /\ r \in Sections /\ Coherent(r)
      /\ r.op = "remove" /\ r.at \in {"unlink", "index"} /\ r.ws = w /\ r.manifest = m
      /\ r.index.entries = {e \in index[w].entries : e.manifest # m}
    BY <1>1, RemovingFacts DEF StoreSafe
<1> HIDE DEF r
<1>3. section'[c] = r
    BY <1>1 DEF StoreSafe, TypeOK
<1>4. Prepared(c)'
    BY <1>1, <1>2, <1>3 DEF Prepared, OneStep, disk
<1>5. ASSUME NEW a \in acked' PROVE Spares(c, a)'
    <2>1. a \in [ws : Workspaces, manifest : Manifests] /\ Kept(a)
        BY <1>1 DEF StoreSafe, TypeOK
    <2>2. a.ws = w => a.manifest # m
        BY <1>1, <2>1
    <2>3. a.ws = w => Names(r.index.entries, a.manifest)
        BY <1>2, <2>1, <2>2 DEF Kept, Lists, Names
    <2> QED
        BY <1>2, <1>3, <2>2, <2>3 DEF Spares
<1>6. known' \in [Workspaces -> Records \cup {Absent}]
    BY <1>1 DEF StoreSafe, TypeOK
<1> QED
    BY <1>1, <1>2, <1>4, <1>5, <1>6, EchoShrinks, TakesUp DEF disk, faults

-----------------------------------------------------------------------------
(* The writes *)

(* While one client writes, the others wait. *)
LEMMA OthersWait ==
    ASSUME StoreSafe, NEW c \in Clients, Holds(c), NEW d \in Clients, d # c
    PROVE  section[d].at \in {"idle", "stored"}
BY DEF StoreSafe, OneHolder, Holds

(* The holder moves on, to a stage or to the end, and what the next stage  *)
(* requires is there: the others wait.                                     *)
LEMMA MovesOn ==
    ASSUME StoreSafe, NEW c \in Clients, Holds(c), NEW r \in Sections \cup {Idle},
           section' = [section EXCEPT ![c] = r], TypeOK',
           Prepared(c)', \A a \in acked' : Kept(a)' /\ Spares(c, a)'
    PROVE  StoreSafe'
<1>1. ASSUME NEW d \in Clients, d # c
      PROVE  section'[d].at \in {"idle", "stored"}
    BY <1>1, OthersWait DEF StoreSafe, TypeOK
<1>2. OneHolder'
    BY <1>1 DEF OneHolder, Holds
<1>3. ASSUME NEW d \in Clients PROVE Prepared(d)' /\ \A a \in acked' : Spares(d, a)'
    <2>1. CASE d = c
        BY <2>1
    <2>2. CASE d # c
        BY <1>1, <2>2 DEF Prepared, Spares, Writing
    <2> QED
        BY <2>1, <2>2
<1> QED
    BY <1>2, <1>3 DEF StoreSafe

(* Moving on changes the stage of a request only. *)
LEMMA NextStage ==
    ASSUME StoreSafe, NEW c \in Clients, section[c] \in Sections, NEW at \in Stages,
           Goto(c, at), Coherent([section[c] EXCEPT !.at = at])
    PROVE  /\ SectionsOK'
           /\ section' = [section EXCEPT ![c] = section'[c]]
           /\ section'[c] \in Sections
           /\ section'[c].at = at
           /\ section'[c].op = section[c].op
           /\ section'[c].ws = section[c].ws
           /\ section'[c].manifest = section[c].manifest
           /\ section'[c].schedule = section[c].schedule
           /\ section'[c].index = section[c].index
           /\ section'[c].record = section[c].record
<1> DEFINE q == [section[c] EXCEPT !.at = at]
<1>1. /\ q \in Sections /\ q.at = at
      /\ q.op = section[c].op /\ q.ws = section[c].ws
      /\ q.manifest = section[c].manifest /\ q.schedule = section[c].schedule
      /\ q.index = section[c].index /\ q.record = section[c].record
    BY DEF Sections
<1>2. section' = [section EXCEPT ![c] = q]
    BY DEF Goto
<1> HIDE DEF q
<1>3. section'[c] = q
    BY <1>2 DEF StoreSafe, TypeOK
<1>4. SectionsOK'
    BY <1>1, <1>2, SectionChanges DEF StoreSafe, TypeOK, SectionsOK, q
<1> QED
    BY <1>1, <1>2, <1>3, <1>4

(* Writing a body only adds to what the index may list. *)
LEMMA WriteBodySafe ==
    ASSUME StoreSafe, NEW c \in Clients, WriteBody(c)
    PROVE  StoreSafe'
<1> DEFINE r == section[c]
<1>1. /\ r.at = "body" /\ Goto(c, "index")
      /\ bodies' = [bodies EXCEPT ![r.ws][r.manifest] = r.schedule]
      /\ UNCHANGED <<known, top, index, files, answers, faults>>
    BY DEF WriteBody, Holding
<1>2. r \in Sections /\ Coherent(r) /\ Holds(c)
    BY <1>1, RequestFacts DEF StoreSafe, TypeOK, SectionsOK, Holds
<1>3. r.op = "add" /\ r.ws \in Workspaces /\ r.manifest \in Manifests
      /\ r.schedule \in Schedules \cup {Unlinked} /\ r.schedule # Absent
    BY <1>1, <1>2 DEF Coherent, Sections
<1>4. Coherent([r EXCEPT !.at = "index"])
    BY <1>2, <1>3 DEF Coherent, Sections
<1>5. /\ SectionsOK' /\ section' = [section EXCEPT ![c] = section'[c]]
      /\ section'[c] \in Sections
      /\ section'[c].at = "index" /\ section'[c].op = "add" /\ section'[c].ws = r.ws
      /\ section'[c].manifest = r.manifest /\ section'[c].index = r.index
    BY <1>1, <1>2, <1>3, <1>4, NextStage DEF Stages
<1>6. /\ bodies' \in [Workspaces -> [Manifests -> Schedules \cup {Unlinked, Absent}]]
      /\ bodies'[r.ws][r.manifest] # Absent
      /\ \A w \in Workspaces, m \in Manifests :
            bodies[w][m] # Absent => bodies'[w][m] # Absent
    BY <1>1, <1>3 DEF StoreSafe, TypeOK
<1>7. TypeOK'
    BY <1>1, <1>5, <1>6 DEF StoreSafe, TypeOK, SectionsOK, faults
<1>8. Prepared(c)'
    <2>1. Prepared(c)
        BY DEF StoreSafe
    <2> QED
        BY <1>1, <1>3, <1>5, <1>6, <2>1 DEF Prepared, Writing
<1>9. ASSUME NEW a \in acked' PROVE Kept(a)' /\ Spares(c, a)'
    <2>1. Kept(a) /\ Spares(c, a) /\ a.ws \in Workspaces /\ a.manifest \in Manifests
        BY <1>1 DEF StoreSafe, TypeOK
    <2> QED
        BY <1>1, <1>5, <1>6, <2>1 DEF Kept, Spares, Lists, Writing
<1> QED
    BY <1>2, <1>5, <1>7, <1>8, <1>9, MovesOn

(* Writing a schedule file touches nothing that was acknowledged. *)
LEMMA WriteFileSafe ==
    ASSUME StoreSafe, NEW c \in Clients, WriteFile(c)
    PROVE  StoreSafe'
<1> DEFINE r == section[c]
<1>1. /\ r.at = "file" /\ Goto(c, "index")
      /\ files' = [files EXCEPT ![r.ws] = @ \cup {r.schedule}]
      /\ UNCHANGED <<known, top, index, bodies, answers, faults>>
    BY DEF WriteFile, Holding
<1>2. r \in Sections /\ Coherent(r) /\ Holds(c)
    BY <1>1, RequestFacts DEF StoreSafe, TypeOK, SectionsOK, Holds
<1>3. r.op = "put" /\ r.ws \in Workspaces /\ r.schedule \in Schedules
    BY <1>1, <1>2 DEF Coherent, Sections
<1>4. Coherent([r EXCEPT !.at = "index"])
    BY <1>2, <1>3 DEF Coherent, Sections
<1>5. /\ SectionsOK' /\ section' = [section EXCEPT ![c] = section'[c]]
      /\ section'[c] \in Sections
      /\ section'[c].at = "index" /\ section'[c].op = "put" /\ section'[c].ws = r.ws
      /\ section'[c].manifest = r.manifest /\ section'[c].index = r.index
    BY <1>1, <1>2, <1>3, <1>4, NextStage DEF Stages
<1>6. files' \in [Workspaces -> SUBSET Schedules]
    BY <1>1, <1>3 DEF StoreSafe, TypeOK
<1>7. TypeOK'
    BY <1>1, <1>5, <1>6 DEF StoreSafe, TypeOK, SectionsOK, faults
<1>8. Prepared(c)'
    <2>1. Prepared(c)
        BY DEF StoreSafe
    <2> QED
        BY <1>1, <1>3, <1>5, <2>1 DEF Prepared, Writing
<1>9. ASSUME NEW a \in acked' PROVE Kept(a)' /\ Spares(c, a)'
    <2>1. Kept(a) /\ Spares(c, a)
        BY <1>1 DEF StoreSafe
    <2> QED
        BY <1>1, <1>5, <2>1 DEF Kept, Spares, Lists, Writing
<1> QED
    BY <1>2, <1>5, <1>7, <1>8, <1>9, MovesOn

(* The body that goes belongs to a manifest no longer acknowledged. *)
LEMMA UnlinkBodySafe ==
    ASSUME StoreSafe, NEW c \in Clients, UnlinkBody(c)
    PROVE  StoreSafe'
<1> DEFINE r == section[c]
           at == IF r.schedule = Absent THEN "index" ELSE "collect"
<1>1. /\ r.at = "unlink" /\ Goto(c, at)
      /\ bodies' = [bodies EXCEPT ![r.ws][r.manifest] = Absent]
      /\ UNCHANGED <<known, top, index, files, answers, faults>>
    BY DEF UnlinkBody, Holding
<1>2. r \in Sections /\ Coherent(r) /\ Holds(c)
    BY <1>1, RequestFacts DEF StoreSafe, TypeOK, SectionsOK, Holds
<1>3. r.op = "remove" /\ r.ws \in Workspaces /\ r.manifest \in Manifests
    BY <1>1, <1>2 DEF Coherent, Sections
<1>4. Coherent([r EXCEPT !.at = at])
    BY <1>1, <1>2, <1>3 DEF Coherent, Sections
<1>5. /\ SectionsOK' /\ section' = [section EXCEPT ![c] = section'[c]]
      /\ section'[c] \in Sections
      /\ section'[c].at \in {"index", "collect"}
      /\ section'[c].op = "remove" /\ section'[c].ws = r.ws
      /\ section'[c].manifest = r.manifest /\ section'[c].index = r.index
    BY <1>1, <1>2, <1>3, <1>4, NextStage DEF Stages
<1>6. /\ bodies' \in [Workspaces -> [Manifests -> Schedules \cup {Unlinked, Absent}]]
      /\ \A w \in Workspaces, m \in Manifests :
            (w # r.ws \/ m # r.manifest) => bodies'[w][m] = bodies[w][m]
    BY <1>1, <1>3 DEF StoreSafe, TypeOK
<1>7. TypeOK'
    BY <1>1, <1>5, <1>6 DEF StoreSafe, TypeOK, SectionsOK, faults
<1>8. Prepared(c)'
    <2>1. Prepared(c)
        BY DEF StoreSafe
    <2> QED
        BY <1>1, <1>3, <1>5, <2>1 DEF Prepared, Writing
<1>9. ASSUME NEW a \in acked' PROVE Kept(a)' /\ Spares(c, a)'
    <2>1. Kept(a) /\ Spares(c, a) /\ a.ws \in Workspaces /\ a.manifest \in Manifests
        BY <1>1 DEF StoreSafe, TypeOK
    <2> QED
        BY <1>1, <1>5, <1>6, <2>1 DEF Kept, Spares, Lists, Writing
<1> QED
    BY <1>2, <1>5, <1>7, <1>8, <1>9, MovesOn

(* Collecting a schedule file touches no body and no list. *)
LEMMA CollectSafe ==
    ASSUME StoreSafe, NEW c \in Clients, Holding(c, "collect"), Goto(c, "index"),
           UNCHANGED <<known, top, index, bodies, answers>>,
           files' \in [Workspaces -> SUBSET Schedules],
           failures' \in 0 .. MaxFailures, crashes' \in 0 .. MaxCrashes
    PROVE  StoreSafe'
<1> DEFINE r == section[c]
<1>1. r.at = "collect"
    BY DEF Holding
<1>2. r \in Sections /\ Coherent(r) /\ Holds(c)
    BY <1>1, RequestFacts DEF StoreSafe, TypeOK, SectionsOK, Holds
<1>3. r.op = "remove" /\ r.ws \in Workspaces
    BY <1>1, <1>2 DEF Coherent, Sections
<1>4. Coherent([r EXCEPT !.at = "index"])
    BY <1>1, <1>2, <1>3 DEF Coherent, Sections
<1>5. /\ SectionsOK' /\ section' = [section EXCEPT ![c] = section'[c]]
      /\ section'[c] \in Sections
      /\ section'[c].at = "index"
      /\ section'[c].op = "remove" /\ section'[c].ws = r.ws
      /\ section'[c].manifest = r.manifest /\ section'[c].index = r.index
    BY <1>1, <1>2, <1>3, <1>4, NextStage DEF Stages
<1>6. TypeOK'
    BY <1>1, <1>5 DEF StoreSafe, TypeOK, SectionsOK
<1>7. Prepared(c)'
    <2>1. Prepared(c)
        BY DEF StoreSafe
    <2> QED
        BY <1>1, <1>3, <1>5, <2>1 DEF Prepared, Writing
<1>8. ASSUME NEW a \in acked' PROVE Kept(a)' /\ Spares(c, a)'
    <2>1. Kept(a) /\ Spares(c, a)
        BY <1>1 DEF StoreSafe
    <2> QED
        BY <1>1, <1>5, <2>1 DEF Kept, Spares, Lists, Writing
<1> QED
    BY <1>2, <1>5, <1>6, <1>7, <1>8, MovesOn

(* The new index lists all that was acknowledged. *)
LEMMA WriteIndexSafe ==
    ASSUME StoreSafe, NEW c \in Clients, WriteIndex(c)
    PROVE  StoreSafe'
<1> DEFINE r == section[c]
           at == IF r.op = "put" THEN "stored" ELSE "top"
<1>1. /\ r.at = "index" /\ Goto(c, at)
      /\ index' = [index EXCEPT ![r.ws] = r.index]
      /\ r.op = "put" => known' = known
      /\ r.op # "put" => known' = [known EXCEPT ![r.ws] = r.record]
      /\ UNCHANGED <<top, bodies, files, answers, faults>>
    BY DEF WriteIndex, Holding
<1>2. r \in Sections /\ Coherent(r) /\ Holds(c)
    BY <1>1, RequestFacts DEF StoreSafe, TypeOK, SectionsOK, Holds
<1>3. /\ r.ws \in Workspaces /\ r.index \in Indexes
      /\ r.op # "put" => r.record \in Records /\ r.record # Absent
    BY <1>1, <1>2 DEF Coherent, Sections
<1>4. Coherent([r EXCEPT !.at = at])
    BY <1>1, <1>2, <1>3 DEF Coherent, Sections
<1>5. /\ SectionsOK' /\ section' = [section EXCEPT ![c] = section'[c]]
      /\ section'[c] \in Sections
      /\ section'[c].at = at
      /\ section'[c].op = r.op /\ section'[c].ws = r.ws
      /\ section'[c].manifest = r.manifest
    BY <1>1, <1>2, <1>3, <1>4, NextStage DEF Stages
<1>6. /\ known' \in [Workspaces -> Records \cup {Absent}]
      /\ \A w \in Workspaces : known[w] # Absent => known'[w] # Absent
      /\ r.op # "put" => known'[r.ws] # Absent
    BY <1>1, <1>3 DEF StoreSafe, TypeOK
<1>7. /\ index' \in [Workspaces -> Indexes]
      /\ index'[r.ws] = r.index
      /\ \A w \in Workspaces : w # r.ws => index'[w] = index[w]
    BY <1>1, <1>3 DEF StoreSafe, TypeOK
<1>8. TypeOK'
    BY <1>1, <1>5, <1>6, <1>7 DEF StoreSafe, TypeOK, SectionsOK, faults
<1>9. Prepared(c)'
    <2>1. Prepared(c)
        BY DEF StoreSafe
    <2>2. r.op = "add" => /\ \E e \in index'[r.ws].entries : e.manifest = r.manifest
                          /\ bodies'[r.ws][r.manifest] # Absent
        BY <1>1, <1>7, <2>1 DEF Prepared, Names
    <2> QED
        BY <1>5, <1>6, <2>2 DEF Prepared, Writing, Lists
<1>10. ASSUME NEW a \in acked' PROVE Kept(a)' /\ Spares(c, a)'
    <2>1. Kept(a) /\ Spares(c, a) /\ a.ws \in Workspaces
        BY <1>1 DEF StoreSafe, TypeOK
    <2>2. Lists(a.ws, a.manifest)'
        BY <1>1, <1>7, <2>1 DEF Kept, Spares, Lists, Names, Writing
    <2>3. Kept(a)'
        BY <1>1, <1>6, <2>1, <2>2 DEF Kept
    <2>4. Spares(c, a)'
        BY <1>5 DEF Spares, Writing
    <2> QED
        BY <2>3, <2>4
<1> QED
    BY <1>2, <1>5, <1>8, <1>9, <1>10, MovesOn

(* The index and the bodies of a workspace whose directory goes. *)
LEMMA RemoveDirSafe ==
    ASSUME StoreSafe, NEW c \in Clients, RemoveDir(c)
    PROVE  StoreSafe'
<1> DEFINE r == section[c]
<1>1. /\ r.at = "rmdir" /\ Goto(c, "top")
      /\ index' = [index EXCEPT ![r.ws] = EmptyIndex]
      /\ bodies' = [bodies EXCEPT ![r.ws] = [m \in Manifests |-> Absent]]
      /\ files' = [files EXCEPT ![r.ws] = {}]
      /\ known' = [known EXCEPT ![r.ws] = Absent]
      /\ UNCHANGED <<top, answers, faults>>
    BY DEF RemoveDir, Holding
<1>2. r \in Sections /\ Coherent(r) /\ Holds(c)
    BY <1>1, RequestFacts DEF StoreSafe, TypeOK, SectionsOK, Holds
<1>3. r.op = "delete" /\ r.ws \in Workspaces
    BY <1>1, <1>2 DEF Coherent, Sections
<1>4. Coherent([r EXCEPT !.at = "top"])
    BY <1>2, <1>3 DEF Coherent, Sections
<1>5. /\ SectionsOK' /\ section' = [section EXCEPT ![c] = section'[c]]
      /\ section'[c] \in Sections
      /\ section'[c].at = "top" /\ section'[c].op = "delete" /\ section'[c].ws = r.ws
    BY <1>1, <1>2, <1>3, <1>4, NextStage DEF Stages
<1>6. EmptyIndex \in Indexes
    BY DEF EmptyIndex, Indexes
<1>7. [m \in Manifests |-> Absent] \in [Manifests -> Schedules \cup {Unlinked, Absent}]
    OBVIOUS
<1>8. /\ known' \in [Workspaces -> Records \cup {Absent}]
      /\ index' \in [Workspaces -> Indexes]
      /\ bodies' \in [Workspaces -> [Manifests -> Schedules \cup {Unlinked, Absent}]]
      /\ files' \in [Workspaces -> SUBSET Schedules]
    BY <1>1, <1>6, <1>7 DEF StoreSafe, TypeOK
<1>9. TypeOK'
    BY <1>1, <1>5, <1>8 DEF StoreSafe, TypeOK, SectionsOK, faults
<1>10. Prepared(c)'
    BY <1>5 DEF Prepared, Writing
<1>11. ASSUME NEW a \in acked' PROVE Kept(a)' /\ Spares(c, a)'
    <2>1. Kept(a) /\ Spares(c, a) /\ a.ws \in Workspaces /\ a.ws # r.ws
        BY <1>1 DEF StoreSafe, TypeOK, Spares
    <2>2. index'[a.ws] = index[a.ws] /\ bodies'[a.ws] = bodies[a.ws] /\ known'[a.ws] = known[a.ws]
        BY <1>1, <2>1 DEF StoreSafe, TypeOK
    <2> QED
        BY <1>1, <1>5, <2>1, <2>2 DEF Kept, Spares, Lists, Writing
<1> QED
    BY <1>2, <1>5, <1>9, <1>10, <1>11, MovesOn

(* The registry takes over the memory, and the request is answered. *)
LEMMA WriteTopSafe ==
    ASSUME StoreSafe, NEW c \in Clients, WriteTop(c)
    PROVE  StoreSafe'
<1> DEFINE r == section[c]
           new == [ws |-> r.ws, manifest |-> r.manifest]
<1>1. /\ r.at = "top" /\ top' = known
      /\ section' = [section EXCEPT ![c] = Idle]
      /\ acked' = acked \cup (IF r.op = "add" THEN {new} ELSE {})
      /\ UNCHANGED <<known, index, bodies, files, echoed, faults>>
    BY DEF WriteTop, Holding, Done
<1>2. r \in Sections /\ Coherent(r) /\ Holds(c)
    BY <1>1, RequestFacts DEF StoreSafe, TypeOK, SectionsOK, Holds
<1>3. r.ws \in Workspaces /\ (r.op = "add" => r.manifest \in Manifests)
    BY <1>2 DEF Coherent, Sections
<1>4. SectionsOK'
    BY <1>1, SectionChanges DEF StoreSafe, TypeOK, SectionsOK
<1>5. acked' \subseteq [ws : Workspaces, manifest : Manifests]
    BY <1>1, <1>3 DEF StoreSafe, TypeOK
<1>6. TypeOK'
    BY <1>1, <1>4, <1>5 DEF StoreSafe, TypeOK, SectionsOK, faults
<1>7. section'[c].at = "idle"
    BY <1>1 DEF StoreSafe, TypeOK, Idle
<1>8. Prepared(c)'
    BY <1>7 DEF Prepared, Writing
<1>9. ASSUME NEW a \in acked' PROVE Kept(a)' /\ Spares(c, a)'
    <2>1. CASE a \in acked
        <3>1. Kept(a)
            BY <2>1 DEF StoreSafe
        <3> QED
            BY <1>1, <1>7, <3>1 DEF Kept, Spares, Lists, Writing
    <2>2. CASE a = new /\ r.op = "add"
        <3>1. Prepared(c)
            BY DEF StoreSafe
        <3> QED
            BY <1>1, <1>7, <2>2, <3>1 DEF Prepared, Kept, Spares, Lists, Writing
    <2> QED
        BY <1>1, <2>1, <2>2
<1> QED
    BY <1>1, <1>2, <1>6, <1>8, <1>9, MovesOn

-----------------------------------------------------------------------------
(* Failures and crashes *)

(* A directory loses parts of itself only in the workspace that is being   *)
(* deleted.                                                                *)
LEMMA InterruptedFacts ==
    ASSUME StoreSafe, NEW c \in Clients, Holds(c), Interrupted(c)
    PROVE  /\ index' \in [Workspaces -> Indexes]
           /\ bodies' \in [Workspaces -> [Manifests -> Schedules \cup {Unlinked, Absent}]]
           /\ files' \in [Workspaces -> SUBSET Schedules]
           /\ \A a \in acked : index'[a.ws] = index[a.ws] /\ bodies'[a.ws] = bodies[a.ws]
<1>1. CASE Holding(c, "rmdir") /\ Torn(section[c].ws)
    <2>1. section[c] \in Sections
        BY <1>1, RequestFacts DEF StoreSafe, TypeOK, SectionsOK, Holding
    <2>2. PICK w \in Workspaces : w = section[c].ws
        BY <2>1 DEF Sections
    <2>3. PICK gone \in SUBSET Manifests, kept \in SUBSET files[w] :
            /\ bodies' = [bodies EXCEPT ![w] =
                  [m \in Manifests |-> IF m \in gone THEN Absent ELSE bodies[w][m]]]
            /\ files' = [files EXCEPT ![w] = kept]
            /\ UNCHANGED index \/ index' = [index EXCEPT ![w] = EmptyIndex]
        <3>1. Torn(w)
            BY <1>1, <2>2
        <3> QED
            BY <3>1 DEF Torn
    <2>4. EmptyIndex \in Indexes
        BY DEF EmptyIndex, Indexes
    <2>5. [m \in Manifests |-> IF m \in gone THEN Absent ELSE bodies[w][m]]
              \in [Manifests -> Schedules \cup {Unlinked, Absent}]
        BY DEF StoreSafe, TypeOK
    <2>6. /\ index' \in [Workspaces -> Indexes]
          /\ bodies' \in [Workspaces -> [Manifests -> Schedules \cup {Unlinked, Absent}]]
          /\ files' \in [Workspaces -> SUBSET Schedules]
        BY <2>3, <2>4, <2>5 DEF StoreSafe, TypeOK
    <2>7. ASSUME NEW a \in acked
          PROVE  index'[a.ws] = index[a.ws] /\ bodies'[a.ws] = bodies[a.ws]
        <3>1. a.ws # w /\ a.ws \in Workspaces
            BY <1>1, <2>2 DEF StoreSafe, TypeOK, Spares, Holding
        <3> QED
            BY <2>3, <3>1 DEF StoreSafe, TypeOK
    <2> QED
        BY <2>6, <2>7
<1>2. CASE UNCHANGED <<index, bodies, files>>
    BY <1>2 DEF StoreSafe, TypeOK
<1> QED
    BY <1>1, <1>2 DEF Interrupted

(* A failed write ends its request and keeps the store safe. *)
LEMMA FailSafe ==
    ASSUME StoreSafe, NEW c \in Clients, Fail(c)
    PROVE  StoreSafe'
<1>1. /\ Holds(c) /\ Interrupted(c)
      /\ section' = [section EXCEPT ![c] = Idle]
      /\ failures' = failures + 1 /\ failures < MaxFailures
      /\ UNCHANGED <<known, top, answers, crashes>>
    BY DEF Fail, Done
<1>2. SectionsOK'
    BY <1>1, SectionChanges DEF StoreSafe, TypeOK, SectionsOK
<1>3. failures' \in 0 .. MaxFailures
    BY <1>1, StoreConstants DEF StoreSafe, TypeOK
<1>4. TypeOK'
    BY <1>1, <1>2, <1>3, InterruptedFacts DEF StoreSafe, TypeOK, SectionsOK
<1>5. section'[c].at = "idle"
    BY <1>1 DEF StoreSafe, TypeOK, Idle
<1>6. Prepared(c)'
    BY <1>5 DEF Prepared, Writing
<1>7. ASSUME NEW a \in acked' PROVE Kept(a)' /\ Spares(c, a)'
    <2>1. Kept(a) /\ index'[a.ws] = index[a.ws] /\ bodies'[a.ws] = bodies[a.ws]
        BY <1>1, InterruptedFacts DEF StoreSafe
    <2> QED
        BY <1>1, <1>5, <2>1 DEF Kept, Spares, Lists, Writing
<1> QED
    BY <1>1, <1>4, <1>6, <1>7, MovesOn

(* A crash keeps the store safe: the registry knows what was acknowledged. *)
LEMMA CrashSafe ==
    ASSUME StoreSafe, Crash
    PROVE  StoreSafe'
<1>1. /\ crashes' = crashes + 1 /\ crashes < MaxCrashes
      /\ known' = top
      /\ section' = [c \in Clients |-> Idle]
      /\ UNCHANGED <<top, answers, failures>>
    BY DEF Crash
<1>2. /\ index' \in [Workspaces -> Indexes]
      /\ bodies' \in [Workspaces -> [Manifests -> Schedules \cup {Unlinked, Absent}]]
      /\ files' \in [Workspaces -> SUBSET Schedules]
      /\ \A a \in acked : index'[a.ws] = index[a.ws] /\ bodies'[a.ws] = bodies[a.ws]
    <2>1. CASE UNCHANGED <<index, bodies, files>>
        BY <2>1 DEF StoreSafe, TypeOK
    <2>2. CASE \E c \in Clients : Holds(c) /\ Interrupted(c)
        BY <2>2, InterruptedFacts
    <2> QED
        BY <2>1, <2>2 DEF Crash
<1>3. SectionsOK'
    BY <1>1 DEF SectionsOK
<1>4. crashes' \in 0 .. MaxCrashes
    BY <1>1, StoreConstants DEF StoreSafe, TypeOK
<1>5. TypeOK'
    BY <1>1, <1>2, <1>3, <1>4 DEF StoreSafe, TypeOK, SectionsOK
<1>6. ASSUME NEW c \in Clients PROVE section'[c].at = "idle"
    BY <1>1 DEF Idle
<1>7. OneHolder'
    BY <1>6 DEF OneHolder, Holds
<1>8. ASSUME NEW c \in Clients PROVE Prepared(c)' /\ \A a \in acked' : Spares(c, a)'
    BY <1>6 DEF Prepared, Spares, Writing
<1>9. ASSUME NEW a \in acked' PROVE Kept(a)'
    <2>1. Kept(a) /\ index'[a.ws] = index[a.ws] /\ bodies'[a.ws] = bodies[a.ws]
        BY <1>1, <1>2 DEF StoreSafe
    <2> QED
        BY <1>1, <2>1 DEF Kept, Lists
<1> QED
    BY <1>5, <1>7, <1>8, <1>9 DEF StoreSafe

-----------------------------------------------------------------------------
(* The theorems *)

(* A step that changes nothing keeps the store safe. *)
LEMMA StoreStutters ==
    ASSUME StoreSafe, UNCHANGED vars
    PROVE  StoreSafe'
<1>1. UNCHANGED <<known, top, index, bodies, files, section, answers, failures, crashes>>
    BY DEF vars, disk, faults
<1> QED
    BY <1>1 DEF StoreSafe, TypeOK, OneHolder, Holds, Prepared, Kept, Spares, Lists

(* Every step keeps the store safe. *)
LEMMA StoreStep ==
    ASSUME StoreSafe, [Next]_vars
    PROVE  StoreSafe'
<1>1. ASSUME NEW c \in Clients, Requests(c) PROVE StoreSafe'
    BY <1>1, CreateWorkspaceSafe, UpdateWorkspaceSafe, DeleteWorkspaceSafe,
       ImportManifestSafe, IngestScheduleSafe, RemoveManifestSafe DEF Requests
<1>2. ASSUME NEW c \in Clients, Repeats(c) \/ RegisterIngested(c) PROVE StoreSafe'
    BY <1>2, RepeatImportSafe, RegisterIngestedSafe DEF Repeats
<1>3. ASSUME NEW c \in Clients, Writes(c) PROVE StoreSafe'
    <2>1. CASE Collect(c)
        <3>1. section[c] \in Sections /\ Coherent(section[c])
            BY <2>1, RequestFacts DEF Collect, Holding, StoreSafe, TypeOK, SectionsOK
        <3>2. files' \in [Workspaces -> SUBSET Schedules]
            BY <2>1, <3>1 DEF Collect, StoreSafe, TypeOK
        <3>3. failures' \in 0 .. MaxFailures /\ crashes' \in 0 .. MaxCrashes
            BY <2>1 DEF Collect, faults, StoreSafe, TypeOK
        <3> QED
            BY <2>1, <3>2, <3>3, CollectSafe DEF Collect
    <2> QED
        BY <1>3, <2>1, WriteBodySafe, WriteFileSafe, UnlinkBodySafe, WriteIndexSafe,
           RemoveDirSafe, WriteTopSafe DEF Writes
<1>4. ASSUME NEW c \in Clients, CollectFails(c) PROVE StoreSafe'
    <2>1. failures' \in 0 .. MaxFailures /\ crashes' \in 0 .. MaxCrashes
        BY <1>4, StoreConstants DEF CollectFails, StoreSafe, TypeOK
    <2>2. files' \in [Workspaces -> SUBSET Schedules]
        BY <1>4 DEF CollectFails, disk, StoreSafe, TypeOK
    <2> QED
        BY <1>4, <2>1, <2>2, CollectSafe DEF CollectFails, disk
<1> QED
    BY <1>1, <1>2, <1>3, <1>4, FailSafe, CrashSafe, StoreStutters DEF Next

(* The inductive invariant holds throughout, whatever fails or crashes.    *)
THEOREM StoreIsSafe == Spec => []StoreSafe
<1>1. Init => StoreSafe
    BY StoreInitial
<1>2. StoreSafe /\ [Next]_vars => StoreSafe'
    BY StoreStep
<1> QED
    BY <1>1, <1>2, PTL DEF Spec

(* Memory and files keep their types, and a request never reaches a write  *)
(* it has nothing to write for.                                            *)
THEOREM StoreTypeCorrect == Spec => []TypeOK
<1>1. StoreSafe => TypeOK
    BY DEF StoreSafe
<1> QED
    BY <1>1, StoreIsSafe, PTL

(* A registration that was answered as created survives every failed write *)
(* and every crash until its removal is requested.                         *)
THEOREM AcknowledgedSurvives == Spec => []AckedIsDurable
<1>1. StoreSafe => AckedIsDurable
    BY DEF StoreSafe, Kept, AckedIsDurable, Registered
<1> QED
    BY <1>1, StoreIsSafe, PTL

-----------------------------------------------------------------------------
(* The membership lists *)

MemberLists == [w \in Workspaces |-> index[w].entries]

(* An index that is one step away is one step of the promise. *)
LEMMA OneStepIsPromised ==
    ASSUME StoreSafe, NEW w \in Workspaces, NEW new,
           OneStep(index[w].entries, new.entries),
           index' = [index EXCEPT ![w] = new]
    PROVE  Promise!Next \/ MemberLists' = MemberLists
<1> DEFINE old == MemberLists
<1>1. /\ old[w] = index[w].entries
      /\ old' = [old EXCEPT ![w] = new.entries]
    BY DEF StoreSafe, TypeOK, MemberLists
<1>2. old = [v \in Workspaces |-> index[v].entries]
    BY DEF MemberLists
<1>3. CASE new.entries = index[w].entries
    BY <1>1, <1>3 DEF MemberLists
<1>4. CASE new.entries = {}
    <2>1. old' = [old EXCEPT ![w] = {}]
        BY <1>1, <1>4
    <2>2. Promise!Clear(w)
        BY <2>1 DEF Promise!Clear, MemberLists
    <2> QED
        BY <2>2 DEF Promise!Next
<1>5. ASSUME NEW m \in Manifests, new.entries = {e \in index[w].entries : e.manifest # m}
      PROVE  Promise!Next
    <2>1. old' = [old EXCEPT ![w] = {e \in old[w] : e.manifest # m}]
        BY <1>1, <1>5
    <2>2. Promise!Leave(w, m)
        BY <2>1 DEF Promise!Leave, MemberLists
    <2> QED
        BY <2>2 DEF Promise!Next
<1>6. ASSUME NEW k \in Keys \cup Manifests, NEW m \in Manifests,
             \A e \in index[w].entries : e.key # k,
             new.entries = index[w].entries \cup {[key |-> k, manifest |-> m]}
      PROVE  Promise!Next
    <2>1. old' = [old EXCEPT ![w] = old[w] \cup {[key |-> k, manifest |-> m]}]
        BY <1>1, <1>6
    <2>2. \A e \in old[w] : e.key # k
        BY <1>1, <1>6
    <2>3. Promise!Join(w, k, m)
        BY <2>1, <2>2 DEF Promise!Join, MemberLists
    <2> QED
        BY <2>3 DEF Promise!Next
<1> QED
    BY <1>3, <1>4, <1>5, <1>6 DEF OneStep

(* An interrupted deletion leaves the list, or clears it. *)
LEMMA InterruptedIsPromised ==
    ASSUME StoreSafe, NEW c \in Clients, Holds(c), Interrupted(c)
    PROVE  Promise!Next \/ MemberLists' = MemberLists
<1>1. CASE UNCHANGED index
    BY <1>1 DEF MemberLists
<1>2. CASE Holding(c, "rmdir") /\ index' = [index EXCEPT ![section[c].ws] = EmptyIndex]
    <2>1. section[c].ws \in Workspaces
        BY <1>2, RequestFacts DEF StoreSafe, TypeOK, SectionsOK, Holding, Sections
    <2>2. OneStep(index[section[c].ws].entries, EmptyIndex.entries)
        BY DEF OneStep, EmptyIndex
    <2> QED
        BY <1>2, <2>1, <2>2, OneStepIsPromised
<1> QED
    BY <1>1, <1>2 DEF Interrupted, Torn

(* Every step of the store is a step of the promise or a stutter. *)
LEMMA StepIsPromised ==
    ASSUME StoreSafe, [Next]_vars
    PROVE  Promise!Next \/ MemberLists' = MemberLists
<1>1. CASE UNCHANGED index
    BY <1>1 DEF MemberLists
<1>2. ASSUME NEW c \in Clients, WriteIndex(c)
      PROVE  Promise!Next \/ MemberLists' = MemberLists
    <2>1. section[c].ws \in Workspaces /\ section[c].at = "index"
        BY <1>2, RequestFacts DEF WriteIndex, StoreSafe, TypeOK, SectionsOK, Holding, Sections
    <2>2. OneStep(index[section[c].ws].entries, section[c].index.entries)
        BY <2>1 DEF StoreSafe, Prepared, Writing
    <2>3. index' = [index EXCEPT ![section[c].ws] = section[c].index]
        BY <1>2 DEF WriteIndex
    <2> QED
        BY <2>1, <2>2, <2>3, OneStepIsPromised
<1>3. ASSUME NEW c \in Clients, RemoveDir(c)
      PROVE  Promise!Next \/ MemberLists' = MemberLists
    <2>1. section[c].ws \in Workspaces
        BY <1>3, RequestFacts DEF RemoveDir, StoreSafe, TypeOK, SectionsOK, Holding, Sections
    <2>2. OneStep(index[section[c].ws].entries, EmptyIndex.entries)
        BY DEF OneStep, EmptyIndex
    <2>3. index' = [index EXCEPT ![section[c].ws] = EmptyIndex]
        BY <1>3 DEF RemoveDir
    <2> QED
        BY <2>1, <2>2, <2>3, OneStepIsPromised
<1>4. ASSUME NEW c \in Clients, Fail(c)
      PROVE  Promise!Next \/ MemberLists' = MemberLists
    BY <1>4, InterruptedIsPromised DEF Fail
<1>5. CASE Crash
    BY <1>1, <1>5, InterruptedIsPromised DEF Crash
<1>6. ASSUME NEW c \in Clients, Requests(c) \/ Repeats(c) \/ RegisterIngested(c)
      PROVE  UNCHANGED index
    BY <1>6 DEF Requests, Repeats, RepeatImport, RegisterIngested, CreateWorkspace, UpdateWorkspace, DeleteWorkspace,
       ImportManifest, IngestSchedule, RemoveManifest, disk
<1>7. ASSUME NEW c \in Clients,
             WriteBody(c) \/ WriteFile(c) \/ UnlinkBody(c) \/ Collect(c) \/ WriteTop(c)
      PROVE  UNCHANGED index
    BY <1>7 DEF WriteBody, WriteFile, UnlinkBody, Collect, WriteTop
<1>8. ASSUME NEW c \in Clients, CollectFails(c) PROVE UNCHANGED index
    BY <1>8 DEF CollectFails, disk
<1>9. CASE UNCHANGED vars
    BY <1>1, <1>9 DEF vars, disk
<1> QED
    BY <1>1, <1>2, <1>3, <1>4, <1>5, <1>6, <1>7, <1>8, <1>9 DEF Next, Writes

(* Whatever requests run at once, fail or are cut short by a crash, the    *)
(* membership lists change by whole requests and hold no key twice.        *)
THEOREM ImplementsMembership == Spec => RefinesMembership
<1>1. Init => Promise!Init
    BY DEF Init, Promise!Init, EmptyIndex
<1>2. StoreSafe /\ [Next]_vars => [Promise!Next]_MemberLists
    BY StepIsPromised
<1>3. StoreSafe /\ [Next]_vars => [Promise!Next]_([w \in Workspaces |-> index[w].entries])
    BY <1>2 DEF MemberLists
<1> QED
    BY <1>1, <1>3, StoreIsSafe, PTL DEF Spec, RefinesMembership, Promise!Spec

-----------------------------------------------------------------------------
(* The memory and the files agree *)

(* A step that leaves the counters of faults alone is none. *)
LEMMA NoFaultByItself ==
    ASSUME StoreSafe, failures' = failures, crashes' = crashes
    PROVE  ~ Crash /\ \A c \in Clients : ~ Fail(c) /\ ~ CollectFails(c)
<1>1. failures \in Nat /\ crashes \in Nat
    BY DEF StoreSafe, TypeOK
<1> QED
    BY <1>1 DEF Crash, Fail, CollectFails

(* What is unharmed after a step was so before, and the step is no fault.  *)
LEMMA UnharmedBefore ==
    ASSUME StoreSafe, [Next]_vars, Unharmed'
    PROVE  Unharmed /\ failures' = failures /\ crashes' = crashes
<1>1. failures \in Nat /\ crashes \in Nat /\ failures' = 0 /\ crashes' = 0
    BY DEF StoreSafe, TypeOK, Unharmed
<1>2. ~ Crash /\ \A c \in Clients : ~ Fail(c) /\ ~ CollectFails(c)
    BY <1>1 DEF Crash, Fail, CollectFails
<1>3. ASSUME NEW c \in Clients, Requests(c) \/ Repeats(c) \/ RegisterIngested(c) PROVE UNCHANGED faults
    BY <1>3 DEF Requests, Repeats, RepeatImport, CreateWorkspace, UpdateWorkspace, DeleteWorkspace,
       ImportManifest, IngestSchedule, RemoveManifest, RegisterIngested
<1>4. ASSUME NEW c \in Clients, Writes(c) PROVE UNCHANGED faults
    BY <1>4 DEF Writes, WriteBody, WriteFile, UnlinkBody, Collect, WriteIndex, RemoveDir, WriteTop
<1>5. UNCHANGED faults
    BY <1>2, <1>3, <1>4 DEF Next, vars
<1> QED
    BY <1>1, <1>5 DEF faults, Unharmed

(* The manifests that clients bring have ids of their own. *)
OneManifestPerId == \A i, j \in Imports : i.manifest = j.manifest => i = j

(* A client that is writing what the store's readers look at. *)
IsWriting(c) == section[c].at \in Writing

(* The memory and the files of a workspace agree. *)
Agree(w) ==
    /\ known[w] # Absent => known[w].count = Cardinality(index[w].entries)
    /\ \A e \in index[w].entries : bodies[w][e.manifest] # Absent
    /\ \A s \in Schedules : index[w].slots[s] # Absent =>
          /\ s \in files[w]
          /\ \A m \in index[w].slots[s] : Lists(w, m) /\ bodies[w][m] = s

(* The body of manifest m, and whether schedule s has its file, when       *)
(* request r comes to write its index.                                     *)
BodyAfter(r, m) ==
    IF r.at = "body" /\ m = r.manifest THEN r.schedule
    ELSE IF r.at = "unlink" /\ m = r.manifest THEN Absent
    ELSE bodies[r.ws][m]

HasFileAfter(r, s) ==
    IF s = r.schedule /\ r.at \in {"file", "unlink", "collect"} THEN r.at = "file"
    ELSE s \in files[r.ws]

(* What a writer is to put in place agrees: its index with the bodies and  *)
(* the files as they will be, its record with its index.                   *)
Ready(c) ==
    LET r == section[c]
    IN  IsWriting(c) =>
          /\ \A e \in r.index.entries : BodyAfter(r, e.manifest) # Absent
          /\ \A s \in Schedules : r.index.slots[s] # Absent =>
                /\ HasFileAfter(r, s)
                /\ \A m \in r.index.slots[s] :
                      Names(r.index.entries, m) /\ BodyAfter(r, m) = s
          /\ IF r.op = "put"
               THEN known[r.ws] # Absent => known[r.ws].count = Cardinality(r.index.entries)
               ELSE r.record.count = Cardinality(r.index.entries)
          /\ r.at = "body" =>
                \A i \in Imports : i.manifest = r.manifest => i.schedule = r.schedule

(* The id of an ingestion in progress is nobody else's. *)
Reserved(c) ==
    section[c] # Idle /\ section[c].op = "put" =>
        /\ \A i \in Imports : i.manifest # section[c].manifest
        /\ \A w \in Workspaces : bodies[w][section[c].manifest] = Absent
        /\ \A d \in Clients \ {c} :
              section[d] # Idle => section[d].manifest # section[c].manifest

(* A body under the id of a manifest that clients bring is that manifest's. *)
BodiesAreImports ==
    \A w \in Workspaces, i \in Imports : bodies[w][i.manifest] \in {Absent, i.schedule}

(* A workspace in which nobody is writing agrees. *)
FilesSafe ==
    /\ \A w \in Workspaces :
          (\A c \in Clients : ~ (IsWriting(c) /\ section[c].ws = w)) => Agree(w)
    /\ \A c \in Clients : Ready(c) /\ Reserved(c)
    /\ BodiesAreImports

(* With the mutex free every workspace agrees. *)
LEMMA FreeMeansAgree ==
    ASSUME FilesSafe, Free, NEW w \in Workspaces
    PROVE  Agree(w)
<1>1. ASSUME NEW c \in Clients PROVE ~ IsWriting(c)
    BY DEF Free, Holds, IsWriting, Writing
<1> QED
    BY <1>1 DEF FilesSafe

(* Every workspace agreeing is what the readers of the files rely on. *)
LEMMA SafeFilesAgree ==
    ASSUME FilesSafe
    PROVE  FilesAgree
<1>1. ASSUME Free, NEW w \in Workspaces PROVE Agree(w)
    BY <1>1, FreeMeansAgree
<1>2. CountsMatch
    BY <1>1 DEF CountsMatch, Agree
<1>3. ListedHaveBodies
    BY <1>1 DEF ListedHaveBodies, Agree
<1>4. RegisteredHaveFiles
    BY <1>1 DEF RegisteredHaveFiles, Agree
<1>5. SlotsNameListed
    BY <1>1 DEF SlotsNameListed, Agree
<1> QED
    BY <1>2, <1>3, <1>4, <1>5 DEF FilesAgree

(* The empty store agrees. *)
LEMMA FilesInitial ==
    ASSUME Init
    PROVE  FilesSafe
<1>1. ASSUME NEW w \in Workspaces PROVE Agree(w)
    <2>1. known[w] = Absent /\ index[w] = EmptyIndex
        BY DEF Init
    <2> QED
        BY <2>1 DEF Agree, EmptyIndex
<1>2. ASSUME NEW c \in Clients PROVE Ready(c) /\ Reserved(c)
    <2>1. section[c] = Idle /\ ~ IsWriting(c)
        BY DEF Init, Idle, IsWriting, Writing
    <2> QED
        BY <2>1 DEF Ready, Reserved
<1>3. BodiesAreImports
    BY StoreConstants DEF Init, BodiesAreImports
<1> QED
    BY <1>1, <1>2, <1>3 DEF FilesSafe

-----------------------------------------------------------------------------
(* The requests keep the files in agreement *)

(* A client takes up a request under an id that no ingestion has reserved, *)
(* and what it is to write is ready.                                       *)
LEMMA TakesUpAgreeing ==
    ASSUME StoreSafe, FilesSafe, Free, NEW c \in Clients, NEW r \in Sections \cup {Idle},
           section' = [section EXCEPT ![c] = r], UNCHANGED disk,
           \A w \in Workspaces : known'[w] # Absent =>
              known[w] # Absent /\ known'[w].count = known[w].count,
           \A d \in Clients \ {c} :
              section[d] # Idle /\ section[d].op = "put" =>
                 (r # Idle => r.manifest # section[d].manifest),
           Ready(c)', Reserved(c)'
    PROVE  FilesSafe'
<1>1. UNCHANGED <<index, bodies, files>>
    BY DEF disk
<1>2. ASSUME NEW d \in Clients, d # c
      PROVE  section'[d] = section[d] /\ ~ IsWriting(d)'
    <2>1. section'[d] = section[d]
        BY <1>2 DEF StoreSafe, TypeOK
    <2>2. ~ IsWriting(d)
        BY DEF Free, Holds, IsWriting, Writing
    <2> QED
        BY <2>1, <2>2 DEF IsWriting
<1>3. section'[c] = r
    BY DEF StoreSafe, TypeOK
<1>4. ASSUME NEW w \in Workspaces PROVE Agree(w)'
    <2>1. Agree(w)
        BY FreeMeansAgree
    <2> QED
        BY <1>1, <2>1 DEF Agree, Lists
<1>5. ASSUME NEW d \in Clients PROVE Ready(d)' /\ Reserved(d)'
    <2>1. CASE d = c
        BY <2>1
    <2>2. CASE d # c
        <3>1. Ready(d)'
            BY <1>2, <2>2 DEF Ready
        <3>2. Reserved(d)
            BY DEF FilesSafe
        <3>3. ASSUME section[d] # Idle, section[d].op = "put"
              PROVE  Reserved(d)'
            <4>1. ASSUME NEW e \in Clients \ {d}, section'[e] # Idle
                  PROVE  section'[e].manifest # section'[d].manifest
                <5>1. CASE e = c
                    BY <1>2, <1>3, <2>2, <3>3, <4>1, <5>1
                <5>2. CASE e # c
                    BY <1>2, <2>2, <3>2, <3>3, <4>1, <5>2 DEF Reserved
                <5> QED
                    BY <5>1, <5>2
            <4> QED
                BY <1>1, <1>2, <2>2, <3>2, <3>3, <4>1 DEF Reserved
        <3>4. ASSUME ~ (section[d] # Idle /\ section[d].op = "put")
              PROVE  Reserved(d)'
            <4>1. section'[d] = section[d]
                BY <1>2, <2>2
            <4> QED
                BY <3>4, <4>1 DEF Reserved
        <3> QED
            BY <3>1, <3>3, <3>4
    <2> QED
        BY <2>1, <2>2
<1>6. BodiesAreImports'
    BY <1>1 DEF FilesSafe, BodiesAreImports
<1> QED
    BY <1>4, <1>5, <1>6 DEF FilesSafe

(* The id of an ingestion in progress is the id of a manifest. *)
LEMMA ReservedIsManifest ==
    ASSUME StoreSafe, NEW d \in Clients, section[d] # Idle, section[d].op = "put"
    PROVE  section[d].manifest \in Manifests /\ section[d].manifest # Absent
BY DEF StoreSafe, TypeOK, Coherent, Sections

(* The id of a manifest that a client may name is not reserved. *)
LEMMA KnownIdIsNotReserved ==
    ASSUME StoreSafe, FilesSafe, Free, NEW m \in Manifests,
           \/ \E i \in Imports : i.manifest = m
           \/ \E w \in Workspaces : bodies[w][m] # Absent
           \/ \E w \in Workspaces : Lists(w, m),
           NEW d \in Clients, section[d] # Idle, section[d].op = "put"
    PROVE  m # section[d].manifest
<1>1. Reserved(d)
    BY DEF FilesSafe
<1>2. ASSUME NEW w \in Workspaces, Lists(w, m) PROVE bodies[w][m] # Absent
    BY <1>2, FreeMeansAgree DEF Agree, Lists
<1> QED
    BY <1>1, <1>2 DEF Reserved

(* Creating a workspace. *)
LEMMA CreateWorkspaceAgrees ==
    ASSUME StoreSafe, FilesSafe, NEW c \in Clients, NEW w \in Workspaces, CreateWorkspace(c, w)
    PROVE  FilesSafe'
<1> DEFINE r == [Request("create", "index", w) EXCEPT
                   !.record = [status |-> "active", count |-> 0]]
<1>1. /\ r \in Sections
      /\ r.op = "create" /\ r.at = "index" /\ r.ws = w /\ r.index = EmptyIndex
      /\ r.manifest = Absent /\ r.record.count = 0
    BY CreatingFacts, ZenonT(30)
<1>2. /\ section' = [section EXCEPT ![c] = r] /\ Free
      /\ UNCHANGED <<known, disk, answers, faults>>
    BY DEF CreateWorkspace
<1> HIDE DEF r
<1>3. section'[c] = r
    BY <1>2 DEF StoreSafe, TypeOK
<1>4. Cardinality({}) = 0
    BY FS_EmptySet
<1>5. Ready(c)'
    BY <1>1, <1>3, <1>4 DEF Ready, EmptyIndex
<1>6. Reserved(c)'
    BY <1>1, <1>3 DEF Reserved
<1> QED
    BY <1>1, <1>2, <1>5, <1>6, ReservedIsManifest, TakesUpAgreeing

(* Archiving or reactivating one. *)
LEMMA UpdateWorkspaceAgrees ==
    ASSUME StoreSafe, FilesSafe, NEW c \in Clients, NEW w \in Workspaces,
           NEW status \in {"active", "archived"}, UpdateWorkspace(c, w, status)
    PROVE  FilesSafe'
<1> DEFINE r == Request("update", "top", w)
<1>1. r \in Sections /\ r.op = "update" /\ r.at = "top" /\ r.manifest = Absent
    <2>1. r.manifest = Absent
        BY DEF Request
    <2> QED
        BY <2>1, RequestIsSection DEF Stages
<1>2. /\ section' = [section EXCEPT ![c] = r] /\ Free /\ known[w] # Absent
      /\ known' = [known EXCEPT ![w].status = status]
      /\ UNCHANGED disk
    BY DEF UpdateWorkspace
<1> HIDE DEF r
<1>3. section'[c] = r
    BY <1>2 DEF StoreSafe, TypeOK
<1>4. ASSUME NEW v \in Workspaces, known'[v] # Absent
      PROVE  known[v] # Absent /\ known'[v].count = known[v].count
    <2>1. CASE v = w
        <3>1. known[w] \in Records
            BY <1>2 DEF StoreSafe, TypeOK
        <3>2. known'[w] = [known[w] EXCEPT !.status = status]
            BY <1>2 DEF StoreSafe, TypeOK
        <3> QED
            BY <1>2, <2>1, <3>1, <3>2 DEF Records
    <2>2. CASE v # w
        BY <1>2, <1>4, <2>2 DEF StoreSafe, TypeOK
    <2> QED
        BY <2>1, <2>2
<1>5. Ready(c)' /\ Reserved(c)'
    BY <1>1, <1>3 DEF Ready, Reserved, IsWriting, Writing
<1> QED
    BY <1>1, <1>2, <1>4, <1>5, ReservedIsManifest, TakesUpAgreeing

(* Deleting one. *)
LEMMA DeleteWorkspaceAgrees ==
    ASSUME StoreSafe, FilesSafe, NEW c \in Clients, NEW w \in Workspaces, DeleteWorkspace(c, w)
    PROVE  FilesSafe'
<1> DEFINE r == Request("delete", "rmdir", w)
<1>1. r \in Sections /\ r.op = "delete" /\ r.at = "rmdir" /\ r.manifest = Absent
    <2>1. r.manifest = Absent
        BY DEF Request
    <2> QED
        BY <2>1, RequestIsSection DEF Stages
<1>2. /\ section' = [section EXCEPT ![c] = r] /\ Free
      /\ UNCHANGED <<known, disk, faults>>
    BY DEF DeleteWorkspace
<1> HIDE DEF r
<1>3. section'[c] = r
    BY <1>2 DEF StoreSafe, TypeOK
<1>4. Ready(c)' /\ Reserved(c)'
    BY <1>1, <1>3 DEF Ready, Reserved, IsWriting, Writing
<1> QED
    BY <1>1, <1>2, <1>4, ReservedIsManifest, TakesUpAgreeing

(* A cross-reference adds the manifest to the slot of its schedule only. *)
LEMMA CrossReferencedFacts ==
    ASSUME NEW slots \in [Schedules -> (SUBSET Manifests) \cup {Absent}],
           NEW m, NEW s, NEW q \in Schedules,
           CrossReferenced(slots, m, s)[q] # Absent
    PROVE  /\ slots[q] # Absent
           /\ \A n \in CrossReferenced(slots, m, s)[q] : n \in slots[q] \/ (n = m /\ q = s)
<1>1. CASE s \in Schedules /\ slots[s] # Absent
    <2>1. CrossReferenced(slots, m, s) = [slots EXCEPT ![s] = slots[s] \cup {m}]
        BY <1>1 DEF CrossReferenced
    <2> QED
        BY <1>1, <2>1
<1>2. CASE ~ (s \in Schedules /\ slots[s] # Absent)
    BY <1>2 DEF CrossReferenced
<1> QED
    BY <1>1, <1>2

(* Listing manifest m, whose body is s or is yet to be written. *)
LEMMA AddingAgrees ==
    ASSUME StoreSafe, FilesSafe, Free, NEW c \in Clients, NEW w \in Workspaces,
           NEW m \in Manifests, NEW s \in Schedules \cup {Unlinked}, NEW k \in Keys \cup Manifests,
           known[w] # Absent, bodies[w][m] \in {Absent, s},
           bodies[w][m] = Absent => \A i \in Imports : i.manifest = m => i.schedule = s,
           \A d \in Clients \ {c} :
              section[d] # Idle /\ section[d].op = "put" => m # section[d].manifest,
           section' = [section EXCEPT ![c] = Adding(w, m, s, k)],
           UNCHANGED <<known, disk, answers, faults>>
    PROVE  FilesSafe'
<1>0. PICK r : r = Adding(w, m, s, k)
    OBVIOUS
<1>1. /\ r \in Sections /\ r.op = "add" /\ r.ws = w /\ r.manifest = m /\ r.schedule = s
      /\ r.at = (IF bodies[w][m] = Absent THEN "body" ELSE "index")
      /\ r.index.entries = index[w].entries \cup {[key |-> k, manifest |-> m]}
      /\ r.index.slots = CrossReferenced(index[w].slots, m, s)
      /\ r.record.count = Cardinality(r.index.entries)
    BY <1>0, AddingFacts DEF StoreSafe
<1>2. section'[c] = r /\ section' = [section EXCEPT ![c] = r]
    BY <1>0 DEF StoreSafe, TypeOK
<1>3. UNCHANGED <<known, index, bodies, files>> /\ UNCHANGED disk
    BY DEF disk
<1>4. Agree(w)
    BY FreeMeansAgree
<1>5. index[w].slots \in [Schedules -> (SUBSET Manifests) \cup {Absent}]
    BY DEF StoreSafe, TypeOK, Indexes
<1>6. s # Absent
    BY StoreConstants
<1>7. ASSUME NEW n
      PROVE  BodyAfter(r, n)' = IF n = m THEN s ELSE bodies[w][n]
    BY <1>1, <1>3, <1>6 DEF BodyAfter
<1>8. ASSUME NEW e \in r.index.entries PROVE BodyAfter(r, e.manifest)' # Absent
    <2>1. CASE e \in index[w].entries
        BY <1>4, <1>6, <1>7, <2>1 DEF Agree
    <2>2. CASE e = [key |-> k, manifest |-> m]
        BY <1>6, <1>7, <2>2
    <2> QED
        BY <1>1, <2>1, <2>2
<1>9. ASSUME NEW q \in Schedules, r.index.slots[q] # Absent
      PROVE  /\ HasFileAfter(r, q)'
             /\ \A n \in r.index.slots[q] :
                   Names(r.index.entries, n) /\ BodyAfter(r, n)' = q
    <2>1. /\ index[w].slots[q] # Absent
          /\ \A n \in r.index.slots[q] : n \in index[w].slots[q] \/ (n = m /\ q = s)
        BY <1>1, <1>5, <1>9, CrossReferencedFacts
    <2>2. HasFileAfter(r, q)'
        BY <1>1, <1>3, <1>4, <2>1 DEF HasFileAfter, Agree
    <2>3. ASSUME NEW n \in r.index.slots[q]
          PROVE  Names(r.index.entries, n) /\ BodyAfter(r, n)' = q
        <3>1. CASE n \in index[w].slots[q]
            <4>1. Lists(w, n) /\ bodies[w][n] = q
                BY <1>4, <2>1, <3>1 DEF Agree
            <4>2. Names(r.index.entries, n)
                BY <1>1, <4>1 DEF Lists, Names
            <4>3. n = m => q = s
                BY <4>1, StoreConstants
            <4> QED
                BY <1>7, <4>1, <4>2, <4>3
        <3>2. CASE n = m /\ q = s
            <4>1. [key |-> k, manifest |-> m] \in r.index.entries
                BY <1>1
            <4> QED
                BY <1>7, <3>2, <4>1 DEF Names
        <3> QED
            BY <2>1, <3>1, <3>2
    <2> QED
        BY <2>2, <2>3
<1>10. Ready(c)'
    BY <1>1, <1>2, <1>8, <1>9, ZenonT(30) DEF Ready
<1>11. Reserved(c)'
    BY <1>1, <1>2 DEF Reserved
<1>12. \A d \in Clients \ {c} :
          section[d] # Idle /\ section[d].op = "put" =>
             (r # Idle => r.manifest # section[d].manifest)
    BY <1>1
<1>13. \A v \in Workspaces : known'[v] # Absent =>
          known[v] # Absent /\ known'[v].count = known[v].count
    BY <1>3
<1>14. r \in Sections \cup {Idle} /\ UNCHANGED disk
    BY <1>1, <1>3
<1> QED
    BY <1>2, <1>10, <1>11, <1>12, <1>13, <1>14, TakesUpAgreeing

(* A posted manifest: its body, if the store has it, is what it references.*)
LEMMA ImportManifestAgrees ==
    ASSUME StoreSafe, FilesSafe, OneManifestPerId, NEW c \in Clients, NEW w \in Workspaces,
           NEW i \in Posts(w), NEW k \in Keys \cup {i.manifest}, ImportManifest(c, w, i, k)
    PROVE  FilesSafe'
<1>1. i.manifest \in Manifests /\ i.schedule \in Schedules \cup {Unlinked}
    BY StoreConstants DEF Posts, StoreSafe, TypeOK
<1>2. /\ Free /\ known[w] # Absent
      /\ section' = [section EXCEPT ![c] = Adding(w, i.manifest, i.schedule, k)]
      /\ UNCHANGED <<known, disk, answers, faults>>
    BY DEF ImportManifest
<1>3. i \in Imports \/ (bodies[w][i.manifest] = i.schedule /\ i.schedule # Absent)
    BY DEF Posts
<1>4. bodies[w][i.manifest] \in {Absent, i.schedule}
    BY <1>3 DEF FilesSafe, BodiesAreImports
<1>5. bodies[w][i.manifest] = Absent =>
         \A j \in Imports : j.manifest = i.manifest => j.schedule = i.schedule
    BY <1>3 DEF OneManifestPerId
<1>6. \A d \in Clients \ {c} :
         section[d] # Idle /\ section[d].op = "put" => i.manifest # section[d].manifest
    BY <1>1, <1>2, <1>3, KnownIdIsNotReserved
<1>7. k \in Keys \cup Manifests
    BY <1>1
<1> QED
    BY <1>1, <1>2, <1>4, <1>5, <1>6, <1>7, AddingAgrees

(* The first half of an ingestion reserves its id. *)
LEMMA IngestScheduleAgrees ==
    ASSUME StoreSafe, FilesSafe, NEW c \in Clients, NEW w \in Workspaces, NEW m \in Manifests,
           NEW s \in Schedules, NEW k \in Keys \cup {m}, IngestSchedule(c, w, m, s, k)
    PROVE  FilesSafe'
<1>0. PICK r : r = Putting(w, m, s, k)
    OBVIOUS
<1>1. /\ r \in Sections /\ r.op = "put" /\ r.at \in {"stored", "file"} /\ r.ws = w
      /\ r.manifest = m /\ r.schedule = s
      /\ r.index.entries = index[w].entries
      /\ r.index.slots[s] = {}
      /\ \A q \in Schedules \ {s} : r.index.slots[q] = index[w].slots[q]
    <2>1. k \in Keys \cup Manifests /\ TypeOK
        BY DEF StoreSafe
    <2> QED
        BY <1>0, <2>1, PuttingFacts
<1>2. /\ section' = [section EXCEPT ![c] = r] /\ Free /\ Fresh(m)
      /\ UNCHANGED <<known, disk, answers, faults>>
    BY <1>0 DEF IngestSchedule
<1>3. section'[c] = r
    BY <1>2 DEF StoreSafe, TypeOK
<1>4. UNCHANGED <<known, index, bodies, files>>
    BY <1>2 DEF disk
<1>5. Agree(w)
    BY <1>2, FreeMeansAgree
<1>6. Ready(c)'
    <2>1. CASE r.at = "stored"
        BY <1>3, <2>1 DEF Ready, IsWriting, Writing
    <2>2. CASE r.at = "file"
        <3>1. ASSUME NEW n PROVE BodyAfter(r, n)' = bodies[w][n]
            BY <1>1, <1>4, <2>2 DEF BodyAfter
        <3>2. ASSUME NEW e \in r.index.entries PROVE BodyAfter(r, e.manifest)' # Absent
            BY <1>1, <1>5, <3>1 DEF Agree
        <3>3. ASSUME NEW q \in Schedules, r.index.slots[q] # Absent
              PROVE  /\ HasFileAfter(r, q)'
                     /\ \A n \in r.index.slots[q] :
                           Names(r.index.entries, n) /\ BodyAfter(r, n)' = q
            <4>1. CASE q = s
                BY <1>1, <2>2, <4>1 DEF HasFileAfter
            <4>2. CASE q # s
                BY <1>1, <1>4, <1>5, <3>1, <3>3, <4>2 DEF HasFileAfter, Agree, Lists, Names
            <4> QED
                BY <4>1, <4>2
        <3>4. known[w] # Absent => known[w].count = Cardinality(r.index.entries)
            BY <1>1, <1>5 DEF Agree
        <3> QED
            BY <1>1, <1>3, <1>4, <2>2, <3>2, <3>3, <3>4 DEF Ready
    <2> QED
        BY <1>1, <2>1, <2>2
<1>7. ASSUME NEW d \in Clients, d # c, section[d] # Idle PROVE section[d].manifest # m
    BY <1>2, <1>7 DEF Fresh
<1>8. Reserved(c)'
    <2>1. ASSUME NEW d \in Clients \ {c} PROVE section'[d] = section[d]
        BY <1>2, <2>1 DEF StoreSafe, TypeOK
    <2> QED
        BY <1>1, <1>2, <1>3, <1>4, <1>7, <2>1 DEF Reserved, Fresh
<1> QED
    BY <1>1, <1>2, <1>4, <1>6, <1>7, <1>8, TakesUpAgreeing, ZenonT(30)

(* The second half lists a manifest that has no body yet. *)
LEMMA RegisterIngestedAgrees ==
    ASSUME StoreSafe, FilesSafe, NEW c \in Clients, RegisterIngested(c)
    PROVE  FilesSafe'
<1> DEFINE r == section[c]
<1>1. r.at = "stored" /\ Free /\ UNCHANGED <<known, disk, acked, faults>>
    BY DEF RegisterIngested, Holding
<1>2. r \in Sections /\ Coherent(r) /\ r # Idle
    BY <1>1, RequestFacts, RequestIsNotIdle DEF StoreSafe, TypeOK, SectionsOK
<1>3. /\ r.op = "put" /\ r.ws \in Workspaces
      /\ r.manifest \in Manifests /\ r.schedule \in Schedules /\ r.key \in Keys \cup Manifests
    BY <1>1, <1>2 DEF Coherent, Sections
<1>4. Reserved(c)
    BY DEF FilesSafe
<1>5. CASE known[r.ws] = Absent \/ HasKey(r.ws, r.key)
    <2>1. section' = [section EXCEPT ![c] = Idle]
        BY <1>5 DEF RegisterIngested, Done
    <2>2. section'[c] = Idle
        BY <2>1 DEF StoreSafe, TypeOK
    <2>3. Ready(c)' /\ Reserved(c)'
        BY <2>2 DEF Ready, Reserved, IsWriting, Writing, Idle
    <2> QED
        BY <1>1, <2>1, <2>3, TakesUpAgreeing
<1>6. CASE ~ (known[r.ws] = Absent \/ HasKey(r.ws, r.key))
    <2>1. /\ section' = [section EXCEPT ![c] = Adding(r.ws, r.manifest, r.schedule, r.key)]
          /\ UNCHANGED <<known, disk, answers, faults>>
        BY <1>1, <1>6 DEF RegisterIngested
    <2>2. bodies[r.ws][r.manifest] = Absent
        BY <1>2, <1>3, <1>4 DEF Reserved
    <2>3. \A i \in Imports : i.manifest # r.manifest
        BY <1>2, <1>3, <1>4 DEF Reserved
    <2>4. \A d \in Clients \ {c} :
             section[d] # Idle /\ section[d].op = "put" => r.manifest # section[d].manifest
        BY <1>2, <1>3, <1>4 DEF Reserved
    <2>5. /\ bodies[r.ws][r.manifest] \in {Absent, r.schedule}
          /\ bodies[r.ws][r.manifest] = Absent =>
                \A i \in Imports : i.manifest = r.manifest => i.schedule = r.schedule
          /\ known[r.ws] # Absent
        BY <1>6, <2>2, <2>3
    <2>6. r.schedule \in Schedules \cup {Unlinked}
        BY <1>3
    <2> HIDE DEF r
    <2> QED
        BY <1>1, <1>3, <2>1, <2>4, <2>5, <2>6, AddingAgrees
<1> QED
    BY <1>5, <1>6

(* Removing a manifest takes it out of the slot of its schedule, or drops  *)
(* that slot.                                                              *)
LEMMA SlotsWithoutFacts ==
    ASSUME StoreSafe, NEW w \in Workspaces, Agree(w), NEW m \in Manifests,
           NEW deletes \in BOOLEAN, NEW q \in Schedules,
           SlotsWithout(w, m, deletes)[q] # Absent
    PROVE  /\ index[w].slots[q] # Absent
           /\ \A n \in SlotsWithout(w, m, deletes)[q] : n \in index[w].slots[q] /\ n # m
<1>0. PICK s, slots : s = bodies[w][m] /\ slots = index[w].slots
    OBVIOUS
<1>1. slots \in [Schedules -> (SUBSET Manifests) \cup {Absent}]
    BY <1>0 DEF StoreSafe, TypeOK, Indexes
<1>2. ASSUME slots[q] # Absent, q # s PROVE m \notin slots[q]
    BY <1>0, <1>2 DEF Agree
<1>3. CASE s \notin Schedules \/ slots[s] = Absent
    <2>1. SlotsWithout(w, m, deletes) = slots /\ (slots[q] # Absent => q # s)
        BY <1>0, <1>3 DEF SlotsWithout
    <2> QED
        BY <1>0, <1>2, <2>1
<1>4. CASE ~ (s \notin Schedules \/ slots[s] = Absent)
    <2>1. SlotsWithout(w, m, deletes) = [slots EXCEPT ![s] =
             IF deletes /\ slots[s] \subseteq {m} THEN Absent ELSE slots[s] \ {m}]
        BY <1>0, <1>4 DEF SlotsWithout
    <2>2. CASE q = s
        BY <1>0, <1>1, <1>4, <2>1, <2>2
    <2>3. CASE q # s
        BY <1>0, <1>1, <1>2, <2>1, <2>3
    <2> QED
        BY <2>2, <2>3
<1> QED
    BY <1>3, <1>4

(* Removing a manifest: the file that goes has lost its slot.              *)
LEMMA RemoveManifestAgrees ==
    ASSUME StoreSafe, FilesSafe, NEW c \in Clients, NEW w \in Workspaces, NEW m \in Manifests,
           NEW deletes \in BOOLEAN, RemoveManifest(c, w, m, deletes)
    PROVE  FilesSafe'
<1> DEFINE slots == SlotsWithout(w, m, deletes)
<1>0. PICK r : r = Removing(w, m, deletes)
    OBVIOUS
<1>1. /\ section' = [section EXCEPT ![c] = r] /\ Free /\ known[w] # Absent /\ Lists(w, m)
      /\ UNCHANGED known /\ UNCHANGED disk
    BY <1>0 DEF RemoveManifest
<1>2. /\ r \in Sections
      /\ r.op = "remove" /\ r.at \in {"unlink", "index"} /\ r.ws = w /\ r.manifest = m
      /\ r.index.entries = {e \in index[w].entries : e.manifest # m}
      /\ r.index.slots = slots
      /\ r.schedule = IF slots # index[w].slots /\ slots[bodies[w][m]] = Absent
                        THEN bodies[w][m] ELSE Absent
      /\ r.record.count = Cardinality(r.index.entries)
    BY <1>0, <1>1, RemovingFacts DEF StoreSafe
<1>3. section'[c] = r
    BY <1>1 DEF StoreSafe, TypeOK
<1>4. UNCHANGED <<known, index, bodies, files>>
    BY <1>1 DEF disk
<1>5. Agree(w)
    BY <1>1, FreeMeansAgree
<1>6. ASSUME NEW n, n # m PROVE BodyAfter(r, n)' = bodies[w][n]
    BY <1>2, <1>4, <1>6 DEF BodyAfter
<1>7. ASSUME NEW e \in r.index.entries PROVE BodyAfter(r, e.manifest)' # Absent
    BY <1>2, <1>5, <1>6 DEF Agree
<1>8. ASSUME NEW q \in Schedules, r.index.slots[q] # Absent
      PROVE  /\ HasFileAfter(r, q)'
             /\ \A n \in r.index.slots[q] :
                   Names(r.index.entries, n) /\ BodyAfter(r, n)' = q
    <2>1. /\ index[w].slots[q] # Absent
          /\ \A n \in r.index.slots[q] : n \in index[w].slots[q] /\ n # m
        BY <1>2, <1>5, <1>8, SlotsWithoutFacts
    <2>2. q # r.schedule
        BY <1>2, <1>8, StoreConstants
    <2>3. HasFileAfter(r, q)'
        BY <1>2, <1>4, <1>5, <2>1, <2>2 DEF HasFileAfter, Agree
    <2>4. ASSUME NEW n \in r.index.slots[q]
          PROVE  Names(r.index.entries, n) /\ BodyAfter(r, n)' = q
        <3>1. Lists(w, n) /\ bodies[w][n] = q /\ n # m
            BY <1>5, <2>1 DEF Agree
        <3> QED
            BY <1>2, <1>6, <3>1 DEF Lists, Names
    <2> QED
        BY <2>3, <2>4
<1>9. Ready(c)'
    BY <1>2, <1>3, <1>7, <1>8 DEF Ready
<1>10. Reserved(c)'
    BY <1>2, <1>3 DEF Reserved
<1>11. \A d \in Clients \ {c} :
          section[d] # Idle /\ section[d].op = "put" =>
             (r # Idle => r.manifest # section[d].manifest)
    BY <1>1, <1>2, KnownIdIsNotReserved
<1>12. \A v \in Workspaces : known'[v] # Absent =>
          known[v] # Absent /\ known'[v].count = known[v].count
    BY <1>4
<1>13. r \in Sections \cup {Idle}
    BY <1>2
<1> QED
    BY <1>1, <1>9, <1>10, <1>11, <1>12, <1>13, TakesUpAgreeing

-----------------------------------------------------------------------------
(* The writes keep the files in agreement *)

(* The holder of the mutex moves on: what it still has to write is ready,  *)
(* or its workspace agrees; the other workspaces are as they were, and a   *)
(* body appears only for the manifest it lists.                            *)
LEMMA MovesOnAgreeing ==
    ASSUME StoreSafe, FilesSafe, NEW c \in Clients, Holds(c),
           section[c] \in Sections, NEW w \in Workspaces, w = section[c].ws,
           NEW r \in Sections \cup {Idle}, section' = [section EXCEPT ![c] = r],
           r # Idle => r.op = section[c].op /\ r.ws = w /\ r.manifest = section[c].manifest,
           \A v \in Workspaces \ {w} :
              /\ known'[v] = known[v] /\ index'[v] = index[v]
              /\ bodies'[v] = bodies[v] /\ files'[v] = files[v],
           \A m \in Manifests : bodies'[w][m] # Absent =>
              bodies[w][m] # Absent \/ (section[c].op = "add" /\ m = section[c].manifest),
           IsWriting(c)' \/ Agree(w)', Ready(c)', BodiesAreImports'
    PROVE  FilesSafe'
<1>1. ASSUME NEW d \in Clients, d # c
      PROVE  section'[d] = section[d] /\ ~ IsWriting(d) /\ ~ IsWriting(d)'
    <2>1. section'[d] = section[d]
        BY <1>1 DEF StoreSafe, TypeOK
    <2>2. section[d].at \in {"idle", "stored"}
        BY <1>1, OthersWait
    <2> QED
        BY <2>1, <2>2 DEF IsWriting, Writing
<1>2. section'[c] = r
    BY DEF StoreSafe, TypeOK
<1>3. ASSUME NEW v \in Workspaces, \A d \in Clients : ~ (IsWriting(d)' /\ section'[d].ws = v)
      PROVE  Agree(v)'
    <2>1. CASE v = w
        <3>1. IsWriting(c)' => section'[c].ws = w
            BY <1>2 DEF IsWriting, Writing, Idle
        <3> QED
            BY <1>3, <2>1, <3>1
    <2>2. CASE v # w
        <3>1. Agree(v)
            BY <1>1, <2>2 DEF FilesSafe
        <3> QED
            BY <2>2, <3>1, SMTT(30) DEF Agree, Lists
    <2> QED
        BY <2>1, <2>2
<1>4. ASSUME NEW d \in Clients PROVE Ready(d)'
    <2>1. CASE d = c
        BY <2>1
    <2>2. CASE d # c
        BY <1>1, <2>2 DEF Ready
    <2> QED
        BY <2>1, <2>2
<1>5. ASSUME NEW d \in Clients, section'[d] # Idle, section'[d].op = "put"
      PROVE  Reserved(d)'
    <2> DEFINE m == section[d].manifest
    <2>1. section[d] # Idle /\ section[d].op = "put" /\ section'[d].manifest = m
        <3>1. section[c] # Idle
            BY RequestIsNotIdle
        <3> QED
            BY <1>1, <1>2, <1>5, <3>1
    <2>2. /\ \A i \in Imports : i.manifest # m
          /\ \A v \in Workspaces : bodies[v][m] = Absent
          /\ \A e \in Clients \ {d} : section[e] # Idle => section[e].manifest # m
        BY <2>1 DEF FilesSafe, Reserved
    <2>3. ASSUME NEW e \in Clients \ {d}, section'[e] # Idle
          PROVE  section'[e].manifest # m
        <3>1. section[e] # Idle /\ section'[e].manifest = section[e].manifest
            BY <1>1, <1>2, <2>3, RequestIsNotIdle
        <3> QED
            BY <2>2, <3>1
    <2>4. ASSUME NEW v \in Workspaces PROVE bodies'[v][m] = Absent
        <3>1. CASE v = w
            <4>1. section[c].op = "add" => section[c].manifest # m
                <5>1. section[c] # Idle
                    BY RequestIsNotIdle
                <5> QED
                    BY <2>1, <2>2, <5>1
            <4>2. m \in Manifests
                BY <2>1, ReservedIsManifest
            <4> QED
                BY <2>2, <3>1, <4>1, <4>2
        <3>2. CASE v # w
            BY <2>2, <3>2
        <3> QED
            BY <3>1, <3>2
    <2> HIDE DEF m
    <2> QED
        BY <2>1, <2>2, <2>3, <2>4 DEF Reserved
<1>6. ASSUME NEW d \in Clients PROVE Reserved(d)'
    BY <1>5 DEF Reserved
<1> QED
    BY <1>3, <1>4, <1>6 DEF FilesSafe

(* A request that only moves on to its next write stays ready, if the      *)
(* bodies and the files come to what they were to come to.                 *)
LEMMA StaysReady ==
    ASSUME NEW c \in Clients, Ready(c), NEW r, NEW q, r = section[c], q = section'[c],
           r.at \in Writing, r.index \in Indexes, UNCHANGED known,
           q.at \in Writing \ {"body"},
           q.op = r.op, q.ws = r.ws, q.index = r.index, q.record = r.record,
           \A m \in Manifests : BodyAfter(q, m)' = BodyAfter(r, m),
           \A s \in Schedules : HasFileAfter(q, s)' <=> HasFileAfter(r, s)
    PROVE  Ready(c)'
<1>1. /\ \A e \in r.index.entries : e.manifest \in Manifests
      /\ \A s \in Schedules : r.index.slots[s] # Absent => r.index.slots[s] \subseteq Manifests
    BY DEF Indexes, Entries
<1>2. \A e \in q.index.entries : BodyAfter(q, e.manifest)' # Absent
    BY <1>1 DEF Ready, IsWriting
<1>3. \A s \in Schedules : q.index.slots[s] # Absent =>
         /\ HasFileAfter(q, s)'
         /\ \A m \in q.index.slots[s] : Names(q.index.entries, m) /\ BodyAfter(q, m)' = s
    BY <1>1 DEF Ready, IsWriting
<1>4. IF q.op = "put"
        THEN known'[q.ws] # Absent => known'[q.ws].count = Cardinality(q.index.entries)
        ELSE q.record.count = Cardinality(q.index.entries)
    BY DEF Ready, IsWriting
<1> QED
    BY <1>2, <1>3, <1>4 DEF Ready, IsWriting, Writing

(* What a request is to write is a manifest of one of the workspaces. *)
LEMMA HolderFacts ==
    ASSUME StoreSafe, NEW c \in Clients, section[c].at # "idle"
    PROVE  /\ section[c] \in Sections /\ Coherent(section[c]) /\ section[c] # Idle
           /\ section[c].ws \in Workspaces
           /\ section[c].manifest \in Manifests \cup {Absent}
           /\ section[c].schedule \in Schedules \cup {Unlinked, Absent}
<1>1. section[c] \in Sections /\ Coherent(section[c])
    BY RequestFacts DEF StoreSafe, TypeOK, SectionsOK
<1> QED
    BY <1>1, RequestIsNotIdle DEF Sections

(* The body that is written is the one the index will list. *)
LEMMA WriteBodyAgrees ==
    ASSUME StoreSafe, FilesSafe, NEW c \in Clients, WriteBody(c)
    PROVE  FilesSafe'
<1>0. PICK r : r = section[c]
    OBVIOUS
<1>1. /\ r.at = "body" /\ Goto(c, "index")
      /\ bodies' = [bodies EXCEPT ![r.ws][r.manifest] = r.schedule]
      /\ UNCHANGED <<known, top, index, files, answers, faults>>
    BY <1>0 DEF WriteBody, Holding
<1>2. r \in Sections /\ Coherent(r) /\ Holds(c) /\ r.ws \in Workspaces
    BY <1>0, <1>1, HolderFacts DEF Holds
<1>3. r.op = "add" /\ r.manifest \in Manifests /\ r.schedule \in Schedules \cup {Unlinked}
    BY <1>1, <1>2 DEF Coherent, Sections
<1>4. Coherent([r EXCEPT !.at = "index"])
    BY <1>2, <1>3 DEF Coherent, Sections
<1>5. /\ section' = [section EXCEPT ![c] = section'[c]] /\ section'[c] \in Sections
      /\ section'[c].at = "index" /\ section'[c].op = r.op /\ section'[c].ws = r.ws
      /\ section'[c].manifest = r.manifest /\ section'[c].schedule = r.schedule
      /\ section'[c].index = r.index /\ section'[c].record = r.record
    BY <1>0, <1>1, <1>2, <1>4, NextStage DEF Stages
<1>6. /\ bodies'[r.ws][r.manifest] = r.schedule
      /\ \A v \in Workspaces, m \in Manifests :
            (v # r.ws \/ m # r.manifest) => bodies'[v][m] = bodies[v][m]
      /\ \A v \in Workspaces \ {r.ws} : bodies'[v] = bodies[v]
    BY <1>1, <1>2, <1>3 DEF StoreSafe, TypeOK
<1>7. Ready(c) /\ r.index \in Indexes
    BY <1>2 DEF FilesSafe, Sections
<1>8. PICK q : q = section'[c]
    OBVIOUS
<1>9. ASSUME NEW m \in Manifests PROVE BodyAfter(q, m)' = BodyAfter(r, m)
    BY <1>1, <1>2, <1>5, <1>6, <1>8 DEF BodyAfter
<1>10. ASSUME NEW s \in Schedules PROVE HasFileAfter(q, s)' <=> HasFileAfter(r, s)
    BY <1>1, <1>5, <1>8 DEF HasFileAfter
<1>11. Ready(c)'
    BY <1>0, <1>1, <1>5, <1>7, <1>8, <1>9, <1>10, StaysReady DEF Writing
<1>12. BodiesAreImports'
    <2>1. ASSUME NEW v \in Workspaces, NEW i \in Imports
          PROVE  bodies'[v][i.manifest] \in {Absent, i.schedule}
        <3>1. i.manifest = r.manifest => i.schedule = r.schedule
            BY <1>0, <1>1, <1>7 DEF Ready, IsWriting, Writing
        <3>2. bodies[v][i.manifest] \in {Absent, i.schedule} /\ i.manifest \in Manifests
            BY StoreConstants DEF FilesSafe, BodiesAreImports
        <3> QED
            BY <1>6, <3>1, <3>2
    <2> QED
        BY <2>1 DEF BodiesAreImports
<1>13. IsWriting(c)'
    BY <1>5 DEF IsWriting, Writing
<1>14. /\ section'[c] \in Sections \cup {Idle}
       /\ \A v \in Workspaces \ {r.ws} :
             /\ known'[v] = known[v] /\ index'[v] = index[v]
             /\ bodies'[v] = bodies[v] /\ files'[v] = files[v]
       /\ \A m \in Manifests : bodies'[r.ws][m] # Absent =>
             bodies[r.ws][m] # Absent \/ (section[c].op = "add" /\ m = section[c].manifest)
    BY <1>0, <1>1, <1>2, <1>3, <1>5, <1>6
<1> QED
    BY <1>0, <1>2, <1>5, <1>11, <1>12, <1>13, <1>14, MovesOnAgreeing

(* Where only files change, the bodies stay those of the imports. *)
LEMMA BodiesStayImports ==
    ASSUME FilesSafe, UNCHANGED bodies
    PROVE  BodiesAreImports'
BY DEF FilesSafe, BodiesAreImports

(* The file that is written is the one the index will have a slot for. *)
LEMMA WriteFileAgrees ==
    ASSUME StoreSafe, FilesSafe, NEW c \in Clients, WriteFile(c)
    PROVE  FilesSafe'
<1>0. PICK r : r = section[c]
    OBVIOUS
<1>1. /\ r.at = "file" /\ Goto(c, "index")
      /\ files' = [files EXCEPT ![r.ws] = @ \cup {r.schedule}]
      /\ UNCHANGED <<known, top, index, bodies, answers, faults>>
    BY <1>0 DEF WriteFile, Holding
<1>2. r \in Sections /\ Coherent(r) /\ Holds(c) /\ r.ws \in Workspaces
    BY <1>0, <1>1, HolderFacts DEF Holds
<1>3. r.op = "put" /\ r.schedule \in Schedules
    BY <1>1, <1>2 DEF Coherent, Sections
<1>4. Coherent([r EXCEPT !.at = "index"])
    BY <1>2, <1>3 DEF Coherent, Sections
<1>5. /\ section' = [section EXCEPT ![c] = section'[c]] /\ section'[c] \in Sections
      /\ section'[c].at = "index" /\ section'[c].op = r.op /\ section'[c].ws = r.ws
      /\ section'[c].manifest = r.manifest /\ section'[c].schedule = r.schedule
      /\ section'[c].index = r.index /\ section'[c].record = r.record
    BY <1>0, <1>1, <1>2, <1>4, NextStage DEF Stages
<1>6. /\ files'[r.ws] = files[r.ws] \cup {r.schedule}
      /\ \A v \in Workspaces \ {r.ws} : files'[v] = files[v]
    BY <1>1, <1>2 DEF StoreSafe, TypeOK
<1>7. Ready(c) /\ r.index \in Indexes
    BY <1>2 DEF FilesSafe, Sections
<1>8. PICK q : q = section'[c]
    OBVIOUS
<1>9. ASSUME NEW m \in Manifests PROVE BodyAfter(q, m)' = BodyAfter(r, m)
    BY <1>1, <1>5, <1>8 DEF BodyAfter
<1>10. ASSUME NEW s \in Schedules PROVE HasFileAfter(q, s)' <=> HasFileAfter(r, s)
    BY <1>1, <1>5, <1>6, <1>8 DEF HasFileAfter
<1>11. Ready(c)'
    BY <1>0, <1>1, <1>5, <1>7, <1>8, <1>9, <1>10, StaysReady DEF Writing
<1>12. IsWriting(c)'
    BY <1>5 DEF IsWriting, Writing
<1>13. /\ section'[c] \in Sections \cup {Idle}
       /\ \A v \in Workspaces \ {r.ws} :
             /\ known'[v] = known[v] /\ index'[v] = index[v]
             /\ bodies'[v] = bodies[v] /\ files'[v] = files[v]
       /\ \A m \in Manifests : bodies'[r.ws][m] # Absent =>
             bodies[r.ws][m] # Absent \/ (section[c].op = "add" /\ m = section[c].manifest)
    BY <1>1, <1>5, <1>6
<1> QED
    BY <1>0, <1>1, <1>2, <1>5, <1>11, <1>12, <1>13, BodiesStayImports, MovesOnAgreeing

(* The body that goes is no longer listed. *)
LEMMA UnlinkBodyAgrees ==
    ASSUME StoreSafe, FilesSafe, NEW c \in Clients, UnlinkBody(c)
    PROVE  FilesSafe'
<1>0. PICK r : r = section[c]
    OBVIOUS
<1>1. PICK at : at = IF r.schedule = Absent THEN "index" ELSE "collect"
    OBVIOUS
<1>2. /\ r.at = "unlink" /\ Goto(c, at)
      /\ bodies' = [bodies EXCEPT ![r.ws][r.manifest] = Absent]
      /\ UNCHANGED <<known, top, index, files, answers, faults>>
    BY <1>0, <1>1 DEF UnlinkBody, Holding
<1>3. r \in Sections /\ Coherent(r) /\ Holds(c) /\ r.ws \in Workspaces
    BY <1>0, <1>2, HolderFacts DEF Holds
<1>4. r.op = "remove" /\ r.manifest \in Manifests /\ r.schedule \in Schedules \cup {Absent}
    BY <1>2, <1>3 DEF Coherent, Sections
<1>5. Coherent([r EXCEPT !.at = at])
    BY <1>1, <1>2, <1>3, <1>4 DEF Coherent, Sections
<1>6. /\ section' = [section EXCEPT ![c] = section'[c]] /\ section'[c] \in Sections
      /\ section'[c].at = at /\ section'[c].op = r.op /\ section'[c].ws = r.ws
      /\ section'[c].manifest = r.manifest /\ section'[c].schedule = r.schedule
      /\ section'[c].index = r.index /\ section'[c].record = r.record
    BY <1>0, <1>1, <1>2, <1>3, <1>5, NextStage DEF Stages
<1>7. /\ bodies'[r.ws][r.manifest] = Absent
      /\ \A v \in Workspaces, m \in Manifests :
            (v # r.ws \/ m # r.manifest) => bodies'[v][m] = bodies[v][m]
      /\ \A v \in Workspaces \ {r.ws} : bodies'[v] = bodies[v]
    BY <1>2, <1>3, <1>4 DEF StoreSafe, TypeOK
<1>8. Ready(c) /\ r.index \in Indexes
    BY <1>3 DEF FilesSafe, Sections
<1>9. PICK q : q = section'[c]
    OBVIOUS
<1>10. ASSUME NEW m \in Manifests PROVE BodyAfter(q, m)' = BodyAfter(r, m)
    BY <1>1, <1>2, <1>3, <1>6, <1>7, <1>9 DEF BodyAfter
<1>11. ASSUME NEW s \in Schedules PROVE HasFileAfter(q, s)' <=> HasFileAfter(r, s)
    BY <1>1, <1>2, <1>6, <1>9, StoreConstants DEF HasFileAfter
<1>12. Ready(c)'
    BY <1>0, <1>1, <1>2, <1>6, <1>8, <1>9, <1>10, <1>11, StaysReady DEF Writing
<1>13. BodiesAreImports'
    <2>1. ASSUME NEW v \in Workspaces, NEW i \in Imports
          PROVE  bodies'[v][i.manifest] \in {Absent, i.schedule}
        <3>1. bodies[v][i.manifest] \in {Absent, i.schedule} /\ i.manifest \in Manifests
            BY StoreConstants DEF FilesSafe, BodiesAreImports
        <3> QED
            BY <1>7, <3>1
    <2> QED
        BY <2>1 DEF BodiesAreImports
<1>14. IsWriting(c)'
    BY <1>1, <1>6 DEF IsWriting, Writing
<1>15. /\ section'[c] \in Sections \cup {Idle}
       /\ \A v \in Workspaces \ {r.ws} :
             /\ known'[v] = known[v] /\ index'[v] = index[v]
             /\ bodies'[v] = bodies[v] /\ files'[v] = files[v]
       /\ \A m \in Manifests : bodies'[r.ws][m] # Absent =>
             bodies[r.ws][m] # Absent \/ (section[c].op = "add" /\ m = section[c].manifest)
    BY <1>2, <1>3, <1>6, <1>7
<1> QED
    BY <1>0, <1>3, <1>6, <1>12, <1>13, <1>14, <1>15, MovesOnAgreeing

(* The file that is collected has lost its slot. *)
LEMMA CollectAgrees ==
    ASSUME StoreSafe, FilesSafe, NEW c \in Clients, Collect(c)
    PROVE  FilesSafe'
<1>0. PICK r : r = section[c]
    OBVIOUS
<1>1. /\ r.at = "collect" /\ Goto(c, "index")
      /\ files' = [files EXCEPT ![r.ws] = @ \ {r.schedule}]
      /\ UNCHANGED <<known, top, index, bodies, answers, faults>>
    BY <1>0 DEF Collect, Holding
<1>2. r \in Sections /\ Coherent(r) /\ Holds(c) /\ r.ws \in Workspaces
    BY <1>0, <1>1, HolderFacts DEF Holds
<1>3. r.op = "remove"
    BY <1>1, <1>2 DEF Coherent
<1>4. Coherent([r EXCEPT !.at = "index"])
    BY <1>1, <1>2, <1>3 DEF Coherent, Sections
<1>5. /\ section' = [section EXCEPT ![c] = section'[c]] /\ section'[c] \in Sections
      /\ section'[c].at = "index" /\ section'[c].op = r.op /\ section'[c].ws = r.ws
      /\ section'[c].manifest = r.manifest /\ section'[c].schedule = r.schedule
      /\ section'[c].index = r.index /\ section'[c].record = r.record
    BY <1>0, <1>1, <1>2, <1>4, NextStage DEF Stages
<1>6. /\ files'[r.ws] = files[r.ws] \ {r.schedule}
      /\ \A v \in Workspaces \ {r.ws} : files'[v] = files[v]
    BY <1>1, <1>2 DEF StoreSafe, TypeOK
<1>7. Ready(c) /\ r.index \in Indexes
    BY <1>2 DEF FilesSafe, Sections
<1>8. PICK q : q = section'[c]
    OBVIOUS
<1>9. ASSUME NEW m \in Manifests PROVE BodyAfter(q, m)' = BodyAfter(r, m)
    BY <1>1, <1>5, <1>8 DEF BodyAfter
<1>10. ASSUME NEW s \in Schedules PROVE HasFileAfter(q, s)' <=> HasFileAfter(r, s)
    BY <1>1, <1>5, <1>6, <1>8 DEF HasFileAfter
<1>11. Ready(c)'
    BY <1>0, <1>1, <1>5, <1>7, <1>8, <1>9, <1>10, StaysReady DEF Writing
<1>12. IsWriting(c)'
    BY <1>5 DEF IsWriting, Writing
<1>13. /\ section'[c] \in Sections \cup {Idle}
       /\ \A v \in Workspaces \ {r.ws} :
             /\ known'[v] = known[v] /\ index'[v] = index[v]
             /\ bodies'[v] = bodies[v] /\ files'[v] = files[v]
       /\ \A m \in Manifests : bodies'[r.ws][m] # Absent =>
             bodies[r.ws][m] # Absent \/ (section[c].op = "add" /\ m = section[c].manifest)
    BY <1>1, <1>5, <1>6
<1> QED
    BY <1>0, <1>1, <1>2, <1>5, <1>11, <1>12, <1>13, BodiesStayImports, MovesOnAgreeing

(* Writing the index completes what was made ready. *)
LEMMA WriteIndexAgrees ==
    ASSUME StoreSafe, FilesSafe, NEW c \in Clients, WriteIndex(c)
    PROVE  FilesSafe'
<1>0. PICK r : r = section[c]
    OBVIOUS
<1>1. PICK at : at = IF r.op = "put" THEN "stored" ELSE "top"
    OBVIOUS
<1>2. /\ r.at = "index" /\ Goto(c, at)
      /\ index' = [index EXCEPT ![r.ws] = r.index]
      /\ r.op = "put" => known' = known
      /\ r.op # "put" => known' = [known EXCEPT ![r.ws] = r.record]
      /\ UNCHANGED <<top, bodies, files, answers, faults>>
    BY <1>0, <1>1 DEF WriteIndex, Holding
<1>3. r \in Sections /\ Coherent(r) /\ Holds(c) /\ r.ws \in Workspaces
    BY <1>0, <1>2, HolderFacts DEF Holds
<1>4. Coherent([r EXCEPT !.at = at])
    BY <1>1, <1>2, <1>3 DEF Coherent, Sections
<1>5. /\ section' = [section EXCEPT ![c] = section'[c]] /\ section'[c] \in Sections
      /\ section'[c].at = at /\ section'[c].op = r.op /\ section'[c].ws = r.ws
      /\ section'[c].manifest = r.manifest
    BY <1>0, <1>1, <1>2, <1>3, <1>4, NextStage DEF Stages
<1>6. /\ index'[r.ws] = r.index
      /\ \A v \in Workspaces \ {r.ws} : index'[v] = index[v] /\ known'[v] = known[v]
      /\ r.op # "put" => known'[r.ws] = r.record
    BY <1>2, <1>3 DEF StoreSafe, TypeOK
<1>7. Ready(c)
    BY DEF FilesSafe
<1>8. /\ \A m : BodyAfter(r, m) = bodies[r.ws][m]
      /\ \A s : HasFileAfter(r, s) <=> s \in files[r.ws]
    BY <1>2 DEF BodyAfter, HasFileAfter
<1>9. /\ \A e \in r.index.entries : bodies[r.ws][e.manifest] # Absent
      /\ \A s \in Schedules : r.index.slots[s] # Absent =>
            /\ s \in files[r.ws]
            /\ \A m \in r.index.slots[s] :
                  Names(r.index.entries, m) /\ bodies[r.ws][m] = s
      /\ IF r.op = "put"
           THEN known[r.ws] # Absent => known[r.ws].count = Cardinality(r.index.entries)
           ELSE r.record.count = Cardinality(r.index.entries)
    BY <1>0, <1>2, <1>7, <1>8 DEF Ready, IsWriting, Writing
<1>10. Agree(r.ws)'
    BY <1>2, <1>6, <1>9 DEF Agree, Names, Lists
<1>11. Ready(c)'
    BY <1>1, <1>5 DEF Ready, IsWriting, Writing
<1>12. /\ section'[c] \in Sections \cup {Idle}
       /\ \A v \in Workspaces \ {r.ws} :
             /\ known'[v] = known[v] /\ index'[v] = index[v]
             /\ bodies'[v] = bodies[v] /\ files'[v] = files[v]
       /\ \A m \in Manifests : bodies'[r.ws][m] # Absent =>
             bodies[r.ws][m] # Absent \/ (section[c].op = "add" /\ m = section[c].manifest)
    BY <1>2, <1>5, <1>6
<1> QED
    BY <1>0, <1>2, <1>3, <1>5, <1>10, <1>11, <1>12, BodiesStayImports, MovesOnAgreeing

(* A deleted workspace has nothing left that could disagree. *)
LEMMA RemoveDirAgrees ==
    ASSUME StoreSafe, FilesSafe, NEW c \in Clients, RemoveDir(c)
    PROVE  FilesSafe'
<1>0. PICK r : r = section[c]
    OBVIOUS
<1>1. /\ r.at = "rmdir" /\ Goto(c, "top")
      /\ index' = [index EXCEPT ![r.ws] = EmptyIndex]
      /\ bodies' = [bodies EXCEPT ![r.ws] = [m \in Manifests |-> Absent]]
      /\ files' = [files EXCEPT ![r.ws] = {}]
      /\ known' = [known EXCEPT ![r.ws] = Absent]
      /\ UNCHANGED <<top, answers, faults>>
    BY <1>0 DEF RemoveDir, Holding
<1>2. r \in Sections /\ Coherent(r) /\ Holds(c) /\ r.ws \in Workspaces
    BY <1>0, <1>1, HolderFacts DEF Holds
<1>3. r.op = "delete"
    BY <1>1, <1>2 DEF Coherent
<1>4. Coherent([r EXCEPT !.at = "top"])
    BY <1>2, <1>3 DEF Coherent, Sections
<1>5. /\ section' = [section EXCEPT ![c] = section'[c]] /\ section'[c] \in Sections
      /\ section'[c].at = "top" /\ section'[c].op = r.op /\ section'[c].ws = r.ws
      /\ section'[c].manifest = r.manifest
    BY <1>0, <1>1, <1>2, <1>4, NextStage DEF Stages
<1>6. /\ index'[r.ws] = EmptyIndex /\ known'[r.ws] = Absent
      /\ bodies'[r.ws] = [m \in Manifests |-> Absent]
      /\ \A v \in Workspaces \ {r.ws} :
            /\ known'[v] = known[v] /\ index'[v] = index[v]
            /\ bodies'[v] = bodies[v] /\ files'[v] = files[v]
    BY <1>1, <1>2 DEF StoreSafe, TypeOK
<1>7. Agree(r.ws)'
    BY <1>6 DEF Agree, EmptyIndex
<1>8. Ready(c)'
    BY <1>5 DEF Ready, IsWriting, Writing
<1>9. BodiesAreImports'
    <2>1. ASSUME NEW v \in Workspaces, NEW i \in Imports
          PROVE  bodies'[v][i.manifest] \in {Absent, i.schedule}
        <3>1. bodies[v][i.manifest] \in {Absent, i.schedule} /\ i.manifest \in Manifests
            BY StoreConstants DEF FilesSafe, BodiesAreImports
        <3> QED
            BY <1>6, <3>1
    <2> QED
        BY <2>1 DEF BodiesAreImports
<1>10. /\ section'[c] \in Sections \cup {Idle}
       /\ \A m \in Manifests : bodies'[r.ws][m] # Absent =>
             bodies[r.ws][m] # Absent \/ (section[c].op = "add" /\ m = section[c].manifest)
    BY <1>5, <1>6
<1> QED
    BY <1>0, <1>2, <1>5, <1>6, <1>7, <1>8, <1>9, <1>10, MovesOnAgreeing

(* The registry is none of the files that have to agree. *)
LEMMA WriteTopAgrees ==
    ASSUME StoreSafe, FilesSafe, NEW c \in Clients, WriteTop(c)
    PROVE  FilesSafe'
<1>0. PICK r : r = section[c]
    OBVIOUS
<1>1. /\ r.at = "top" /\ section' = [section EXCEPT ![c] = Idle]
      /\ UNCHANGED <<known, index, bodies, files, echoed, faults>>
    BY <1>0 DEF WriteTop, Holding, Done
<1>2. r \in Sections /\ Holds(c) /\ r.ws \in Workspaces
    BY <1>0, <1>1, HolderFacts DEF Holds
<1>3. section'[c] = Idle
    BY <1>1 DEF StoreSafe, TypeOK
<1>4. Ready(c)'
    BY <1>3 DEF Ready, IsWriting, Writing, Idle
<1>5. Agree(r.ws)'
    <2>1. ASSUME NEW d \in Clients PROVE ~ IsWriting(d)
        <3>1. CASE d = c
            BY <1>0, <1>1, <3>1 DEF IsWriting, Writing
        <3>2. CASE d # c
            BY <1>2, <3>2, OthersWait DEF IsWriting, Writing
        <3> QED
            BY <3>1, <3>2
    <2>2. Agree(r.ws)
        BY <1>2, <2>1 DEF FilesSafe
    <2> QED
        BY <1>1, <2>2 DEF Agree, Lists
<1>6. /\ Idle \in Sections \cup {Idle}
      /\ \A v \in Workspaces \ {r.ws} :
            /\ known'[v] = known[v] /\ index'[v] = index[v]
            /\ bodies'[v] = bodies[v] /\ files'[v] = files[v]
      /\ \A m \in Manifests : bodies'[r.ws][m] # Absent =>
            bodies[r.ws][m] # Absent \/ (section[c].op = "add" /\ m = section[c].manifest)
    BY <1>1
<1> QED
    BY <1>0, <1>1, <1>2, <1>4, <1>5, <1>6, BodiesStayImports, MovesOnAgreeing

(* Every step that is no fault keeps the files in agreement.               *)
LEMMA FilesStep ==
    ASSUME OneManifestPerId, StoreSafe, FilesSafe, [Next]_vars,
           failures' = failures, crashes' = crashes
    PROVE  FilesSafe'
<1>2. ASSUME NEW c \in Clients, Requests(c) PROVE FilesSafe'
    BY <1>2, CreateWorkspaceAgrees, UpdateWorkspaceAgrees, DeleteWorkspaceAgrees,
       ImportManifestAgrees, IngestScheduleAgrees, RemoveManifestAgrees DEF Requests
<1>3. ASSUME NEW c \in Clients, Writes(c) PROVE FilesSafe'
    BY <1>3, WriteBodyAgrees, WriteFileAgrees, UnlinkBodyAgrees, CollectAgrees,
       WriteIndexAgrees, RemoveDirAgrees, WriteTopAgrees DEF Writes
<1>4. ~ Crash /\ \A c \in Clients : ~ Fail(c) /\ ~ CollectFails(c)
    BY NoFaultByItself
<1>5. CASE UNCHANGED vars \/ \E c \in Clients : Repeats(c)
    <2>1. UNCHANGED <<known, index, bodies, files, section>>
        BY <1>5 DEF vars, disk, Repeats, RepeatImport
    <2> QED
        BY <2>1 DEF FilesSafe, IsWriting, Agree, Lists, Ready, Reserved, BodyAfter,
           HasFileAfter, BodiesAreImports
<1> QED
    BY <1>2, <1>3, <1>4, <1>5, RegisterIngestedAgrees DEF Next

(* Whatever requests run at once, between them the memory, the indexes,    *)
(* the bodies and the files of every workspace agree, as long as no write  *)
(* has failed, the process has not died and an id is the id of one         *)
(* manifest.                                                               *)
THEOREM FilesStayInAgreement ==
    ASSUME OneManifestPerId
    PROVE  Spec => []FilesAgree
<1> DEFINE Inv == Unharmed => FilesSafe
<1>1. Init => Inv
    BY FilesInitial
<1>2. StoreSafe /\ Inv /\ [Next]_vars => Inv'
    <2>1. ASSUME StoreSafe, Inv, [Next]_vars, Unharmed' PROVE FilesSafe'
        <3>1. Unharmed /\ failures' = failures /\ crashes' = crashes
            BY <2>1, UnharmedBefore
        <3> QED
            BY <2>1, <3>1, FilesStep
    <2> QED
        BY <2>1
<1>3. Inv => FilesAgree
    BY SafeFilesAgree DEF FilesAgree
<1> HIDE DEF Inv
<1> QED
    BY <1>1, <1>2, <1>3, StoreIsSafe, PTL DEF Spec

-----------------------------------------------------------------------------
(* As long as nothing failed every answer stands *)

(* The request r lists manifest m of w without an answer yet, or is about  *)
(* to take it from the list.                                               *)
Pending(r, w, m) ==
    /\ r.at \notin {"idle", "stored"} /\ r.ws = w
    /\ \/ r.op = "delete" /\ r.at = "rmdir"
       \/ r.op = "add" /\ r.at = "top" /\ r.manifest = m
       \/ r.op = "remove" /\ r.at \in Writing /\ r.manifest = m

(* What request r will list was answered, but for what it adds itself. *)
WillAnswer(r) ==
    r.at \in Writing =>
       \A e \in r.index.entries :
          [ws |-> r.ws, manifest |-> e.manifest] \in acked \/ (r.op = "add" /\ e.manifest = r.manifest)

(* What is listed was answered as created, but for the request in progress,*)
(* so the existing entry of a key never stands for anything else.          *)
AnswersSafe ==
    /\ echoed = {}
    /\ \A w \in Workspaces : \A e \in index[w].entries :
          \/ [ws |-> w, manifest |-> e.manifest] \in acked
          \/ \E c \in Clients : Pending(section[c], w, e.manifest)
    /\ \A c \in Clients : WillAnswer(section[c])

(* Between requests everything listed was answered as created, and an echo *)
(* adds nothing.                                                           *)
LEMMA FreeMeansAnswered ==
    ASSUME AnswersSafe, Free, NEW w \in Workspaces
    PROVE  /\ \A e \in index[w].entries : [ws |-> w, manifest |-> e.manifest] \in acked
           /\ \A k : Echo(w, k) => echoed' = {}
<1>1. \A c \in Clients : \A m : ~ Pending(section[c], w, m)
    BY DEF Free, Holds, Pending
<1>2. \A e \in index[w].entries : [ws |-> w, manifest |-> e.manifest] \in acked
    BY <1>1 DEF AnswersSafe
<1>3. ASSUME NEW k, Echo(w, k) PROVE echoed' = {}
    BY <1>2, <1>3 DEF Echo, AnswersSafe
<1> QED
    BY <1>2, <1>3

(* A client that finds the mutex free takes up a request, or is done.      *)
LEMMA AnsweringTakesUp ==
    ASSUME StoreSafe, AnswersSafe, NEW c \in Clients, Free, NEW r,
           section' = [section EXCEPT ![c] = r], UNCHANGED <<index, acked>>, echoed' = {},
           WillAnswer(r)
    PROVE  AnswersSafe'
<1>1. \A d \in Clients : section'[d] = IF d = c THEN r ELSE section[d]
    BY DEF StoreSafe, TypeOK
<1>2. \A d \in Clients : WillAnswer(section[d])
    BY DEF AnswersSafe
<1>3. ASSUME NEW d \in Clients PROVE WillAnswer(section[d])'
    BY <1>1, <1>2 DEF WillAnswer
<1>4. \A w \in Workspaces : \A e \in index[w].entries :
         [ws |-> w, manifest |-> e.manifest] \in acked
    BY FreeMeansAnswered
<1> QED
    BY <1>3, <1>4 DEF AnswersSafe

(* Listing a manifest adds nothing that is not answered. *)
LEMMA AddingAnswers ==
    ASSUME StoreSafe, AnswersSafe, Free, NEW w \in Workspaces, known[w] # Absent,
           NEW m \in Manifests, NEW s \in Schedules \cup {Unlinked}, NEW k \in Keys \cup Manifests
    PROVE  WillAnswer(Adding(w, m, s, k))
<1>1. TypeOK
    BY DEF StoreSafe
<1>2. PICK r : /\ r = Adding(w, m, s, k) /\ r.op = "add" /\ r.ws = w /\ r.manifest = m
               /\ r.index.entries = index[w].entries \cup {[key |-> k, manifest |-> m]}
    BY <1>1, AddingFacts
<1>3. \A e \in index[w].entries : [ws |-> w, manifest |-> e.manifest] \in acked
    BY FreeMeansAnswered
<1> QED
    BY <1>2, <1>3 DEF WillAnswer

(* The requests that change no answer. *)
LEMMA RequestsAnswer ==
    ASSUME StoreSafe, AnswersSafe, NEW c \in Clients, NEW w \in Workspaces,
           \/ CreateWorkspace(c, w)
           \/ \E status \in {"active", "archived"} : UpdateWorkspace(c, w, status)
           \/ \E i \in Posts(w) : \E k \in Keys \cup {i.manifest} : ImportManifest(c, w, i, k)
           \/ \E m \in Manifests, s \in Schedules : \E k \in Keys \cup {m} :
                 IngestSchedule(c, w, m, s, k)
    PROVE  AnswersSafe'
<1>0. echoed = {}
    BY DEF AnswersSafe
<1>1. CASE CreateWorkspace(c, w)
    <2>1. PICK r : /\ r = [Request("create", "index", w) EXCEPT
                              !.record = [status |-> "active", count |-> 0]]
                   /\ section' = [section EXCEPT ![c] = r]
        BY <1>1 DEF CreateWorkspace
    <2>2. r.index.entries = {}
        BY <2>1 DEF Request, EmptyIndex
    <2>3. WillAnswer(r)
        BY <2>2 DEF WillAnswer
    <2> QED
        BY <1>0, <1>1, <2>1, <2>3, AnsweringTakesUp DEF CreateWorkspace, disk
<1>2. ASSUME NEW status \in {"active", "archived"}, UpdateWorkspace(c, w, status)
      PROVE  AnswersSafe'
    <2>1. WillAnswer(Request("update", "top", w))
        BY DEF WillAnswer, Request, Writing
    <2> QED
        BY <1>0, <1>2, <2>1, AnsweringTakesUp DEF UpdateWorkspace, disk
<1>3. ASSUME NEW i \in Posts(w), NEW k \in Keys \cup {i.manifest}, ImportManifest(c, w, i, k)
      PROVE  AnswersSafe'
    <2>1. i.manifest \in Manifests /\ i.schedule \in Schedules \cup {Unlinked}
        BY StoreConstants DEF Posts, StoreSafe, TypeOK
    <2>2. Free /\ known[w] # Absent /\ UNCHANGED <<index, acked, echoed>>
          /\ section' = [section EXCEPT ![c] = Adding(w, i.manifest, i.schedule, k)]
        BY <1>3 DEF ImportManifest, disk
    <2>3. k \in Keys \cup Manifests /\ TypeOK
        BY <2>1 DEF StoreSafe
    <2>4. WillAnswer(Adding(w, i.manifest, i.schedule, k))
        BY <2>1, <2>2, <2>3, AddingAnswers
    <2> QED
        BY <1>0, <2>2, <2>4, AnsweringTakesUp
<1>4. ASSUME NEW m \in Manifests, NEW s \in Schedules, NEW k \in Keys \cup {m},
             IngestSchedule(c, w, m, s, k)
      PROVE  AnswersSafe'
    <2>1. Free /\ UNCHANGED <<index, acked, echoed>>
          /\ section' = [section EXCEPT ![c] = Putting(w, m, s, k)]
        BY <1>4 DEF IngestSchedule, disk
    <2>2. k \in Keys \cup Manifests /\ TypeOK
        BY DEF StoreSafe
    <2>3. PICK r : r = Putting(w, m, s, k) /\ r.ws = w /\ r.index.entries = index[w].entries
        BY <2>2, PuttingFacts
    <2>4. WillAnswer(r)
        BY <2>1, <2>3, FreeMeansAnswered DEF WillAnswer
    <2> QED
        BY <1>0, <2>1, <2>3, <2>4, AnsweringTakesUp
<1> QED
    BY <1>1, <1>2, <1>3, <1>4

(* The requests that let answers go: what they will take from the list is  *)
(* theirs.                                                                 *)
LEMMA RemovalsAnswer ==
    ASSUME StoreSafe, AnswersSafe, NEW c \in Clients, NEW w \in Workspaces,
           \/ DeleteWorkspace(c, w)
           \/ \E m \in Manifests, deletes \in BOOLEAN : RemoveManifest(c, w, m, deletes)
    PROVE  AnswersSafe'
<1>0. /\ echoed = {} /\ echoed' = {} /\ UNCHANGED index
      /\ \A d \in Clients : section[d].at \notin Writing \/ d = c
    BY DEF AnswersSafe, DeleteWorkspace, RemoveManifest, disk, Free, Holds, Writing
<1>1. \A v \in Workspaces : \A e \in index[v].entries :
         [ws |-> v, manifest |-> e.manifest] \in acked
    BY FreeMeansAnswered DEF DeleteWorkspace, RemoveManifest
<1>2. ASSUME DeleteWorkspace(c, w) PROVE AnswersSafe'
    <2>1. PICK r : r = Request("delete", "rmdir", w) /\ section' = [section EXCEPT ![c] = r]
        BY <1>2 DEF DeleteWorkspace
    <2>2. r.op = "delete" /\ r.at = "rmdir" /\ r.ws = w
        BY <2>1 DEF Request
    <2>3. \A d \in Clients : section'[d] = IF d = c THEN r ELSE section[d]
        BY <2>1 DEF StoreSafe, TypeOK
    <2>4. \A d \in Clients : section'[d].at \notin Writing
        BY <1>0, <2>2, <2>3 DEF Writing
    <2>5. acked' = {a \in acked : a.ws # w}
        BY <1>2 DEF DeleteWorkspace
    <2>6. \A m : Pending(section[c], w, m)'
        BY <2>2, <2>3 DEF Pending
    <2>7. ASSUME NEW v \in Workspaces, NEW e \in index'[v].entries
          PROVE  [ws |-> v, manifest |-> e.manifest] \in acked' \/ Pending(section[c], v, e.manifest)'
        BY <1>0, <1>1, <2>5, <2>6
    <2> QED
        BY <1>0, <2>4, <2>7 DEF AnswersSafe, WillAnswer
<1>3. ASSUME NEW m \in Manifests, NEW deletes \in BOOLEAN, RemoveManifest(c, w, m, deletes)
      PROVE  AnswersSafe'
    <2>1. TypeOK /\ known[w] # Absent
        BY <1>3 DEF StoreSafe, RemoveManifest
    <2>2. PICK r : r = Removing(w, m, deletes) /\ section' = [section EXCEPT ![c] = r]
        BY <1>3 DEF RemoveManifest
    <2>3. /\ r.op = "remove" /\ r.at \in {"unlink", "index"} /\ r.ws = w /\ r.manifest = m
          /\ r.index.entries = {e \in index[w].entries : e.manifest # m}
        BY <2>1, <2>2, RemovingFacts
    <2>4. \A d \in Clients : section'[d] = IF d = c THEN r ELSE section[d]
        BY <2>2 DEF StoreSafe, TypeOK
    <2>5. acked' = acked \ {[ws |-> w, manifest |-> m]}
        BY <1>3 DEF RemoveManifest
    <2>6. WillAnswer(section[c])'
        BY <1>1, <2>3, <2>4, <2>5 DEF WillAnswer
    <2>7. \A d \in Clients : WillAnswer(section[d])'
        BY <1>0, <2>4, <2>6 DEF WillAnswer
    <2>8. Pending(section[c], w, m)'
        BY <2>3, <2>4 DEF Pending, Writing
    <2>9. ASSUME NEW v \in Workspaces, NEW e \in index'[v].entries
          PROVE  [ws |-> v, manifest |-> e.manifest] \in acked' \/ Pending(section[c], v, e.manifest)'
        <3>1. [ws |-> v, manifest |-> e.manifest] \in acked
            BY <1>0, <1>1
        <3>2. CASE v = w /\ e.manifest = m
            BY <2>8, <3>2
        <3>3. CASE ~ (v = w /\ e.manifest = m)
            BY <2>5, <3>1, <3>3
        <3> QED
            BY <3>2, <3>3
    <2> QED
        BY <1>0, <2>7, <2>9 DEF AnswersSafe
<1> QED
    BY <1>2, <1>3

(* The second half of an ingestion, and a repeated request. *)
LEMMA RegistrationsAnswer ==
    ASSUME StoreSafe, AnswersSafe, NEW c \in Clients, Repeats(c) \/ RegisterIngested(c)
    PROVE  AnswersSafe'
<1>1. ASSUME NEW w \in Workspaces, NEW k, RepeatImport(c, w, k) PROVE AnswersSafe'
    <2>1. echoed' = {} /\ UNCHANGED <<index, section, acked>>
        BY <1>1, FreeMeansAnswered DEF RepeatImport, disk
    <2> QED
        BY <2>1 DEF AnswersSafe, WillAnswer, Pending
<1>2. CASE RegisterIngested(c)
    <2>1. PICK r : r = section[c]
        OBVIOUS
    <2>2. r.at = "stored" /\ Free /\ UNCHANGED <<index, acked>> /\ echoed = {}
        BY <1>2, <2>1 DEF RegisterIngested, Holding, disk, AnswersSafe
    <2>3. r \in Sections /\ Coherent(r)
        BY <2>1, <2>2, RequestFacts DEF StoreSafe, TypeOK, SectionsOK
    <2>4. /\ r.ws \in Workspaces /\ r.manifest \in Manifests /\ r.schedule \in Schedules
          /\ r.key \in Keys \cup Manifests
        BY <2>2, <2>3 DEF Coherent, Sections
    <2>5. echoed' = {}
        BY <1>2, <2>1, <2>2, <2>4, FreeMeansAnswered DEF RegisterIngested
    <2>6. CASE known[r.ws] = Absent \/ HasKey(r.ws, r.key)
        <3>1. section' = [section EXCEPT ![c] = Idle]
            BY <1>2, <2>1, <2>6 DEF RegisterIngested, Done
        <3>2. WillAnswer(Idle)
            BY DEF WillAnswer, Idle, Writing
        <3> QED
            BY <2>2, <2>5, <3>1, <3>2, AnsweringTakesUp
    <2>7. CASE ~ (known[r.ws] = Absent \/ HasKey(r.ws, r.key))
        <3>1. section' = [section EXCEPT ![c] = Adding(r.ws, r.manifest, r.schedule, r.key)]
            BY <1>2, <2>1, <2>7 DEF RegisterIngested
        <3>2. WillAnswer(Adding(r.ws, r.manifest, r.schedule, r.key))
            BY <2>2, <2>4, <2>7, AddingAnswers
        <3> QED
            BY <2>2, <2>5, <3>1, <3>2, AnsweringTakesUp
    <2> QED
        BY <2>6, <2>7
<1> QED
    BY <1>1, <1>2 DEF Repeats

(* The writes: a request moves on, and what it lists it answers for.       *)
LEMMA WritesAnswer ==
    ASSUME StoreSafe, AnswersSafe, NEW c \in Clients, Writes(c)
    PROVE  AnswersSafe'
<1>1. PICK r : r = section[c]
    OBVIOUS
<1>2. r \in Sections /\ Coherent(r) /\ Holds(c) /\ r.ws \in Workspaces
    <2>1. section[c].at \notin {"idle", "stored"}
        BY DEF Writes, WriteBody, WriteFile, UnlinkBody, Collect, WriteIndex, RemoveDir, WriteTop,
           Holding
    <2> QED
        BY <1>1, <2>1, RequestFacts DEF StoreSafe, TypeOK, SectionsOK, Sections, Holds
<1>3. \A d \in Clients : d # c => section[d].at \in {"idle", "stored"}
    BY <1>2, OthersWait
<1>4. /\ echoed = {} /\ WillAnswer(r)
      /\ \A w \in Workspaces : \A e \in index[w].entries :
            [ws |-> w, manifest |-> e.manifest] \in acked \/ Pending(r, w, e.manifest)
    BY <1>1, <1>3 DEF AnswersSafe, Pending
<1>5. ASSUME NEW q, section' = [section EXCEPT ![c] = q], echoed' = echoed, WillAnswer(q)',
             \A w \in Workspaces : \A e \in index'[w].entries :
                [ws |-> w, manifest |-> e.manifest] \in acked' \/ Pending(q, w, e.manifest)
      PROVE  AnswersSafe'
    <2>1. \A d \in Clients : section'[d] = IF d = c THEN q ELSE section[d]
        BY <1>5 DEF StoreSafe, TypeOK
    <2>2. \A d \in Clients : WillAnswer(section[d])'
        BY <1>3, <1>5, <2>1 DEF WillAnswer, Writing
    <2>3. \A w \in Workspaces : \A e \in index'[w].entries :
             [ws |-> w, manifest |-> e.manifest] \in acked' \/ Pending(section[c], w, e.manifest)'
        BY <1>5, <2>1 DEF Pending
    <2> QED
        BY <1>4, <1>5, <2>2, <2>3 DEF AnswersSafe
<1>6. CASE WriteBody(c) \/ WriteFile(c) \/ UnlinkBody(c) \/ Collect(c)
    <2>1. PICK at \in {"collect", "index"} : Goto(c, at)
        BY <1>6 DEF WriteBody, WriteFile, UnlinkBody, Collect
    <2>2. UNCHANGED <<index, acked, echoed>> /\ r.at \in Writing
        BY <1>1, <1>6 DEF WriteBody, WriteFile, UnlinkBody, Collect, Holding, Writing
    <2>3. PICK q : q = [r EXCEPT !.at = at]
        OBVIOUS
    <2>4. /\ q.op = r.op /\ q.at = at /\ q.ws = r.ws /\ q.manifest = r.manifest
          /\ q.index = r.index
        BY <1>2, <2>3 DEF Sections
    <2>5. section' = [section EXCEPT ![c] = q]
        BY <1>1, <2>1, <2>3 DEF Goto
    <2>6. WillAnswer(q)'
        BY <1>4, <2>2, <2>4 DEF WillAnswer
    <2>7. \A w, m : Pending(r, w, m) => Pending(q, w, m)
        BY <2>2, <2>4 DEF Pending, Writing
    <2> QED
        BY <1>4, <1>5, <2>2, <2>5, <2>6, <2>7
<1>7. CASE WriteIndex(c)
    <2>1. r.at = "index" /\ UNCHANGED <<acked, echoed>>
          /\ index' = [index EXCEPT ![r.ws] = r.index]
        BY <1>1, <1>7 DEF WriteIndex, Holding
    <2>2. PICK at \in {"stored", "top"} : Goto(c, at) /\ (r.op = "add" => at = "top")
        BY <1>1, <1>7 DEF WriteIndex
    <2>3. PICK q : q = [r EXCEPT !.at = at]
        OBVIOUS
    <2>4. q.op = r.op /\ q.at = at /\ q.ws = r.ws /\ q.manifest = r.manifest
        BY <1>2, <2>3 DEF Sections
    <2>5. section' = [section EXCEPT ![c] = q]
        BY <1>1, <2>2, <2>3 DEF Goto
    <2>6. WillAnswer(q)'
        BY <2>4 DEF WillAnswer, Writing
    <2>7. ASSUME NEW w \in Workspaces, NEW e \in index'[w].entries
          PROVE  [ws |-> w, manifest |-> e.manifest] \in acked' \/ Pending(q, w, e.manifest)
        <3>1. CASE w = r.ws
            <4>1. e \in r.index.entries
                BY <1>2, <2>1, <3>1 DEF StoreSafe, TypeOK
            <4>2. \/ [ws |-> w, manifest |-> e.manifest] \in acked
                  \/ r.op = "add" /\ e.manifest = r.manifest
                BY <1>4, <2>1, <3>1, <4>1 DEF WillAnswer, Writing
            <4> QED
                BY <2>1, <2>2, <2>4, <3>1, <4>2 DEF Pending
        <3>2. CASE w # r.ws
            <4>1. e \in index[w].entries
                BY <1>2, <2>1, <3>2 DEF StoreSafe, TypeOK
            <4> QED
                BY <1>4, <2>1, <3>2, <4>1 DEF Pending
        <3> QED
            BY <3>1, <3>2
    <2> QED
        BY <1>5, <2>1, <2>5, <2>6, <2>7
<1>8. CASE RemoveDir(c)
    <2>1. r.at = "rmdir" /\ UNCHANGED <<acked, echoed>> /\ Goto(c, "top")
          /\ index' = [index EXCEPT ![r.ws] = EmptyIndex]
        BY <1>1, <1>8 DEF RemoveDir, Holding
    <2>2. PICK q : q = [r EXCEPT !.at = "top"]
        OBVIOUS
    <2>3. section' = [section EXCEPT ![c] = q] /\ q.at = "top"
        BY <1>1, <1>2, <2>1, <2>2 DEF Goto, Sections
    <2>4. WillAnswer(q)'
        BY <2>3 DEF WillAnswer, Writing
    <2>5. ASSUME NEW w \in Workspaces, NEW e \in index'[w].entries
          PROVE  [ws |-> w, manifest |-> e.manifest] \in acked'
        <3>1. w # r.ws /\ e \in index[w].entries
            BY <1>2, <2>1 DEF StoreSafe, TypeOK, EmptyIndex
        <3> QED
            BY <1>4, <2>1, <3>1 DEF Pending
    <2> QED
        BY <1>5, <2>1, <2>3, <2>4, <2>5
<1>9. CASE WriteTop(c)
    <2>1. /\ r.at = "top" /\ UNCHANGED <<index, echoed>> /\ section' = [section EXCEPT ![c] = Idle]
          /\ acked \subseteq acked'
          /\ r.op = "add" => [ws |-> r.ws, manifest |-> r.manifest] \in acked'
        BY <1>1, <1>9 DEF WriteTop, Holding, Done
    <2>2. WillAnswer(Idle)'
        BY DEF WillAnswer, Idle, Writing
    <2>3. ASSUME NEW w \in Workspaces, NEW e \in index'[w].entries
          PROVE  [ws |-> w, manifest |-> e.manifest] \in acked'
        BY <1>4, <2>1 DEF Pending, Writing
    <2> QED
        BY <1>5, <2>1, <2>2, <2>3
<1> QED
    BY <1>6, <1>7, <1>8, <1>9 DEF Writes

(* Every step that is no fault keeps the answers safe. *)
LEMMA AnswersStep ==
    ASSUME StoreSafe, AnswersSafe, [Next]_vars, failures' = failures, crashes' = crashes
    PROVE  AnswersSafe'
<1>2. ~ Crash /\ \A c \in Clients : ~ Fail(c) /\ ~ CollectFails(c)
    BY NoFaultByItself
<1>3. ASSUME NEW c \in Clients, Requests(c) PROVE AnswersSafe'
    <2>1. PICK w \in Workspaces :
             \/ CreateWorkspace(c, w)
             \/ \E status \in {"active", "archived"} : UpdateWorkspace(c, w, status)
             \/ DeleteWorkspace(c, w)
             \/ \E i \in Posts(w) : \E k \in Keys \cup {i.manifest} : ImportManifest(c, w, i, k)
             \/ \E m \in Manifests, s \in Schedules : \E k \in Keys \cup {m} :
                   IngestSchedule(c, w, m, s, k)
             \/ \E m \in Manifests, deletes \in BOOLEAN : RemoveManifest(c, w, m, deletes)
        BY <1>3 DEF Requests
    <2> QED
        BY <2>1, RequestsAnswer, RemovalsAnswer
<1>4. CASE UNCHANGED vars
    <2>1. UNCHANGED <<index, section, acked, echoed>>
        BY <1>4 DEF vars, disk
    <2> QED
        BY <2>1 DEF AnswersSafe, WillAnswer, Pending
<1> QED
    BY <1>2, <1>3, <1>4, RegistrationsAnswer, WritesAnswer DEF Next

(* As long as no write has failed and nothing crashed, a manifest whose    *)
(* registration was answered with success in any way, as created or with   *)
(* the existing entry of the key, stays registered until its removal is    *)
(* requested.                                                              *)
THEOREM EveryAnswerStands == Spec => []AnswersStand
<1> DEFINE Inv == Unharmed => AnswersSafe
<1>1. Init => Inv
    <2>1. ASSUME Init PROVE AnswersSafe
        <3>1. echoed = {} /\ \A w \in Workspaces : index[w].entries = {}
            BY <2>1 DEF Init, EmptyIndex
        <3>2. \A c \in Clients : WillAnswer(section[c])
            BY <2>1 DEF Init, WillAnswer, Idle, Writing
        <3> QED
            BY <3>1, <3>2 DEF AnswersSafe
    <2> QED
        BY <2>1
<1>2. StoreSafe /\ Inv /\ [Next]_vars => Inv'
    <2>1. ASSUME StoreSafe, Inv, [Next]_vars, Unharmed' PROVE AnswersSafe'
        <3>1. Unharmed /\ failures' = failures /\ crashes' = crashes
            BY <2>1, UnharmedBefore
        <3> QED
            BY <2>1, <3>1, AnswersStep
    <2> QED
        BY <2>1
<1>3. StoreSafe /\ Inv => AnswersStand
    <2>1. StoreSafe /\ AnswersSafe => AnsweredIsDurable
        BY DEF StoreSafe, Kept, AnswersSafe, AnsweredIsDurable, Registered
    <2> QED
        BY <2>1 DEF AnswersStand
<1> HIDE DEF Inv
<1> QED
    BY <1>1, <1>2, <1>3, StoreIsSafe, PTL DEF Spec

-----------------------------------------------------------------------------
(* One client alone loses nothing *)

(* The client that acts when there is only one. *)
Lone == CHOOSE d \in Clients : TRUE

(* In workspace w what is listed and references a schedule is in the slot  *)
(* of that schedule, and a slot has its file.                              *)
Linked(w) ==
    \A s \in Schedules :
        /\ \A e \in index[w].entries : bodies[w][e.manifest] = s =>
              index[w].slots[s] # Absent /\ e.manifest \in index[w].slots[s]
        /\ index[w].slots[s] # Absent => s \in files[w]

(* The same of the index that request r is to write, with the bodies and   *)
(* the files as they will be.                                              *)
LinkedAfter(r) ==
    \A s \in Schedules :
        /\ \A e \in r.index.entries : BodyAfter(r, e.manifest) = s =>
              r.index.slots[s] # Absent /\ e.manifest \in r.index.slots[s]
        /\ r.index.slots[s] # Absent => HasFileAfter(r, s)

(* Manifest m is one that clients bring. *)
Imported(m) == \E i \in Imports : i.manifest = m

(* The body of the client's own manifest references no schedule. *)
PlainBodies ==
    Imported(m3) => \A w \in Workspaces : bodies[w][m3] \in {Absent, Unlinked}

(* An ingestion has an id of its own and finds the slot of its schedule    *)
(* when it comes to list its manifest.                                     *)
InHand(r) ==
    /\ r.op = "put" =>
          /\ ~ Imported(r.manifest)
          /\ \A w \in Workspaces : bodies[w][r.manifest] = Absent
          /\ IF r.at = "stored" THEN index[r.ws].slots[r.schedule] # Absent
             ELSE r.index.slots[r.schedule] # Absent
    /\ r.at = "body" /\ r.manifest = m3 /\ Imported(m3) => r.schedule = Unlinked
    /\ r.at \in Writing => LinkedAfter(r)

LoneSafe ==
    /\ \A c \in Clients : section[c] # Idle => c = Lone /\ InHand(section[c])
    /\ \A w \in Workspaces :
          (\A c \in Clients : ~ (IsWriting(c) /\ section[c].ws = w)) => Linked(w)
    /\ PlainBodies

(* With the mutex free every workspace is linked. *)
LEMMA FreeMeansLinked ==
    ASSUME LoneSafe, Free, NEW w \in Workspaces
    PROVE  Linked(w)
<1>1. ASSUME NEW c \in Clients PROVE ~ IsWriting(c)
    BY DEF Free, Holds, IsWriting, Writing
<1> QED
    BY <1>1 DEF LoneSafe

(* The client takes up a request, or gives up the second half of one. *)
LEMMA LoneTakesUp ==
    ASSUME StoreSafe, LoneSafe, Free, NEW c \in Clients, c = Lone,
           NEW r \in Sections \cup {Idle}, section' = [section EXCEPT ![c] = r],
           UNCHANGED disk, r # Idle => InHand(r)'
    PROVE  LoneSafe'
<1>1. UNCHANGED <<index, bodies, files>>
    BY DEF disk
<1>2. section'[c] = r /\ \A d \in Clients \ {c} : section'[d] = section[d]
    BY DEF StoreSafe, TypeOK
<1>3. ASSUME NEW d \in Clients, section'[d] # Idle
      PROVE  d = Lone /\ InHand(section[d])'
    <2>1. d = c
        BY <1>2, <1>3 DEF LoneSafe
    <2> QED
        BY <1>2, <1>3, <2>1
<1>4. ASSUME NEW w \in Workspaces PROVE Linked(w)'
    <2>1. Linked(w)
        BY FreeMeansLinked
    <2> QED
        BY <1>1, <2>1 DEF Linked
<1>5. PlainBodies'
    BY <1>1 DEF LoneSafe, PlainBodies
<1> QED
    BY <1>3, <1>4, <1>5 DEF LoneSafe

(* The client moves on with its request in workspace w. *)
LEMMA LoneMovesOn ==
    ASSUME StoreSafe, LoneSafe, NEW c \in Clients, Holds(c), NEW w \in Workspaces,
           w = section[c].ws,
           NEW r \in Sections \cup {Idle}, section' = [section EXCEPT ![c] = r],
           r # Idle => r.ws = w /\ InHand(r)',
           \A v \in Workspaces \ {w} :
              index'[v] = index[v] /\ bodies'[v] = bodies[v] /\ files'[v] = files[v],
           r.at \in Writing \/ Linked(w)', PlainBodies'
    PROVE  LoneSafe'
<1>1. section[c] # Idle
    BY DEF Holds, Idle
<1>2. section'[c] = r /\ \A d \in Clients \ {c} : section'[d] = section[d] /\ section[d] = Idle
    BY <1>1 DEF StoreSafe, TypeOK, LoneSafe
<1>3. ASSUME NEW d \in Clients, section'[d] # Idle
      PROVE  d = Lone /\ InHand(section[d])'
    <2>1. d = c
        BY <1>2, <1>3
    <2> QED
        BY <1>1, <1>2, <1>3, <2>1 DEF LoneSafe
<1>4. ASSUME NEW v \in Workspaces, \A d \in Clients : ~ (IsWriting(d)' /\ section'[d].ws = v)
      PROVE  Linked(v)'
    <2>1. CASE v = w
        <3>1. IsWriting(c)' => section'[c].ws = w
            BY <1>2 DEF IsWriting, Writing, Idle
        <3> QED
            BY <1>2, <1>4, <2>1, <3>1 DEF IsWriting
    <2>2. CASE v # w
        <3>1. ASSUME NEW d \in Clients PROVE ~ (IsWriting(d) /\ section[d].ws = v)
            BY <1>2, <2>2 DEF IsWriting, Writing, Idle
        <3>2. Linked(v)
            BY <3>1 DEF LoneSafe
        <3> QED
            BY <2>2, <3>2 DEF Linked
    <2> QED
        BY <2>1, <2>2
<1> QED
    BY <1>3, <1>4 DEF LoneSafe

(* An index whose slots hold at least what they held, and a new entry that *)
(* is in its slot or references no schedule, stays linked.                 *)
LEMMA LoneAdding ==
    ASSUME StoreSafe, LoneSafe, Free, NEW c \in Clients, c = Lone, NEW w \in Workspaces,
           NEW m \in Manifests, NEW s \in Schedules \cup {Unlinked}, NEW k \in Keys \cup Manifests,
           known[w] # Absent, bodies[w][m] \in {Absent, s},
           s \in Schedules => index[w].slots[s] # Absent,
           m = m3 /\ Imported(m3) => s = Unlinked,
           section' = [section EXCEPT ![c] = Adding(w, m, s, k)],
           UNCHANGED <<known, disk, answers, faults>>
    PROVE  LoneSafe'
<1>0. PICK r : r = Adding(w, m, s, k)
    OBVIOUS
<1>1. /\ r \in Sections /\ r.op = "add" /\ r.ws = w /\ r.manifest = m /\ r.schedule = s
      /\ r.at = (IF bodies[w][m] = Absent THEN "body" ELSE "index")
      /\ r.index.entries = index[w].entries \cup {[key |-> k, manifest |-> m]}
      /\ r.index.slots = CrossReferenced(index[w].slots, m, s)
    BY <1>0, AddingFacts DEF StoreSafe
<1>2. UNCHANGED <<index, bodies, files>> /\ UNCHANGED disk
    BY DEF disk
<1>3. Linked(w)
    BY FreeMeansLinked
<1>4. index[w].slots \in [Schedules -> (SUBSET Manifests) \cup {Absent}]
    BY DEF StoreSafe, TypeOK, Indexes
<1>5. s # Absent
    BY StoreConstants
<1>6. ASSUME NEW n
      PROVE  BodyAfter(r, n)' = IF n = m THEN s ELSE bodies[w][n]
    BY <1>1, <1>2, <1>5 DEF BodyAfter
<1>7. ASSUME NEW q \in Schedules
      PROVE  /\ r.index.slots[q] # Absent <=> index[w].slots[q] # Absent
             /\ index[w].slots[q] # Absent => index[w].slots[q] \subseteq r.index.slots[q]
             /\ q = s => m \in r.index.slots[q]
    <2>1. CASE s \in Schedules
        <3>1. r.index.slots = [index[w].slots EXCEPT ![s] = index[w].slots[s] \cup {m}]
            BY <1>1, <2>1 DEF CrossReferenced
        <3>2. index[w].slots[s] \cup {m} # Absent
            <4>1. index[w].slots[s] \in SUBSET Manifests
                BY <1>4, <2>1
            <4>2. index[w].slots[s] \cup {m} \in SUBSET Manifests
                BY <4>1
            <4> QED
                BY <4>2, AbsentIsNoSlot
        <3> QED
            BY <1>4, <2>1, <3>1, <3>2
    <2>2. CASE s \notin Schedules
        BY <1>1, <2>2 DEF CrossReferenced
    <2> QED
        BY <2>1, <2>2
<1>8. LinkedAfter(r)'
    <2> SUFFICES ASSUME NEW q \in Schedules
                 PROVE  /\ \A e \in r.index.entries : BodyAfter(r, e.manifest)' = q =>
                              r.index.slots[q] # Absent /\ e.manifest \in r.index.slots[q]
                        /\ r.index.slots[q] # Absent => HasFileAfter(r, q)'
        BY DEF LinkedAfter
    <2>1. ASSUME NEW e \in r.index.entries, BodyAfter(r, e.manifest)' = q
          PROVE  r.index.slots[q] # Absent /\ e.manifest \in r.index.slots[q]
        <3>1. CASE e.manifest = m
            BY <1>6, <1>7, <2>1, <3>1
        <3>2. CASE e.manifest # m
            <4>1. e \in index[w].entries /\ bodies[w][e.manifest] = q
                BY <1>1, <1>6, <2>1, <3>2
            <4> QED
                BY <1>3, <1>7, <4>1 DEF Linked
        <3> QED
            BY <3>1, <3>2
    <2>2. r.index.slots[q] # Absent => HasFileAfter(r, q)'
        BY <1>1, <1>2, <1>3, <1>7 DEF HasFileAfter, Linked
    <2> QED
        BY <2>1, <2>2
<1>9. InHand(r)'
    BY <1>1, <1>8 DEF InHand
<1>10. r \in Sections \cup {Idle} /\ section' = [section EXCEPT ![c] = r]
    BY <1>0, <1>1
<1> QED
    BY <1>2, <1>9, <1>10, LoneTakesUp

(* A request without an index to write has nothing to prepare. *)
LEMMA LoneUpdating ==
    ASSUME StoreSafe, LoneSafe, NEW c \in Clients, c = Lone, NEW w \in Workspaces,
           \/ \E status \in {"active", "archived"} : UpdateWorkspace(c, w, status)
           \/ DeleteWorkspace(c, w)
    PROVE  LoneSafe'
<1>1. PICK r \in Sections : /\ section' = [section EXCEPT ![c] = r]
                            /\ r.op # "put" /\ r.at \in {"top", "rmdir"}
    <2>1. /\ Request("update", "top", w) \in Sections
          /\ Request("update", "top", w).op = "update" /\ Request("update", "top", w).at = "top"
          /\ Request("delete", "rmdir", w) \in Sections
          /\ Request("delete", "rmdir", w).op = "delete"
          /\ Request("delete", "rmdir", w).at = "rmdir"
        BY RequestIsSection DEF Stages
    <2> QED
        BY <2>1 DEF UpdateWorkspace, DeleteWorkspace
<1>2. Free /\ UNCHANGED disk
    BY DEF UpdateWorkspace, DeleteWorkspace
<1>3. InHand(r)'
    BY <1>1 DEF InHand, Writing
<1> QED
    BY <1>1, <1>2, <1>3, LoneTakesUp

LEMMA LoneCreating ==
    ASSUME StoreSafe, LoneSafe, NEW c \in Clients, c = Lone, NEW w \in Workspaces,
           CreateWorkspace(c, w)
    PROVE  LoneSafe'
<1>0. PICK r : r = [Request("create", "index", w) EXCEPT
                      !.record = [status |-> "active", count |-> 0]]
    OBVIOUS
<1>1. r \in Sections /\ r.op = "create" /\ r.at = "index" /\ r.index = EmptyIndex
    BY <1>0, CreatingFacts
<1>2. section' = [section EXCEPT ![c] = r] /\ Free /\ UNCHANGED disk
    BY <1>0 DEF CreateWorkspace
<1>3. LinkedAfter(r)'
    BY <1>1 DEF LinkedAfter, EmptyIndex
<1>4. InHand(r)'
    BY <1>1, <1>3 DEF InHand
<1> QED
    BY <1>1, <1>2, <1>4, LoneTakesUp

(* The client's own manifest references no schedule, whether the store has *)
(* its body or not.                                                        *)
LEMMA LoneImporting ==
    ASSUME StoreSafe, LoneSafe, AloneStep, NEW c \in Clients, c = Lone, NEW w \in Workspaces,
           NEW i \in Posts(w), NEW k \in Keys \cup {i.manifest}, ImportManifest(c, w, i, k)
    PROVE  LoneSafe'
<1>1. i.manifest \in Manifests /\ i.schedule \in Schedules \cup {Unlinked}
    BY StoreConstants DEF Posts, StoreSafe, TypeOK
<1>2. /\ section[c] = Idle /\ Free /\ known[w] # Absent
      /\ section' = [section EXCEPT ![c] = Adding(w, i.manifest, i.schedule, k)]
      /\ UNCHANGED <<known, disk, answers, faults>>
    BY DEF ImportManifest
<1>3. /\ section'[c] \in Sections /\ section'[c].op = "add"
      /\ section'[c].manifest = i.manifest /\ section'[c].schedule = i.schedule
    <2>1. PICK r : r = Adding(w, i.manifest, i.schedule, k)
        OBVIOUS
    <2>2. k \in Keys \cup Manifests /\ TypeOK /\ known[w] # Absent
        BY <1>1, <1>2 DEF StoreSafe
    <2>3. /\ r \in Sections /\ r.op = "add" /\ r.manifest = i.manifest
          /\ r.schedule = i.schedule
        BY <1>1, <2>1, <2>2, AddingFacts
    <2>4. section'[c] = r
        BY <1>2, <2>1, <2>2 DEF TypeOK
    <2> QED
        BY <2>3, <2>4
<1>4. i.manifest = m3 /\ i.schedule = Unlinked
    <2>1. Begins(c, "add")
        BY <1>2, <1>3, RequestIsNotIdle DEF Begins
    <2> QED
        BY <1>3, <2>1 DEF AloneStep
<1>5. bodies[w][m3] \in {Absent, Unlinked}
    BY <1>4 DEF Posts, LoneSafe, PlainBodies, Imported
<1>6. Unlinked \notin Schedules /\ k \in Keys \cup Manifests
    BY <1>1, StoreConstants
<1> QED
    BY <1>1, <1>2, <1>4, <1>5, <1>6, LoneAdding

(* An ingestion that finds no slot makes one for its schedule.             *)
LEMMA LoneIngesting ==
    ASSUME StoreSafe, LoneSafe, NEW c \in Clients, c = Lone, NEW w \in Workspaces,
           NEW m \in Manifests, NEW s \in Schedules, NEW k \in Keys \cup {m},
           IngestSchedule(c, w, m, s, k)
    PROVE  LoneSafe'
<1>0. PICK r : r = Putting(w, m, s, k)
    OBVIOUS
<1>1. /\ r \in Sections /\ r.op = "put" /\ r.at = (IF index[w].slots[s] # Absent THEN "stored" ELSE "file")
      /\ r.ws = w /\ r.manifest = m /\ r.schedule = s
      /\ r.index.entries = index[w].entries
      /\ r.index.slots[s] = {}
      /\ \A q \in Schedules \ {s} : r.index.slots[q] = index[w].slots[q]
    <2>1. k \in Keys \cup Manifests /\ TypeOK
        BY DEF StoreSafe
    <2>2. Putting(w, m, s, k).at = (IF index[w].slots[s] # Absent THEN "stored" ELSE "file")
        BY DEF Putting, Request
    <2> QED
        BY <1>0, <2>1, <2>2, PuttingFacts
<1>2. /\ section' = [section EXCEPT ![c] = r] /\ Free /\ Fresh(m) /\ UNCHANGED disk
    BY <1>0 DEF IngestSchedule
<1>3. UNCHANGED <<index, bodies, files>>
    BY <1>2 DEF disk
<1>4. Linked(w)
    BY <1>2, FreeMeansLinked
<1>5. {} # Absent
    BY AbsentIsNoSlot
<1>6. ASSUME r.at = "file" PROVE LinkedAfter(r)'
    <2>1. ASSUME NEW n PROVE BodyAfter(r, n)' = bodies[w][n]
        BY <1>1, <1>3, <1>6 DEF BodyAfter
    <2>2. ASSUME NEW q \in Schedules
          PROVE  /\ \A e \in r.index.entries : BodyAfter(r, e.manifest)' = q =>
                       r.index.slots[q] # Absent /\ e.manifest \in r.index.slots[q]
                 /\ r.index.slots[q] # Absent => HasFileAfter(r, q)'
        <3>1. CASE q = s
            BY <1>1, <1>4, <1>6, <2>1, <3>1 DEF Linked, HasFileAfter
        <3>2. CASE q # s
            BY <1>1, <1>3, <1>4, <1>6, <2>1, <3>2 DEF Linked, HasFileAfter
        <3> QED
            BY <3>1, <3>2
    <2> QED
        BY <2>2 DEF LinkedAfter
<1>7. InHand(r)'
    BY <1>1, <1>2, <1>3, <1>5, <1>6 DEF InHand, Fresh, Imported, Writing
<1> QED
    BY <1>1, <1>2, <1>7, LoneTakesUp

(* Nobody removed the slot between the two halves.                         *)
LEMMA LoneRegistering ==
    ASSUME StoreSafe, LoneSafe, NEW c \in Clients, RegisterIngested(c)
    PROVE  LoneSafe'
<1> DEFINE r == section[c]
<1>1. r.at = "stored" /\ Free /\ UNCHANGED <<known, disk, acked, faults>>
    BY DEF RegisterIngested, Holding
<1>2. r \in Sections /\ Coherent(r) /\ r # Idle
    BY <1>1, RequestFacts, RequestIsNotIdle DEF StoreSafe, TypeOK, SectionsOK
<1>3. /\ r.op = "put" /\ r.ws \in Workspaces
      /\ r.manifest \in Manifests /\ r.schedule \in Schedules /\ r.key \in Keys \cup Manifests
    BY <1>1, <1>2 DEF Coherent, Sections
<1>4. c = Lone /\ InHand(r)
    BY <1>2 DEF LoneSafe
<1>5. CASE known[r.ws] = Absent \/ HasKey(r.ws, r.key)
    <2>1. section' = [section EXCEPT ![c] = Idle]
        BY <1>5 DEF RegisterIngested, Done
    <2> QED
        BY <1>1, <1>4, <2>1, LoneTakesUp
<1>6. CASE ~ (known[r.ws] = Absent \/ HasKey(r.ws, r.key))
    <2>1. /\ section' = [section EXCEPT ![c] = Adding(r.ws, r.manifest, r.schedule, r.key)]
          /\ UNCHANGED <<known, disk, answers, faults>>
        BY <1>1, <1>6 DEF RegisterIngested
    <2>2. /\ bodies[r.ws][r.manifest] \in {Absent, r.schedule} /\ ~ Imported(r.manifest)
          /\ index[r.ws].slots[r.schedule] # Absent
        BY <1>1, <1>3, <1>4 DEF InHand
    <2>3. /\ known[r.ws] # Absent /\ r.schedule \in Schedules \cup {Unlinked}
          /\ r.schedule \in Schedules => index[r.ws].slots[r.schedule] # Absent
          /\ r.manifest = m3 /\ Imported(m3) => r.schedule = Unlinked
        BY <1>3, <1>6, <2>2
    <2> HIDE DEF r
    <2> QED
        BY <1>1, <1>3, <1>4, <2>1, <2>2, <2>3, LoneAdding
<1> QED
    BY <1>5, <1>6

(* A manifest that goes takes its slot and file along only if nobody else  *)
(* is in the slot.                                                         *)
LEMMA LoneRemoving ==
    ASSUME StoreSafe, LoneSafe, NEW c \in Clients, c = Lone, NEW w \in Workspaces,
           NEW m \in Manifests, NEW deletes \in BOOLEAN, RemoveManifest(c, w, m, deletes)
    PROVE  LoneSafe'
<1>0. PICK r, slots, after, s :
         /\ r = Removing(w, m, deletes) /\ after = SlotsWithout(w, m, deletes)
         /\ slots = index[w].slots /\ s = bodies[w][m]
    OBVIOUS
<1>1. /\ section' = [section EXCEPT ![c] = r] /\ Free /\ known[w] # Absent
      /\ UNCHANGED disk
    BY <1>0 DEF RemoveManifest
<1>2. /\ r \in Sections
      /\ r.op = "remove" /\ r.at \in {"unlink", "index"} /\ r.ws = w /\ r.manifest = m
      /\ r.index.entries = {e \in index[w].entries : e.manifest # m}
      /\ r.index.slots = after
      /\ r.schedule = IF after # slots /\ after[s] = Absent THEN s ELSE Absent
    BY <1>0, <1>1, RemovingFacts DEF StoreSafe
<1>3. UNCHANGED <<index, bodies, files>>
    BY <1>1 DEF disk
<1>4. Linked(w)
    BY <1>1, FreeMeansLinked
<1>5. slots \in [Schedules -> (SUBSET Manifests) \cup {Absent}]
    BY <1>0 DEF StoreSafe, TypeOK, Indexes
<1>6. ASSUME NEW q \in Schedules
      PROVE  /\ after[q] # Absent => slots[q] # Absent
             /\ \A n : n # m /\ slots[q] # Absent /\ n \in slots[q] =>
                   after[q] # Absent /\ n \in after[q]
    <2>1. CASE s \notin Schedules \/ slots[s] = Absent
        BY <1>0, <2>1 DEF SlotsWithout
    <2>2. CASE ~ (s \notin Schedules \/ slots[s] = Absent)
        <3>1. after = [slots EXCEPT ![s] =
                 IF deletes /\ slots[s] \subseteq {m} THEN Absent ELSE slots[s] \ {m}]
            BY <1>0, <2>2 DEF SlotsWithout
        <3>2. slots[s] \ {m} # Absent
            <4>1. slots[s] \in SUBSET Manifests
                BY <1>5, <2>2
            <4>2. slots[s] \ {m} \in SUBSET Manifests
                BY <4>1
            <4> QED
                BY <4>2, AbsentIsNoSlot
        <3>3. CASE q = s
            BY <1>5, <2>2, <3>1, <3>2, <3>3
        <3>4. CASE q # s
            BY <1>5, <2>2, <3>1, <3>4
        <3> QED
            BY <3>3, <3>4
    <2> QED
        BY <2>1, <2>2
<1>7. ASSUME NEW n, n # m PROVE BodyAfter(r, n)' = bodies[w][n]
    BY <1>2, <1>3, <1>7 DEF BodyAfter
<1>8. LinkedAfter(r)'
    <2>1. ASSUME NEW q \in Schedules, NEW e \in r.index.entries, BodyAfter(r, e.manifest)' = q
          PROVE  r.index.slots[q] # Absent /\ e.manifest \in r.index.slots[q]
        <3>1. e \in index[w].entries /\ e.manifest # m /\ bodies[w][e.manifest] = q
            BY <1>2, <1>7, <2>1
        <3>2. slots[q] # Absent /\ e.manifest \in slots[q]
            BY <1>0, <1>4, <3>1 DEF Linked
        <3> QED
            BY <1>2, <1>6, <3>1, <3>2
    <2>2. ASSUME NEW q \in Schedules, r.index.slots[q] # Absent
          PROVE  HasFileAfter(r, q)'
        <3>1. q # r.schedule
            BY <1>2, <2>2, StoreConstants
        <3>2. q \in files[w]
            BY <1>0, <1>2, <1>4, <1>6, <2>2 DEF Linked
        <3> QED
            BY <1>2, <1>3, <3>1, <3>2 DEF HasFileAfter
    <2> QED
        BY <2>1, <2>2 DEF LinkedAfter
<1>9. InHand(r)'
    BY <1>2, <1>8 DEF InHand
<1> QED
    BY <1>1, <1>2, <1>9, LoneTakesUp

-----------------------------------------------------------------------------
(* The writes of the lone client *)

(* What a holder of the mutex has in hand. *)
LEMMA LoneHolder ==
    ASSUME StoreSafe, LoneSafe, NEW c \in Clients, NEW r, r = section[c], r.at \in Stages \ {"stored"}
    PROVE  /\ c = Lone /\ InHand(r) /\ Holds(c)
           /\ r \in Sections /\ Coherent(r) /\ r.ws \in Workspaces /\ r.index \in Indexes
<1>1. section[c].at # "idle"
    BY DEF Stages
<1>2. r \in Sections /\ Coherent(r) /\ r # Idle
    BY <1>1, HolderFacts
<1> QED
    BY <1>1, <1>2 DEF LoneSafe, Holds, Sections

(* What is to be written stays linked, if the bodies and the files come to *)
(* what they were to come to.                                              *)
LEMMA StaysLinked ==
    ASSUME NEW r, NEW q, LinkedAfter(r), r.index \in Indexes, q.index = r.index,
           \A m \in Manifests : BodyAfter(q, m)' = BodyAfter(r, m),
           \A s \in Schedules : HasFileAfter(q, s)' <=> HasFileAfter(r, s)
    PROVE  LinkedAfter(q)'
<1>1. \A e \in r.index.entries : e.manifest \in Manifests
    BY DEF Indexes, Entries
<1> QED
    BY <1>1 DEF LinkedAfter

LEMMA LoneWriteBody ==
    ASSUME StoreSafe, LoneSafe, NEW c \in Clients, WriteBody(c)
    PROVE  LoneSafe'
<1>0. PICK r, q : r = section[c] /\ q = section'[c]
    OBVIOUS
<1>1. /\ r.at = "body" /\ Goto(c, "index")
      /\ bodies' = [bodies EXCEPT ![r.ws][r.manifest] = r.schedule]
      /\ UNCHANGED <<known, top, index, files, answers, faults>>
    BY <1>0 DEF WriteBody, Holding
<1>2. /\ c = Lone /\ InHand(r) /\ Holds(c) /\ r \in Sections /\ Coherent(r)
      /\ r.ws \in Workspaces /\ r.index \in Indexes
    BY <1>0, <1>1, LoneHolder DEF Stages
<1>3. r.op = "add" /\ r.manifest \in Manifests /\ r.schedule \in Schedules \cup {Unlinked}
    BY <1>1, <1>2 DEF Coherent, Sections
<1>4. Coherent([r EXCEPT !.at = "index"])
    BY <1>2, <1>3 DEF Coherent, Sections
<1>5. /\ section' = [section EXCEPT ![c] = q] /\ q \in Sections
      /\ q.at = "index" /\ q.op = r.op /\ q.ws = r.ws
      /\ q.manifest = r.manifest /\ q.schedule = r.schedule /\ q.index = r.index
    BY <1>0, <1>1, <1>2, <1>4, NextStage DEF Stages
<1>6. /\ bodies'[r.ws][r.manifest] = r.schedule
      /\ \A v \in Workspaces, m \in Manifests :
            (v # r.ws \/ m # r.manifest) => bodies'[v][m] = bodies[v][m]
      /\ \A v \in Workspaces \ {r.ws} : bodies'[v] = bodies[v]
    BY <1>1, <1>2, <1>3 DEF StoreSafe, TypeOK
<1>7. \A m \in Manifests : BodyAfter(q, m)' = BodyAfter(r, m)
    BY <1>1, <1>2, <1>5, <1>6 DEF BodyAfter
<1>8. \A s \in Schedules : HasFileAfter(q, s)' <=> HasFileAfter(r, s)
    BY <1>1, <1>5 DEF HasFileAfter
<1>9. LinkedAfter(r)
    BY <1>1, <1>2 DEF InHand, Writing
<1>10. InHand(q)'
    BY <1>2, <1>3, <1>5, <1>7, <1>8, <1>9, StaysLinked DEF InHand
<1>11. PlainBodies'
    <2>1. ASSUME Imported(m3), NEW v \in Workspaces PROVE bodies'[v][m3] \in {Absent, Unlinked}
        <3>1. m3 \in Manifests
            BY <2>1, StoreConstants DEF Imported
        <3>2. bodies[v][m3] \in {Absent, Unlinked}
            BY <2>1 DEF LoneSafe, PlainBodies
        <3>3. r.manifest = m3 => r.schedule = Unlinked
            BY <1>1, <1>2, <2>1 DEF InHand
        <3> QED
            BY <1>6, <3>1, <3>2, <3>3
    <2> QED
        BY <2>1 DEF PlainBodies
<1>12. /\ q \in Sections \cup {Idle} /\ q.at \in Writing /\ r.ws = section[c].ws
       /\ \A v \in Workspaces \ {r.ws} :
             index'[v] = index[v] /\ bodies'[v] = bodies[v] /\ files'[v] = files[v]
    BY <1>0, <1>1, <1>5, <1>6 DEF Writing
<1> QED
    BY <1>2, <1>5, <1>10, <1>11, <1>12, LoneMovesOn

LEMMA LoneWriteFile ==
    ASSUME StoreSafe, LoneSafe, NEW c \in Clients, WriteFile(c)
    PROVE  LoneSafe'
<1>0. PICK r, q : r = section[c] /\ q = section'[c]
    OBVIOUS
<1>1. /\ r.at = "file" /\ Goto(c, "index")
      /\ files' = [files EXCEPT ![r.ws] = @ \cup {r.schedule}]
      /\ UNCHANGED <<known, top, index, bodies, answers, faults>>
    BY <1>0 DEF WriteFile, Holding
<1>2. /\ c = Lone /\ InHand(r) /\ Holds(c) /\ r \in Sections /\ Coherent(r)
      /\ r.ws \in Workspaces /\ r.index \in Indexes
    BY <1>0, <1>1, LoneHolder DEF Stages
<1>3. r.op = "put" /\ r.schedule \in Schedules
    BY <1>1, <1>2 DEF Coherent, Sections
<1>4. Coherent([r EXCEPT !.at = "index"])
    BY <1>2, <1>3 DEF Coherent, Sections
<1>5. /\ section' = [section EXCEPT ![c] = q] /\ q \in Sections
      /\ q.at = "index" /\ q.op = r.op /\ q.ws = r.ws
      /\ q.manifest = r.manifest /\ q.schedule = r.schedule /\ q.index = r.index
    BY <1>0, <1>1, <1>2, <1>4, NextStage DEF Stages
<1>6. /\ files'[r.ws] = files[r.ws] \cup {r.schedule}
      /\ \A v \in Workspaces \ {r.ws} : files'[v] = files[v]
    BY <1>1, <1>2 DEF StoreSafe, TypeOK
<1>7. \A m \in Manifests : BodyAfter(q, m)' = BodyAfter(r, m)
    BY <1>1, <1>5 DEF BodyAfter
<1>8. \A s \in Schedules : HasFileAfter(q, s)' <=> HasFileAfter(r, s)
    BY <1>1, <1>5, <1>6 DEF HasFileAfter
<1>9. LinkedAfter(r)
    BY <1>1, <1>2 DEF InHand, Writing
<1>10. LinkedAfter(q)'
    BY <1>2, <1>5, <1>7, <1>8, <1>9, StaysLinked
<1>11. InHand(q)'
    BY <1>1, <1>2, <1>3, <1>5, <1>10 DEF InHand
<1>12. /\ q \in Sections \cup {Idle} /\ q.at \in Writing /\ r.ws = section[c].ws
       /\ \A v \in Workspaces \ {r.ws} :
             index'[v] = index[v] /\ bodies'[v] = bodies[v] /\ files'[v] = files[v]
       /\ PlainBodies'
    BY <1>0, <1>1, <1>5, <1>6 DEF Writing, LoneSafe, PlainBodies
<1> QED
    BY <1>2, <1>5, <1>11, <1>12, LoneMovesOn

LEMMA LoneUnlinkBody ==
    ASSUME StoreSafe, LoneSafe, NEW c \in Clients, UnlinkBody(c)
    PROVE  LoneSafe'
<1>0. PICK r, q, at : /\ r = section[c] /\ q = section'[c]
                      /\ at = IF r.schedule = Absent THEN "index" ELSE "collect"
    OBVIOUS
<1>1. /\ r.at = "unlink" /\ Goto(c, at)
      /\ bodies' = [bodies EXCEPT ![r.ws][r.manifest] = Absent]
      /\ UNCHANGED <<known, top, index, files, answers, faults>>
    BY <1>0 DEF UnlinkBody, Holding
<1>2. /\ c = Lone /\ InHand(r) /\ Holds(c) /\ r \in Sections /\ Coherent(r)
      /\ r.ws \in Workspaces /\ r.index \in Indexes
    BY <1>0, <1>1, LoneHolder DEF Stages
<1>3. r.op = "remove" /\ r.manifest \in Manifests /\ r.schedule \in Schedules \cup {Absent}
    BY <1>1, <1>2 DEF Coherent, Sections
<1>4. Coherent([r EXCEPT !.at = at])
    BY <1>0, <1>1, <1>2, <1>3 DEF Coherent, Sections
<1>5. /\ section' = [section EXCEPT ![c] = q] /\ q \in Sections
      /\ q.at = at /\ q.op = r.op /\ q.ws = r.ws
      /\ q.manifest = r.manifest /\ q.schedule = r.schedule /\ q.index = r.index
    BY <1>0, <1>1, <1>2, <1>4, NextStage DEF Stages
<1>6. /\ bodies'[r.ws][r.manifest] = Absent
      /\ \A v \in Workspaces, m \in Manifests :
            (v # r.ws \/ m # r.manifest) => bodies'[v][m] = bodies[v][m]
      /\ \A v \in Workspaces \ {r.ws} : bodies'[v] = bodies[v]
    BY <1>1, <1>2, <1>3 DEF StoreSafe, TypeOK
<1>7. \A m \in Manifests : BodyAfter(q, m)' = BodyAfter(r, m)
    BY <1>0, <1>1, <1>2, <1>5, <1>6 DEF BodyAfter
<1>8. \A s \in Schedules : HasFileAfter(q, s)' <=> HasFileAfter(r, s)
    BY <1>0, <1>1, <1>5, StoreConstants DEF HasFileAfter
<1>9. LinkedAfter(r)
    BY <1>1, <1>2 DEF InHand, Writing
<1>10. InHand(q)'
    BY <1>0, <1>2, <1>3, <1>5, <1>7, <1>8, <1>9, StaysLinked DEF InHand
<1>11. PlainBodies'
    <2>1. ASSUME Imported(m3), NEW v \in Workspaces PROVE bodies'[v][m3] \in {Absent, Unlinked}
        <3>1. m3 \in Manifests
            BY <2>1, StoreConstants DEF Imported
        <3>2. bodies[v][m3] \in {Absent, Unlinked}
            BY <2>1 DEF LoneSafe, PlainBodies
        <3> QED
            BY <1>6, <3>1, <3>2
    <2> QED
        BY <2>1 DEF PlainBodies
<1>12. /\ q \in Sections \cup {Idle} /\ q.at \in Writing /\ r.ws = section[c].ws
       /\ \A v \in Workspaces \ {r.ws} :
             index'[v] = index[v] /\ bodies'[v] = bodies[v] /\ files'[v] = files[v]
    BY <1>0, <1>1, <1>5, <1>6 DEF Writing
<1> QED
    BY <1>2, <1>5, <1>10, <1>11, <1>12, LoneMovesOn

LEMMA LoneCollect ==
    ASSUME StoreSafe, LoneSafe, NEW c \in Clients, Collect(c)
    PROVE  LoneSafe'
<1>0. PICK r, q : r = section[c] /\ q = section'[c]
    OBVIOUS
<1>1. /\ r.at = "collect" /\ Goto(c, "index")
      /\ files' = [files EXCEPT ![r.ws] = @ \ {r.schedule}]
      /\ UNCHANGED <<known, top, index, bodies, answers, faults>>
    BY <1>0 DEF Collect, Holding
<1>2. /\ c = Lone /\ InHand(r) /\ Holds(c) /\ r \in Sections /\ Coherent(r)
      /\ r.ws \in Workspaces /\ r.index \in Indexes
    BY <1>0, <1>1, LoneHolder DEF Stages
<1>3. r.op = "remove"
    BY <1>1, <1>2 DEF Coherent
<1>4. Coherent([r EXCEPT !.at = "index"])
    BY <1>1, <1>2, <1>3 DEF Coherent, Sections
<1>5. /\ section' = [section EXCEPT ![c] = q] /\ q \in Sections
      /\ q.at = "index" /\ q.op = r.op /\ q.ws = r.ws
      /\ q.manifest = r.manifest /\ q.schedule = r.schedule /\ q.index = r.index
    BY <1>0, <1>1, <1>2, <1>4, NextStage DEF Stages
<1>6. /\ files'[r.ws] = files[r.ws] \ {r.schedule}
      /\ \A v \in Workspaces \ {r.ws} : files'[v] = files[v]
    BY <1>1, <1>2 DEF StoreSafe, TypeOK
<1>7. \A m \in Manifests : BodyAfter(q, m)' = BodyAfter(r, m)
    BY <1>1, <1>5 DEF BodyAfter
<1>8. \A s \in Schedules : HasFileAfter(q, s)' <=> HasFileAfter(r, s)
    BY <1>1, <1>5, <1>6 DEF HasFileAfter
<1>9. LinkedAfter(r)
    BY <1>1, <1>2 DEF InHand, Writing
<1>10. InHand(q)'
    BY <1>2, <1>3, <1>5, <1>7, <1>8, <1>9, StaysLinked DEF InHand
<1>11. /\ q \in Sections \cup {Idle} /\ q.at \in Writing /\ r.ws = section[c].ws
       /\ \A v \in Workspaces \ {r.ws} :
             index'[v] = index[v] /\ bodies'[v] = bodies[v] /\ files'[v] = files[v]
       /\ PlainBodies'
    BY <1>0, <1>1, <1>5, <1>6 DEF Writing, LoneSafe, PlainBodies
<1> QED
    BY <1>2, <1>5, <1>10, <1>11, LoneMovesOn

LEMMA LoneWriteIndex ==
    ASSUME StoreSafe, LoneSafe, NEW c \in Clients, WriteIndex(c)
    PROVE  LoneSafe'
<1>0. PICK r, q, at : /\ r = section[c] /\ q = section'[c]
                      /\ at = IF r.op = "put" THEN "stored" ELSE "top"
    OBVIOUS
<1>1. /\ r.at = "index" /\ Goto(c, at)
      /\ index' = [index EXCEPT ![r.ws] = r.index]
      /\ UNCHANGED <<top, bodies, files, answers, faults>>
    BY <1>0 DEF WriteIndex, Holding
<1>2. /\ c = Lone /\ InHand(r) /\ Holds(c) /\ r \in Sections /\ Coherent(r)
      /\ r.ws \in Workspaces /\ r.index \in Indexes
    BY <1>0, <1>1, LoneHolder DEF Stages
<1>3. Coherent([r EXCEPT !.at = at])
    BY <1>0, <1>1, <1>2 DEF Coherent, Sections
<1>4. /\ section' = [section EXCEPT ![c] = q] /\ q \in Sections
      /\ q.at = at /\ q.op = r.op /\ q.ws = r.ws
      /\ q.manifest = r.manifest /\ q.schedule = r.schedule /\ q.index = r.index
    BY <1>0, <1>1, <1>2, <1>3, NextStage DEF Stages
<1>5. index'[r.ws] = r.index /\ \A v \in Workspaces \ {r.ws} : index'[v] = index[v]
    BY <1>1, <1>2 DEF StoreSafe, TypeOK
<1>6. LinkedAfter(r)
    BY <1>1, <1>2 DEF InHand, Writing
<1>7. /\ \A m : BodyAfter(r, m) = bodies[r.ws][m]
      /\ \A s : HasFileAfter(r, s) <=> s \in files[r.ws]
    BY <1>1 DEF BodyAfter, HasFileAfter
<1>8. Linked(r.ws)'
    BY <1>1, <1>5, <1>6, <1>7 DEF Linked, LinkedAfter
<1>9. InHand(q)'
    BY <1>0, <1>1, <1>2, <1>4, <1>5 DEF InHand, Writing
<1>10. /\ q \in Sections \cup {Idle} /\ r.ws = section[c].ws
       /\ \A v \in Workspaces \ {r.ws} :
             index'[v] = index[v] /\ bodies'[v] = bodies[v] /\ files'[v] = files[v]
       /\ PlainBodies'
    BY <1>0, <1>1, <1>4, <1>5 DEF LoneSafe, PlainBodies
<1> QED
    BY <1>2, <1>4, <1>8, <1>9, <1>10, LoneMovesOn

LEMMA LoneRemoveDir ==
    ASSUME StoreSafe, LoneSafe, NEW c \in Clients, RemoveDir(c)
    PROVE  LoneSafe'
<1>0. PICK r, q : r = section[c] /\ q = section'[c]
    OBVIOUS
<1>1. /\ r.at = "rmdir" /\ Goto(c, "top")
      /\ index' = [index EXCEPT ![r.ws] = EmptyIndex]
      /\ bodies' = [bodies EXCEPT ![r.ws] = [m \in Manifests |-> Absent]]
      /\ files' = [files EXCEPT ![r.ws] = {}]
    BY <1>0 DEF RemoveDir, Holding
<1>2. /\ c = Lone /\ InHand(r) /\ Holds(c) /\ r \in Sections /\ Coherent(r)
      /\ r.ws \in Workspaces /\ r.index \in Indexes
    BY <1>0, <1>1, LoneHolder DEF Stages
<1>3. r.op = "delete"
    BY <1>1, <1>2 DEF Coherent
<1>4. Coherent([r EXCEPT !.at = "top"])
    BY <1>2, <1>3 DEF Coherent, Sections
<1>5. /\ section' = [section EXCEPT ![c] = q] /\ q \in Sections
      /\ q.at = "top" /\ q.op = r.op /\ q.ws = r.ws
    BY <1>0, <1>1, <1>2, <1>4, NextStage DEF Stages
<1>6. /\ index'[r.ws] = EmptyIndex
      /\ bodies'[r.ws] = [m \in Manifests |-> Absent]
      /\ \A v \in Workspaces \ {r.ws} :
            index'[v] = index[v] /\ bodies'[v] = bodies[v] /\ files'[v] = files[v]
    BY <1>1, <1>2 DEF StoreSafe, TypeOK
<1>7. Linked(r.ws)'
    BY <1>6 DEF Linked, EmptyIndex
<1>8. InHand(q)'
    BY <1>3, <1>5 DEF InHand, Writing
<1>9. PlainBodies'
    <2>1. ASSUME Imported(m3), NEW v \in Workspaces PROVE bodies'[v][m3] \in {Absent, Unlinked}
        <3>1. m3 \in Manifests
            BY <2>1, StoreConstants DEF Imported
        <3>2. bodies[v][m3] \in {Absent, Unlinked}
            BY <2>1 DEF LoneSafe, PlainBodies
        <3> QED
            BY <1>6, <3>1, <3>2
    <2> QED
        BY <2>1 DEF PlainBodies
<1>10. q \in Sections \cup {Idle} /\ r.ws = section[c].ws
    BY <1>0, <1>5
<1> QED
    BY <1>2, <1>5, <1>6, <1>7, <1>8, <1>9, <1>10, LoneMovesOn

LEMMA LoneWriteTop ==
    ASSUME StoreSafe, LoneSafe, NEW c \in Clients, WriteTop(c)
    PROVE  LoneSafe'
<1>0. PICK r : r = section[c]
    OBVIOUS
<1>1. /\ r.at = "top" /\ section' = [section EXCEPT ![c] = Idle]
      /\ UNCHANGED <<index, bodies, files>>
    BY <1>0 DEF WriteTop, Holding, Done
<1>2. c = Lone /\ Holds(c) /\ r.ws \in Workspaces
    BY <1>0, <1>1, LoneHolder DEF Stages
<1>3. Linked(r.ws)
    <2>1. ASSUME NEW d \in Clients PROVE ~ IsWriting(d)
        BY <1>0, <1>1, <1>2 DEF LoneSafe, IsWriting, Writing, Idle
    <2> QED
        BY <1>2, <2>1 DEF LoneSafe
<1>4. Linked(r.ws)'
    BY <1>1, <1>3 DEF Linked
<1>5. /\ Idle \in Sections \cup {Idle} /\ r.ws = section[c].ws
      /\ \A v \in Workspaces \ {r.ws} :
            index'[v] = index[v] /\ bodies'[v] = bodies[v] /\ files'[v] = files[v]
      /\ PlainBodies'
    BY <1>0, <1>1 DEF LoneSafe, PlainBodies
<1> QED
    BY <1>1, <1>2, <1>4, <1>5, LoneMovesOn

(* The empty store is linked. *)
LEMMA LoneInitial ==
    ASSUME Init
    PROVE  LoneSafe
<1>1. ASSUME NEW w \in Workspaces PROVE Linked(w)
    BY DEF Init, Linked, EmptyIndex
<1>2. \A c \in Clients : section[c] = Idle
    BY DEF Init
<1>3. PlainBodies
    BY StoreConstants DEF Init, PlainBodies, Imported
<1> QED
    BY <1>1, <1>2, <1>3 DEF LoneSafe

LEMMA LoneStutters ==
    ASSUME LoneSafe, UNCHANGED vars \/ \E c \in Clients : Repeats(c)
    PROVE  LoneSafe'
<1>1. UNCHANGED <<index, bodies, files, section>>
    BY DEF vars, disk, Repeats, RepeatImport
<1> QED
    BY <1>1 DEF LoneSafe, IsWriting, Linked, InHand, LinkedAfter, BodyAfter, HasFileAfter,
       PlainBodies

(* Every request begins with a section of its own. *)
LEMMA LoneRequestBegins ==
    ASSUME StoreSafe, NEW c \in Clients, Requests(c)
    PROVE  section[c] = Idle /\ section'[c] # Idle
<1>1. PICK r : section[c] = Idle /\ section' = [section EXCEPT ![c] = r] /\ r.at \in Stages
    <2>1. \A w, m, x, k : Adding(w, m, x, k).at \in Stages
        BY DEF Adding, Request, Stages
    <2>2. \A w, m, x, k : Putting(w, m, x, k).at \in Stages
        BY DEF Putting, Request, Stages
    <2>3. \A w, m, deletes : Removing(w, m, deletes).at \in Stages
        BY DEF Removing, Request, Stages
    <2>4. /\ \A op, w : \A at \in Stages : Request(op, at, w).at \in Stages
          /\ \A w, x : [Request("create", "index", w) EXCEPT !.record = x].at \in Stages
        <3>1. \A op, w, at : Request(op, at, w).at = at
            BY DEF Request
        <3>2. \A w, x : [Request("create", "index", w) EXCEPT !.record = x].at = "index"
            BY DEF Request
        <3> QED
            BY <3>1, <3>2 DEF Stages
    <2>5. "index" \in Stages /\ "top" \in Stages /\ "rmdir" \in Stages
        BY DEF Stages
    <2>6. PICK w \in Workspaces :
             \/ CreateWorkspace(c, w)
             \/ \E status \in {"active", "archived"} : UpdateWorkspace(c, w, status)
             \/ DeleteWorkspace(c, w)
             \/ \E i \in Posts(w) : \E k \in Keys \cup {i.manifest} : ImportManifest(c, w, i, k)
             \/ \E m \in Manifests, s \in Schedules : \E k \in Keys \cup {m} :
                   IngestSchedule(c, w, m, s, k)
             \/ \E m \in Manifests, deletes \in BOOLEAN : RemoveManifest(c, w, m, deletes)
        BY DEF Requests
    <2>7. ASSUME CreateWorkspace(c, w)
          PROVE  \E q : section[c] = Idle /\ section' = [section EXCEPT ![c] = q] /\ q.at \in Stages
        BY <2>4, <2>7 DEF CreateWorkspace
    <2>8. ASSUME \/ \E status \in {"active", "archived"} : UpdateWorkspace(c, w, status)
                 \/ DeleteWorkspace(c, w)
          PROVE  \E q : section[c] = Idle /\ section' = [section EXCEPT ![c] = q] /\ q.at \in Stages
        BY <2>4, <2>5, <2>8 DEF UpdateWorkspace, DeleteWorkspace
    <2>9. ASSUME \E i, k : ImportManifest(c, w, i, k)
          PROVE  \E q : section[c] = Idle /\ section' = [section EXCEPT ![c] = q] /\ q.at \in Stages
        BY <2>1, <2>9 DEF ImportManifest
    <2>10. ASSUME \E m, s, k : IngestSchedule(c, w, m, s, k)
          PROVE  \E q : section[c] = Idle /\ section' = [section EXCEPT ![c] = q] /\ q.at \in Stages
        BY <2>2, <2>10 DEF IngestSchedule
    <2>11. ASSUME \E m, deletes : RemoveManifest(c, w, m, deletes)
          PROVE  \E q : section[c] = Idle /\ section' = [section EXCEPT ![c] = q] /\ q.at \in Stages
        BY <2>3, <2>11 DEF RemoveManifest
    <2> QED
        BY <2>6, <2>7, <2>8, <2>9, <2>10, <2>11
<1>2. section'[c] = r
    BY <1>1 DEF StoreSafe, TypeOK
<1> QED
    BY <1>1, <1>2 DEF Stages, Idle

(* Every step of the one client leaves what is listed linked.              *)
LEMMA LoneStep ==
    ASSUME StoreSafe, LoneSafe, Next, AloneStep, NothingFails
    PROVE  LoneSafe'
<1>2. ~ Crash /\ \A c \in Clients : ~ Fail(c) /\ ~ CollectFails(c)
    BY NoFaultByItself DEF NothingFails
<1>3. ASSUME NEW c \in Clients, Requests(c), c = Lone PROVE LoneSafe'
    <2>1. PICK w \in Workspaces :
             \/ CreateWorkspace(c, w)
             \/ \E status \in {"active", "archived"} : UpdateWorkspace(c, w, status)
             \/ DeleteWorkspace(c, w)
             \/ \E i \in Posts(w) : \E k \in Keys \cup {i.manifest} : ImportManifest(c, w, i, k)
             \/ \E m \in Manifests, s \in Schedules : \E k \in Keys \cup {m} :
                   IngestSchedule(c, w, m, s, k)
             \/ \E m \in Manifests, deletes \in BOOLEAN : RemoveManifest(c, w, m, deletes)
        BY <1>3 DEF Requests
    <2> QED
        BY <1>3, <2>1, LoneUpdating, LoneCreating, LoneImporting, LoneIngesting, LoneRemoving
<1>4. ASSUME NEW c \in Clients, Requests(c) PROVE c = Lone
    <2>1. section[c] = Idle /\ section'[c] # Idle
        BY <1>4, LoneRequestBegins
    <2> QED
        BY <2>1 DEF AloneStep, Lone
<1>5. ASSUME NEW c \in Clients, Writes(c) PROVE LoneSafe'
    BY <1>5, LoneWriteBody, LoneWriteFile, LoneUnlinkBody, LoneCollect, LoneWriteIndex,
       LoneRemoveDir, LoneWriteTop DEF Writes
<1> QED
    BY <1>2, <1>3, <1>4, <1>5, LoneRegistering, LoneStutters DEF Next

(* A linked store has the file of every schedule that is referenced. *)
LEMMA LoneKeepsFiles ==
    ASSUME LoneSafe
    PROVE  ListedScheduleStored
<1>1. ASSUME Free, NEW w \in Workspaces PROVE Linked(w)
    BY <1>1, FreeMeansLinked
<1> QED
    BY <1>1 DEF ListedScheduleStored, Linked

(* A file goes only with the collection that was prepared for it.          *)
LEMMA LoneCollectsUnreferenced ==
    ASSUME StoreSafe, LoneSafe, Next, NothingFails, NEW c \in Clients, NEW w \in Workspaces,
           NEW s \in Schedules, Holding(c, "collect"), s \in files[w], s \notin files'[w],
           NEW e \in section[c].index.entries
    PROVE  bodies[w][e.manifest] # s
<1>0. PICK r : r = section[c]
    OBVIOUS
<1>1. r.at = "collect" /\ Holds(c)
    BY <1>0 DEF Holding, Holds
<1>2. InHand(r) /\ c = Lone /\ r \in Sections /\ r.ws \in Workspaces
    BY <1>0, <1>1, LoneHolder DEF Stages
<1>3. ~ Free
    BY <1>1 DEF Free
<1>4. \A d \in Clients : d # c => section[d] = Idle
    BY <1>2 DEF LoneSafe
<1>5. files' = [files EXCEPT ![r.ws] = @ \ {r.schedule}]
    <2>2. ~ Crash /\ \A d \in Clients : ~ Fail(d) /\ ~ CollectFails(d)
        BY NoFaultByItself DEF NothingFails
    <2>3. \A d \in Clients : ~ Requests(d) /\ ~ Repeats(d) /\ ~ RegisterIngested(d)
        BY <1>3 DEF Requests, Repeats, RepeatImport, CreateWorkspace, UpdateWorkspace, DeleteWorkspace,
           ImportManifest, IngestSchedule, RemoveManifest, RegisterIngested
    <2>4. PICK d \in Clients : Writes(d)
        BY <2>2, <2>3 DEF Next
    <2>5. d = c
        BY <1>4, <2>4 DEF Writes, WriteBody, WriteFile, UnlinkBody, Collect, WriteIndex,
           RemoveDir, WriteTop, Holding, Idle
    <2> QED
        BY <1>0, <1>1, <2>4, <2>5 DEF Writes, WriteBody, WriteFile, UnlinkBody, Collect,
           WriteIndex, RemoveDir, WriteTop, Holding
<1>6. w = r.ws /\ s = r.schedule
    BY <1>2, <1>5 DEF StoreSafe, TypeOK
<1>7. ~ HasFileAfter(r, s) /\ BodyAfter(r, e.manifest) = bodies[w][e.manifest]
    BY <1>1, <1>6 DEF HasFileAfter, BodyAfter
<1>8. LinkedAfter(r)
    BY <1>1, <1>2 DEF InHand, Writing
<1> QED
    BY <1>0, <1>7, <1>8 DEF LinkedAfter

(* One client that ingests schedules and posts only a manifest of its own  *)
(* without a stored schedule: without failures and crashes it never loses  *)
(* the schedule of a listed manifest, and collects the file of a schedule  *)
(* only when no manifest that stays listed references it. A client that    *)
(* posts a kept body again, or one that references a stored schedule, is   *)
(* not covered: it does lose the file (store.rs:400-406, 480-481).         *)
THEOREM OneClientLosesNothing == ScenarioSpec => AloneLosesNothing
<1> DEFINE Inv == scenario = "alone" => LoneSafe
           Collects == scenario = "alone" =>
              \A c \in Clients : \A w \in Workspaces, s \in Schedules :
                 Holding(c, "collect") /\ s \in files[w] /\ s \notin files'[w] =>
                    \A e \in section[c].index.entries : bodies[w][e.manifest] # s
<1>1. ScenarioInit => Init /\ Inv
    BY LoneInitial DEF ScenarioInit
<1>2. StoreSafe /\ Inv /\ [ScenarioNext]_<<vars, scenario>> => Inv'
    <2>1. ASSUME StoreSafe, Inv, ScenarioNext, scenario = "alone" PROVE LoneSafe'
        BY <2>1, LoneStep DEF ScenarioNext
    <2>2. ASSUME StoreSafe, Inv, UNCHANGED <<vars, scenario>>, scenario = "alone"
          PROVE  LoneSafe'
        BY <2>2, LoneStutters
    <2> QED
        BY <2>1, <2>2 DEF ScenarioNext
<1>3. StoreSafe /\ Inv /\ [ScenarioNext]_<<vars, scenario>> => [Collects]_vars
    <2>1. ASSUME StoreSafe, Inv, ScenarioNext PROVE Collects
        <3>1. ASSUME scenario = "alone" PROVE LoneSafe /\ Next /\ NothingFails
            BY <2>1, <3>1 DEF ScenarioNext
        <3> QED
            BY <2>1, <3>1, LoneCollectsUnreferenced
    <2> QED
        BY <2>1
<1>4. Inv => AloneScheduleStored
    BY LoneKeepsFiles DEF AloneScheduleStored
<1>5. [ScenarioNext]_<<vars, scenario>> => [Next]_vars
    BY DEF ScenarioNext
<1>6. ScenarioSpec => Spec
    BY <1>1, <1>5, PTL DEF ScenarioSpec, Spec
<1> HIDE DEF Inv
<1>7. ScenarioSpec => []Inv /\ []StoreSafe
    BY <1>1, <1>2, <1>6, StoreIsSafe, PTL DEF ScenarioSpec
<1> HIDE DEF Collects
<1>8. ScenarioSpec => [][Collects]_vars
    BY <1>3, <1>7, PTL DEF ScenarioSpec
<1>9. ScenarioSpec => []AloneScheduleStored
    BY <1>4, <1>7, PTL
<1> QED
    BY <1>8, <1>9, PTL DEF AloneLosesNothing, AloneCollects, Collects
=============================================================================
