---------------------------- MODULE Publication ----------------------------
(***************************************************************************)
(* Publishing a directory of schedules to a workspace of the web server:   *)
(* the client (lab/src/bin/virolai/publish.rs) sends its files in batches  *)
(* and sends a batch again when no answer or an error comes back, while    *)
(* the server (webapp/src/workspaces/routes.rs) may still be working on    *)
(* the first copy.  The server takes the items of a batch one at a time;   *)
(* the lock of the store makes each of them one step.                      *)
(*                                                                         *)
(* A file is a record of its kind and of its bytes.  The idempotency key   *)
(* of an item is the first half of the SHA-256 of the bytes, hence the     *)
(* bytes.  A manifest is named after the number of manifests before it.    *)
(***************************************************************************)
EXTENDS Naturals, FiniteSets, Sequences, SequencesExt

CONSTANTS
    Publishers,
    FilesOf,      \* the .json files of each publisher's directory, sorted
    Creates,      \* the publishers that pass --create-workspace
    ChunkSize,    \* schedules in a batch (25 in the code)
    Retries,      \* --retries
    Opened,       \* whether the workspace exists from the start
    MaxRefusals,  \* bound: items the store fails to keep
    MaxServerFaults  \* bound: restarts of the server, lost creations

Kinds == {"schedule", "unmeasured", "other"}

ASSUME PublicationConstants ==
    /\ IsFiniteSet(Publishers)
    /\ FilesOf \in [Publishers -> Seq([kind : Kinds, bytes : STRING])]
    /\ Creates \subseteq Publishers
    /\ ChunkSize \in Nat \ {0} /\ {Retries, MaxRefusals, MaxServerFaults} \subseteq Nat
    /\ Opened \in BOOLEAN

(* collect_schedule_paths keeps what looks like a schedule; one without    *)
(* schedule_metrics is refused by the server.                              *)
IsSchedule(f) == f.kind # "other"
KeptFiles(p) == {i \in DOMAIN FilesOf[p] : IsSchedule(FilesOf[p][i])}
Nth(S, n) == CHOOSE i \in S : Cardinality({j \in S : j < i}) = n - 1
Collected(p) ==
    [n \in 1 .. Cardinality(KeptFiles(p)) |-> FilesOf[p][Nth(KeptFiles(p), n)]]
Total(p) == Len(Collected(p))
Chunks(p) == (Total(p) + ChunkSize - 1) \div ChunkSize
Chunk(p, n) == SubSeq(Collected(p), (n - 1) * ChunkSize + 1,
                      IF n * ChunkSize < Total(p) THEN n * ChunkSize ELSE Total(p))

(* A request is one sending of one chunk. *)
Sendings == UNION {{p} \X (1 .. Chunks(p)) \X (0 .. Retries) : p \in Publishers}
Items(r) == Chunk(r[1], r[2])

VARIABLES
    opened,     \* the workspace exists
    entries,    \* its manifests: [key, manifest]
    request,    \* what the server does with each sending
    client,     \* the progress of each publisher
    refusals, serverFaults

pubVars == <<opened, entries, request, client, refusals, serverFaults>>

Nobody == [at |-> "unsent", next |-> 1, created |-> 0, deduped |-> 0, failed |-> 0]
Beginning == [at |-> "start", chunk |-> 1, attempt |-> 0,
              created |-> 0, deduped |-> 0, failed |-> 0]
Exits == {"success", "failure", "error"}

PubInit ==
    /\ opened = Opened
    /\ entries = {}
    /\ request = [r \in Sendings |-> Nobody]
    /\ client = [p \in Publishers |-> Beginning]
    /\ refusals = 0
    /\ serverFaults = 0
-----------------------------------------------------------------------------
(* The client *)

At(p, at) == client[p].at = at
Sending(p) == <<p, client[p].chunk, client[p].attempt>>

(* 201 and 409 are both fine; any other answer ends the publication.       *)
CreateWorkspace(p) ==
    /\ At(p, "start")
    /\ \/ /\ p \notin Creates
          /\ client' = [client EXCEPT ![p].at = "collect"]
          /\ UNCHANGED <<opened, serverFaults>>
       \/ /\ p \in Creates
          /\ opened' = TRUE
          /\ client' = [client EXCEPT ![p].at = "collect"]
          /\ UNCHANGED serverFaults
       \/ /\ p \in Creates /\ serverFaults < MaxServerFaults
          /\ opened' \in {opened, TRUE}
          /\ serverFaults' = serverFaults + 1
          /\ client' = [client EXCEPT ![p].at = "error"]
    /\ UNCHANGED <<entries, request, refusals>>

Collect(p) ==
    /\ At(p, "collect")
    /\ client' = [client EXCEPT ![p].at = IF Total(p) = 0 THEN "error" ELSE "send"]
    /\ UNCHANGED <<opened, entries, request, refusals, serverFaults>>

(* The request reaches the server or is lost on the way. *)
Send(p) ==
    /\ At(p, "send")
    /\ request' \in {request, [request EXCEPT ![Sending(p)].at = "serving"]}
    /\ client' = [client EXCEPT ![p].at = "wait"]
    /\ UNCHANGED <<opened, entries, refusals, serverFaults>>

(* The chunk is over, and so is the publication after the last one. *)
Counting(p, c, d, f) ==
    LET last == client[p].chunk = Chunks(p)
        failed == client[p].failed + f
    IN  client' = [client EXCEPT ![p] =
          [at |-> IF ~ last THEN "send" ELSE IF failed > 0 THEN "failure" ELSE "success",
           chunk |-> IF last THEN @.chunk ELSE @.chunk + 1, attempt |-> 0,
           created |-> @.created + c, deduped |-> @.deduped + d, failed |-> failed]]

Answer(p) ==
    /\ At(p, "wait") /\ request[Sending(p)].at = "answered"
    /\ LET r == request[Sending(p)] IN Counting(p, r.created, r.deduped, r.failed)
    /\ UNCHANGED <<opened, entries, request, refusals, serverFaults>>

(* Faulty: the last error of a chunk is passed over. *)
GiveUp_Silently(p) ==
    IF client[p].attempt < Retries
      THEN client' = [client EXCEPT ![p].attempt = @ + 1, ![p].at = "send"]
      ELSE Counting(p, 0, 0, 0)

GiveUp(p) ==
    IF client[p].attempt < Retries
      THEN client' = [client EXCEPT ![p].attempt = @ + 1, ![p].at = "send"]
      ELSE Counting(p, 0, 0, Len(Items(Sending(p))))

(* A timeout, a broken connection or a 5xx; the request may still run, and *)
(* its answer may be on the way.                                           *)
NoAnswer(p) ==
    /\ At(p, "wait")
    /\ GiveUp(p)
    /\ UNCHANGED <<opened, entries, request, refusals, serverFaults>>
-----------------------------------------------------------------------------
(* The server: ingest_schedule_batch, one item at a time *)

Serving(r) == request[r].at = "serving" /\ request[r].next <= Len(Items(r))
HasKey(k) == \E e \in entries : e.key = k
Fresh == Cardinality(entries) + 1

Count(r, outcome) ==
    LET one(o) == IF outcome = o THEN 1 ELSE 0
    IN  request' = [request EXCEPT ![r] =
          [at |-> IF @.next = Len(Items(r)) THEN "answered" ELSE @.at, next |-> @.next + 1,
           created |-> @.created + one("created"), deduped |-> @.deduped + one("deduped"),
           failed |-> @.failed + one("failed")]]

(* Faulty: every item is registered. *)
Register_Always(r, f) ==
    /\ entries' = entries \cup {[key |-> f.bytes, manifest |-> Fresh]}
    /\ Count(r, "created")

Register(r, f) ==
    IF HasKey(f.bytes)
      THEN /\ UNCHANGED entries
           /\ Count(r, "deduped")
      ELSE /\ entries' = entries \cup {[key |-> f.bytes, manifest |-> Fresh]}
           /\ Count(r, "created")

ServeItem(r) ==
    /\ Serving(r)
    /\ LET f == Items(r)[request[r].next] IN
       IF f.kind = "unmeasured" \/ ~ opened
         THEN Count(r, "failed") /\ UNCHANGED entries
         ELSE Register(r, f)
    /\ UNCHANGED <<opened, client, refusals, serverFaults>>

(* The store cannot write: the item fails, the batch goes on. A write that *)
(* fails after that of the index leaves the entry.                         *)
Refuse(r) ==
    /\ Serving(r) /\ refusals < MaxRefusals
    /\ Count(r, "failed")
    /\ LET f == Items(r)[request[r].next] IN
       \/ UNCHANGED entries
       \/ /\ f.kind = "schedule" /\ opened /\ ~ HasKey(f.bytes)
          /\ entries' = entries \cup {[key |-> f.bytes, manifest |-> Fresh]}
    /\ refusals' = refusals + 1
    /\ UNCHANGED <<opened, client, serverFaults>>

(* What was registered is on disk; the requests in progress end. *)
Restart ==
    /\ serverFaults < MaxServerFaults
    /\ \E r \in Sendings : request[r].at = "serving"
    /\ request' = [r \in Sendings |->
         IF request[r].at = "serving" THEN [request[r] EXCEPT !.at = "cut"] ELSE request[r]]
    /\ serverFaults' = serverFaults + 1
    /\ UNCHANGED <<opened, entries, client, refusals>>

ClientSteps(p) ==
    CreateWorkspace(p) \/ Collect(p) \/ Send(p) \/ Answer(p) \/ NoAnswer(p)

PubNext ==
    \/ \E p \in Publishers : ClientSteps(p)
    \/ \E r \in Sendings : ServeItem(r) \/ Refuse(r)
    \/ Restart

(* The client has a timeout for every request. *)
PubFairness == \A p \in Publishers : WF_pubVars(ClientSteps(p))
PubSpec == PubInit /\ [][PubNext]_pubVars
FairPubSpec == PubSpec /\ PubFairness
-----------------------------------------------------------------------------
(* Counters, states and entries are what their readers expect. *)
PubTypeOK ==
    /\ opened \in BOOLEAN
    /\ \A e \in entries : e.manifest \in 1 .. Cardinality(entries)
    /\ \A r \in Sendings :
         /\ request[r].at \in {"unsent", "serving", "answered", "cut"}
         /\ request[r].next - 1 = request[r].created + request[r].deduped + request[r].failed
         /\ request[r].at = "answered" => request[r].next = Len(Items(r)) + 1
    /\ \A p \in Publishers :
         /\ client[p].at \in {"start", "collect", "send", "wait"} \cup Exits
         /\ client[p].at \in {"send", "wait"} => Sending(p) \in Sendings

(* However often a batch is sent and however its copies overlap, a         *)
(* schedule joins the workspace once (publish.rs:232, 247-275;             *)
(* routes.rs:439-465).                                                     *)
FoundKeys == {f.bytes : f \in UNION {ToSet(Collected(p)) : p \in Publishers}}

Joins == INSTANCE Membership WITH
    Workspaces <- {"w"},
    Manifests <- 1 .. Cardinality(FoundKeys),
    Keys <- FoundKeys,
    members <- [w \in {"w"} |-> entries]

JoinsOnce == Joins!Spec

(* A publication that ends with success has registered every schedule it   *)
(* found, whatever was lost, repeated or restarted (publish.rs:73-117).    *)
SuccessMeansPublished ==
    \A p \in Publishers : At(p, "success") =>
       \A f \in ToSet(Collected(p)) : f.kind = "schedule" /\ HasKey(f.bytes)

(* Each schedule found is counted once, under what its last sending made   *)
(* of it (publish.rs:88-106).                                              *)
CountsAddUp ==
    \A p \in Publishers : client[p].at \in {"success", "failure"} =>
       client[p].created + client[p].deduped + client[p].failed = Total(p)

(* No schedule is reported as created twice, by one publisher or by two.   *)
(* An answer that was lost, or a write that failed late, may leave one     *)
(* that nobody reports (publish.rs:251-262, 111-114).                      *)
Reported == UNION {{p} \X (1 .. client[p].created) : p \in Publishers}

CreatedOnce == Cardinality(Reported) <= Cardinality(entries)

(* What a publication reports to its user is what the server holds         *)
(* (publish.rs:73-117).                                                    *)
ReportsAreHonest ==
    /\ SuccessMeansPublished
    /\ CountsAddUp
    /\ CreatedOnce

(* Publications end, whatever the server does: there is always a time when *)
(* none that was begun is under way (publish.rs:247-275).                  *)
PublicationsEnd == []<>(\A p \in Publishers : client[p].at \in {"start"} \cup Exits)
=============================================================================
