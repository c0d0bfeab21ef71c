-------------------------- MODULE PrescheduleCache --------------------------
(***************************************************************************)
(* The files that keep the answers of the prescheduler                     *)
(* (webapp/src/workspaces/preschedule_cache.rs).  Requests for comparisons *)
(* run at once and share, per key, one entry file and one temporary file;  *)
(* no lock protects them.                                                  *)
(*                                                                         *)
(* A file is the two halves of what was written to it; a half belongs to   *)
(* the answer it is part of. A request that created a temporary file which *)
(* another renames keeps writing to the renamed file.                      *)
(***************************************************************************)
EXTENDS Naturals, FiniteSets

CONSTANTS
    Queries,        \* requests, each asking once
    Problems,       \* problem and horizon that a request may ask for
    CacheKeys,      \* SHA-256 of ids, durations, targets and horizon
    Answers,        \* what the prescheduler finds
    Nothing,        \* an unwritten half
    NoFile,         \* the name is not taken
    IoError,        \* the request returned an error
    Unanswered,
    MaxCacheFaults  \* bound: I/O errors and crashes

Halves == Answers \cup {Nothing}

ASSUME CacheConstants ==
    /\ MaxCacheFaults \in Nat
    /\ NoFile \notin Queries
    /\ Nothing \notin Answers /\ Unanswered \notin Answers
    /\ IoError # Unanswered /\ IoError \notin [first : Halves, second : Halves]

VARIABLES
    keyOf,    \* the key of each problem
    finds,    \* what the prescheduler computes for each problem, or IoError
    file,     \* the file behind each name: inodes are named after creators
    entryAt,  \* <key>.json
    tmpAt,    \* <key>.json.tmp
    query,    \* the progress of each request: [at, problem, inode]
    served,   \* [first, second] halves of the answer, IoError or Unanswered
    met,      \* history: requests that overlapped another one of their key
    cacheFaults

cacheVars == <<keyOf, finds, file, entryAt, tmpAt, query, served, met, cacheFaults>>

CacheStages == {"idle", "create", "first", "second", "rename", "done"}
Waiting == [at |-> "idle", problem |-> NoFile, inode |-> NoFile]

CacheInit ==
    /\ keyOf \in [Problems -> CacheKeys]
    /\ finds \in [Problems -> Answers \cup {IoError}]
    /\ file = [i \in Queries |-> [first |-> Nothing, second |-> Nothing]]
    /\ entryAt = [k \in CacheKeys |-> NoFile]
    /\ tmpAt = [k \in CacheKeys |-> NoFile]
    /\ query = [r \in Queries |-> Waiting]
    /\ served = [r \in Queries |-> Unanswered]
    /\ met = {}
    /\ cacheFaults = 0

Key(r) == keyOf[query[r].problem]
Busy(r) == query[r].at \notin {"idle", "done"}
At(r, stage) == query[r].at = stage
Advance(r, stage) == query' = [query EXCEPT ![r].at = stage]
Serve(r, a) ==
    /\ served' = [served EXCEPT ![r] = a]
    /\ query' = [query EXCEPT ![r].at = "done"]
Whole(a) == [first |-> a, second |-> a]
Torn == [first |-> Nothing, second |-> Nothing]

(* serde_json refuses a file that misses a part. *)
Readable(i) == i # NoFile /\ file[i].first # Nothing /\ file[i].second # Nothing

(* Faulty: whatever lies in the file is served. *)
Read_Trusting(r, p) ==
    /\ At(r, "idle")
    /\ LET k == keyOf[p]
           others == {s \in Queries : Busy(s) /\ Key(s) = k}
       IN  /\ met' = IF others = {} THEN met ELSE met \cup others \cup {r}
           /\ IF entryAt[k] # NoFile
                THEN /\ served' = [served EXCEPT ![r] = file[entryAt[k]]]
                     /\ query' = [query EXCEPT ![r] = [Waiting EXCEPT !.at = "done", !.problem = p]]
                ELSE /\ query' = [query EXCEPT ![r] = [Waiting EXCEPT !.at = "create", !.problem = p]]
                     /\ UNCHANGED served
    /\ UNCHANGED <<keyOf, finds, file, entryAt, tmpAt, cacheFaults>>

(* A request reads the entry, or computes it when it cannot be read.       *)
Read(r, p) ==
    /\ At(r, "idle")
    /\ LET k == keyOf[p]
           others == {s \in Queries : Busy(s) /\ Key(s) = k}
           goes(at) == query' = [query EXCEPT ![r] = [Waiting EXCEPT !.at = at, !.problem = p]]
       IN  /\ met' = IF others = {} THEN met ELSE met \cup others \cup {r}
           /\ \/ /\ Readable(entryAt[k])
                 /\ served' = [served EXCEPT ![r] = file[entryAt[k]]]
                 /\ goes("done")
              \/ /\ ~ Readable(entryAt[k]) /\ finds[p] = IoError
                 /\ served' = [served EXCEPT ![r] = IoError]
                 /\ goes("done")
              \/ /\ ~ Readable(entryAt[k]) /\ finds[p] # IoError
                 /\ goes("create")
                 /\ UNCHANGED served
    /\ UNCHANGED <<keyOf, finds, file, entryAt, tmpAt, cacheFaults>>

(* File::create empties the file that has the name, whoever writes to it. *)
Create(r) ==
    /\ At(r, "create")
    /\ LET inode == IF tmpAt[Key(r)] = NoFile THEN r ELSE tmpAt[Key(r)]
       IN  /\ tmpAt' = [tmpAt EXCEPT ![Key(r)] = inode]
           /\ file' = [file EXCEPT ![inode] = Torn]
           /\ query' = [query EXCEPT ![r].at = "first", ![r].inode = inode]
    /\ UNCHANGED <<keyOf, finds, entryAt, served, met, cacheFaults>>

WriteFirst(r) ==
    /\ At(r, "first")
    /\ file' = [file EXCEPT ![query[r].inode].first = finds[query[r].problem]]
    /\ Advance(r, "second")
    /\ UNCHANGED <<keyOf, finds, entryAt, tmpAt, served, met, cacheFaults>>

WriteSecond(r) ==
    /\ At(r, "second")
    /\ file' = [file EXCEPT ![query[r].inode].second = finds[query[r].problem]]
    /\ Advance(r, "rename")
    /\ UNCHANGED <<keyOf, finds, entryAt, tmpAt, served, met, cacheFaults>>

(* The request that comes second finds nothing to rename, and fails. *)
Rename(r) ==
    /\ At(r, "rename")
    /\ \/ /\ tmpAt[Key(r)] = NoFile
          /\ Serve(r, IoError)
          /\ UNCHANGED <<entryAt, tmpAt>>
       \/ /\ tmpAt[Key(r)] # NoFile
          /\ entryAt' = [entryAt EXCEPT ![Key(r)] = tmpAt[Key(r)]]
          /\ tmpAt' = [tmpAt EXCEPT ![Key(r)] = NoFile]
          /\ Serve(r, Whole(finds[query[r].problem]))
    /\ UNCHANGED <<keyOf, finds, file, met, cacheFaults>>

(* A file operation fails: the request gives up and leaves what it wrote.  *)
IoFails(r) ==
    /\ cacheFaults < MaxCacheFaults
    /\ Busy(r)
    /\ Serve(r, IoError)
    /\ cacheFaults' = cacheFaults + 1
    /\ UNCHANGED <<keyOf, finds, file, entryAt, tmpAt, met>>

(* The process dies: every request is gone, the files stay. *)
CacheCrash ==
    /\ cacheFaults < MaxCacheFaults
    /\ \E r \in Queries : Busy(r)
    /\ query' = [r \in Queries |-> IF Busy(r) THEN [query[r] EXCEPT !.at = "done"] ELSE query[r]]
    /\ cacheFaults' = cacheFaults + 1
    /\ UNCHANGED <<keyOf, finds, file, entryAt, tmpAt, served, met>>

CacheNext ==
    \/ \E r \in Queries, p \in Problems : Read(r, p)
    \/ \E r \in Queries :
          Create(r) \/ WriteFirst(r) \/ WriteSecond(r) \/ Rename(r) \/ IoFails(r)
    \/ CacheCrash

CacheSpec == CacheInit /\ [][CacheNext]_cacheVars
-----------------------------------------------------------------------------
(* Problems with the same key have the same answer: nothing that the key   *)
(* leaves out (constraints, dependencies, telescope) tells them apart.     *)
KeyDecides == \A p, q \in Problems : keyOf[p] = keyOf[q] => finds[p] = finds[q]

CacheTypeOK ==
    /\ keyOf \in [Problems -> CacheKeys]
    /\ finds \in [Problems -> Answers \cup {IoError}]
    /\ file \in [Queries -> [first : Halves, second : Halves]]
    /\ entryAt \in [CacheKeys -> Queries \cup {NoFile}]
    /\ tmpAt \in [CacheKeys -> Queries \cup {NoFile}]
    /\ query \in [Queries -> [at : CacheStages, problem : Problems \cup {NoFile},
                              inode : Queries \cup {NoFile}]]
    /\ served \in [Queries -> [first : Halves, second : Halves] \cup {IoError, Unanswered}]
    /\ met \subseteq Queries
    /\ cacheFaults \in 0 .. MaxCacheFaults

(* No request is served the answer for another problem, as the comment on  *)
(* the key has it (preschedule_cache.rs:74-77). It does not hold by itself:*)
(* the key leaves constraints and telescope out.                           *)
OtherProblemsDetected ==
    \A r \in Queries :
        served[r] \notin {Unanswered, IoError} =>
            served[r] = Whole(finds[query[r].problem])

(* While the key decides, no request is served anything but the answer for *)
(* its own problem, though the file may be cut short or written by two     *)
(* requests at once (preschedule_cache.rs:45-70).                          *)
ServedIsOwn == KeyDecides => OtherProblemsDetected

(* In any case, what is served was computed whole for problems of the same *)
(* key: an edited problem whose key did not change gets the old answer.    *)
ServedOfSameKey ==
    \A r \in Queries :
        served[r] \notin {Unanswered, IoError} =>
            \A a \in {served[r].first, served[r].second} :
                \E p \in Problems : keyOf[p] = keyOf[query[r].problem] /\ finds[p] = a

(* A request fails only because the prescheduler does, because a file      *)
(* operation does, or because it met another request of its key.           *)
FailsOnlyWhenMet ==
    \A r \in Queries :
        (served[r] = IoError /\ cacheFaults = 0 /\ r \notin met)
            => finds[query[r].problem] = IoError

(* Once all requests are done, the entry can be read, unless something     *)
(* failed or the key does not decide.                                      *)
QuietEntryIsWhole ==
    (KeyDecides /\ cacheFaults = 0 /\ \A r \in Queries : ~ Busy(r)) =>
        \A k \in CacheKeys : entryAt[k] = NoFile \/ Readable(entryAt[k])

(* The cache serves whole answers for problems of the same key, and fails  *)
(* only for a cause (preschedule_cache.rs:35-70).                          *)
CacheIsTransparent ==
    /\ ServedIsOwn
    /\ ServedOfSameKey
    /\ FailsOnlyWhenMet
    /\ QuietEntryIsWhole
=============================================================================
