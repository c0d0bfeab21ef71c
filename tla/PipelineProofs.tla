-------------------------- MODULE PipelineProofs ---------------------------
(***************************************************************************)
(* What the modules around the runs promise.                               *)
(*                                                                         *)
(* Publication.tla, for any publishers, files, size of a batch, number of  *)
(* retries and of faults: the reports are honest, the entries of the       *)
(* workspace have their types, and every step of the server is one that    *)
(* Membership.tla allows.  The inductive invariant PubInv ties the         *)
(* counters of a request to the items it has served, those of a publisher  *)
(* to the batches that are over, and what the requests created, a set of   *)
(* (sending, number) pairs, to the entries of the workspace.               *)
(*                                                                         *)
(* WorkspaceViews.tla, for any list of schedules and manifests of which    *)
(* the first is the schedule of a run: the views of a workspace agree with *)
(* the run and with each other.                                            *)
(*                                                                         *)
(* SweepExpansion.tla, for any specification and                           *)
(* horizon: a sweep runs what was asked for, each thing once.              *)
(*                                                                         *)
(* RegistryQueries.tla, for any registry, options and weights, whichever   *)
(* metrics are missing and whichever keys start alike: listings, rankings, *)
(* fronts and exports do not contradict each other.                        *)
(*                                                                         *)
(* Laboratory.tla, for any number of datasets, configs, sweeps, cells,     *)
(* threads, edits and faults: what the registry links stays linked to a    *)
(* body of its own dataset, nothing stored is lost, and a record names the *)
(* sweep, cell and identity it was written for.                            *)
(*                                                                         *)
(* The pipeline: its parts never disturb each other.                       *)
(***************************************************************************)
EXTENDS PipelineProperties, FiniteLemmas, SequenceTheorems

Files == [kind : Kinds, bytes : STRING]
-----------------------------------------------------------------------------
(* The files that are kept, in their order *)

(* The elements of a finite set of numbers can be counted off.             *)
LEMMA NthIsThere ==
  ASSUME NEW S \in SUBSET Nat, IsFiniteSet(S), NEW n \in 1 .. Cardinality(S)
  PROVE  /\ Nth(S, n) \in S
         /\ Cardinality({j \in S : j < Nth(S, n)}) = n - 1
<1> DEFINE R == {p \in S \X S : p[1] < p[2]}
<1>1. StrictTotalOrder(S, R)
  <2>1. S \subseteq Int /\ \A i, j \in S : <<i, j>> \in R <=> i < j
    OBVIOUS
  <2> HIDE DEF R
  <2> QED BY <2>1 DEF StrictTotalOrder
<1>2. \A i \in S : Preceding(S, R, i) = {j \in S : j < i}
  BY DEF Preceding
<1>3. n - 1 \in 0 .. Cardinality(S) - 1
  BY FS_CardinalityType
<1> HIDE DEF R
<1>4. \E i \in S : Cardinality({j \in S : j < i}) = n - 1
  <2>1. PICK i \in S : Cardinality(Preceding(S, R, i)) = n - 1
    BY <1>1, <1>3, RankIsTaken
  <2> QED BY <1>2, <2>1
<1> DEFINE IsNth(k) == Cardinality({j \in S : j < k}) = n - 1
<1>5. Nth(S, n) = CHOOSE k \in S : IsNth(k)
  BY DEF Nth
<1>6. \E k \in S : IsNth(k)
  BY <1>4
<1>7. Nth(S, n) \in S /\ IsNth(Nth(S, n))
  <2> HIDE DEF IsNth
  <2> QED BY <1>5, <1>6
<1> QED BY <1>7

(* The files of a publisher that are kept are schedules, and they are      *)
(* found in its directory.                                                 *)
LEMMA FilesAreKept ==
  ASSUME NEW p \in Publishers
  PROVE  /\ KeptFiles(p) \in SUBSET Nat
         /\ IsFiniteSet(KeptFiles(p))
         /\ \A i \in KeptFiles(p) : FilesOf[p][i] \in Files /\ FilesOf[p][i].kind # "other"
<1>1. FilesOf[p] \in Seq(Files)
  BY PublicationConstants DEF Files
<1>2. DOMAIN FilesOf[p] = 1 .. Len(FilesOf[p]) /\ Len(FilesOf[p]) \in Nat
  BY <1>1
<1>3. \A i \in DOMAIN FilesOf[p] : FilesOf[p][i] \in Files
  BY <1>1
<1>4. IsFiniteSet(1 .. Len(FilesOf[p]))
  BY <1>2, FS_Interval
<1>5. KeptFiles(p) \in SUBSET (1 .. Len(FilesOf[p]))
  BY <1>2 DEF KeptFiles
<1> QED BY <1>2, <1>3, <1>4, <1>5, FS_Subset DEF KeptFiles, IsSchedule

(* What is collected is a sequence of schedules.                           *)
LEMMA CollectedIs ==
  ASSUME NEW p \in Publishers
  PROVE  /\ Total(p) \in Nat
         /\ Collected(p) \in Seq(Files)
         /\ DOMAIN Collected(p) = 1 .. Total(p)
         /\ \A i \in 1 .. Total(p) : Collected(p)[i] \in Files /\ Collected(p)[i].kind # "other"
<1> DEFINE K == KeptFiles(p)
           size == Cardinality(K)
<1>1. size \in Nat
  BY FilesAreKept, FS_CardinalityType
<1>2. \A n \in 1 .. size : Nth(K, n) \in K
  BY FilesAreKept, NthIsThere
<1>3. \A n \in 1 .. size : /\ FilesOf[p][Nth(K, n)] \in Files
                           /\ FilesOf[p][Nth(K, n)].kind # "other"
  BY <1>2, FilesAreKept
<1>4. Collected(p) = [n \in 1 .. size |-> FilesOf[p][Nth(K, n)]]
  BY DEF Collected
<1> HIDE DEF K, size
<1>5. Collected(p) \in [1 .. size -> Files]
  BY <1>3, <1>4
<1>6. Collected(p) \in Seq(Files)
  BY <1>1, <1>5
<1>7. Total(p) = size
  BY <1>1, <1>5, <1>6 DEF Total
<1> QED BY <1>1, <1>3, <1>4, <1>5, <1>6, <1>7
-----------------------------------------------------------------------------
(* The batches *)

(* Where a batch starts and ends in what was collected.                    *)
LEMMA BatchIs ==
  ASSUME NEW p \in Publishers, NEW n \in 1 .. Chunks(p)
  PROVE  /\ Chunks(p) \in Nat
         /\ (n - 1) * ChunkSize \in Nat
         /\ (n - 1) * ChunkSize < Total(p)
         /\ Chunk(p, n) \in Seq(Files)
         /\ Len(Chunk(p, n)) \in Nat \ {0}
         /\ n < Chunks(p) => Len(Chunk(p, n)) = ChunkSize
         /\ n = Chunks(p) => (n - 1) * ChunkSize + Len(Chunk(p, n)) = Total(p)
         /\ \A k \in 1 .. Len(Chunk(p, n)) :
              /\ (n - 1) * ChunkSize + k \in 1 .. Total(p)
              /\ Chunk(p, n)[k] = Collected(p)[(n - 1) * ChunkSize + k]
<1> DEFINE first == (n - 1) * ChunkSize + 1
           last == IF n * ChunkSize < Total(p) THEN n * ChunkSize ELSE Total(p)
<1>1. ChunkSize \in Nat \ {0} /\ Total(p) \in Nat
  BY PublicationConstants, CollectedIs
<1>2. Chunks(p) \in Nat
  BY <1>1 DEF Chunks
<1>3. (n - 1) * ChunkSize \in Nat /\ n * ChunkSize = (n - 1) * ChunkSize + ChunkSize
  BY <1>1, <1>2
<1>4. n * ChunkSize <= Total(p) + ChunkSize - 1
  BY <1>1, <1>2 DEF Chunks
<1>5. (n - 1) * ChunkSize < Total(p)
  BY <1>1, <1>2, <1>3, <1>4
<1>6. n < Chunks(p) => n * ChunkSize < Total(p)
  <2> SUFFICES ASSUME n < Chunks(p) PROVE n * ChunkSize < Total(p)
    OBVIOUS
  <2>1. (n + 1) * ChunkSize <= Total(p) + ChunkSize - 1
    BY <1>1, <1>2 DEF Chunks
  <2>2. (n + 1) * ChunkSize = n * ChunkSize + ChunkSize /\ n * ChunkSize \in Nat
    BY <1>1, <1>2
  <2> QED BY <2>1, <2>2, <1>1
<1>7. n = Chunks(p) => Total(p) <= n * ChunkSize
  BY <1>1, <1>2 DEF Chunks
<1>8. /\ first \in 1 .. Total(p) /\ last \in first .. Total(p)
      /\ Chunk(p, n) = SubSeq(Collected(p), first, last)
  BY <1>1, <1>3, <1>5 DEF Chunk
<1>9. \A i \in first .. last : Collected(p)[i] \in Files
  BY <1>1, <1>8, CollectedIs
<1>10. /\ Chunk(p, n) \in Seq(Files)
       /\ Len(Chunk(p, n)) = last - first + 1
       /\ \A k \in 1 .. last - first + 1 : Chunk(p, n)[k] = Collected(p)[first + k - 1]
  <2> HIDE DEF first, last
  <2> first \in Int /\ last \in Int /\ first <= last
    BY <1>1, <1>8
  <2> QED BY <1>8, <1>9, SubSeqProperties
<1>11. \A k \in 1 .. Len(Chunk(p, n)) : first + k - 1 = (n - 1) * ChunkSize + k
  BY <1>3, <1>10, <1>8
<1>12. last - first + 1 \in Nat \ {0}
  BY <1>1, <1>8
<1>13. n < Chunks(p) => last - first + 1 = ChunkSize
  BY <1>1, <1>3, <1>6
<1>14. n = Chunks(p) => (n - 1) * ChunkSize + (last - first + 1) = Total(p)
  BY <1>1, <1>3, <1>7
<1>15. \A k \in 1 .. last - first + 1 : first + k - 1 \in 1 .. Total(p)
  <2> HIDE DEF first, last
  <2>1. first \in Int /\ last \in Int /\ 1 <= first /\ last <= Total(p)
    BY <1>1, <1>8
  <2> QED BY <1>1, <2>1
<1> HIDE DEF first, last
<1> QED BY <1>2, <1>3, <1>5, <1>10, <1>11, <1>12, <1>13, <1>14, <1>15

(* Every schedule that was collected is in some batch.                     *)
LEMMA BatchesCover ==
  ASSUME NEW p \in Publishers, NEW i \in 1 .. Total(p)
  PROVE  \E n \in 1 .. Chunks(p) : \E k \in 1 .. Len(Chunk(p, n)) : Collected(p)[i] = Chunk(p, n)[k]
<1> DEFINE n == (i - 1) \div ChunkSize + 1
           k == i - (n - 1) * ChunkSize
<1>1. ChunkSize \in Nat \ {0} /\ Total(p) \in Nat
  BY PublicationConstants, CollectedIs
<1>2. /\ (i - 1) \div ChunkSize \in Nat
      /\ ((i - 1) \div ChunkSize) * ChunkSize <= i - 1
      /\ i - 1 < ((i - 1) \div ChunkSize) * ChunkSize + ChunkSize
  BY <1>1
<1>3. n \in Nat \ {0} /\ (n - 1) * ChunkSize \in Nat /\ k \in 1 .. ChunkSize
  BY <1>1, <1>2
<1>4. n * ChunkSize = (n - 1) * ChunkSize + ChunkSize
  BY <1>1, <1>3
<1> HIDE DEF n
<1>5. n <= Chunks(p)
  <2>1. n * ChunkSize <= Total(p) + ChunkSize - 1
    BY <1>1, <1>3, <1>4
  <2> QED BY <2>1, <1>1, <1>3 DEF Chunks
<1>6. n \in 1 .. Chunks(p)
  BY <1>5, <1>3, <1>1 DEF Chunks
<1>7. k \in 1 .. Len(Chunk(p, n))
  BY <1>1, <1>3, <1>6, BatchIs
<1>8. Chunk(p, n)[k] = Collected(p)[(n - 1) * ChunkSize + k] /\ (n - 1) * ChunkSize + k = i
  BY <1>1, <1>3, <1>6, <1>7, BatchIs
<1> QED BY <1>6, <1>7, <1>8
-----------------------------------------------------------------------------
(* The inductive invariant *)

Requests ==
    [at : {"unsent", "serving", "answered", "cut"},
     next : Nat, created : Nat, deduped : Nat, failed : Nat]
Clients ==
    [at : {"start", "collect", "send", "wait"} \cup Exits,
     chunk : Nat, attempt : Nat, created : Nat, deduped : Nat, failed : Nat]

Types ==
    /\ opened \in BOOLEAN
    /\ request \in [Sendings -> Requests]
    /\ client \in [Publishers -> Clients]

(* A schedule with its metrics that the workspace holds. *)
Sound(f) == f.kind = "schedule" /\ HasKey(f.bytes)

(* A request counts the items it has served; if none failed the workspace  *)
(* holds them.                                                             *)
RequestCounts(r) ==
    /\ request[r].next \in 1 .. Len(Items(r)) + 1
    /\ request[r].next - 1 = request[r].created + request[r].deduped + request[r].failed
    /\ request[r].at = "answered" => request[r].next = Len(Items(r)) + 1
    /\ request[r].failed = 0 => \A k \in 1 .. request[r].next - 1 : Sound(Items(r)[k])

(* The batches of a publisher that are over. *)
Over(p, c) == {n \in 1 .. Chunks(p) : n < c.chunk \/ c.at \in {"success", "failure"}}

(* A publisher counts the schedules of the batches that are over. *)
ClientCounts(p) ==
    /\ client[p].at \in {"start", "collect", "error"} =>
         /\ client[p].chunk = 1 /\ client[p].attempt = 0
         /\ client[p].created = 0 /\ client[p].deduped = 0 /\ client[p].failed = 0
    /\ client[p].at \in {"send", "wait"} =>
         /\ client[p].chunk \in 1 .. Chunks(p)
         /\ client[p].attempt \in 0 .. Retries
         /\ client[p].created + client[p].deduped + client[p].failed
              = (client[p].chunk - 1) * ChunkSize
    /\ client[p].at \in {"success", "failure"} =>
         client[p].created + client[p].deduped + client[p].failed = Total(p)
    /\ client[p].at = "success" => client[p].failed = 0
    /\ client[p].failed = 0 =>
         \A n \in Over(p, client[p]) : \A k \in 1 .. Len(Chunk(p, n)) : Sound(Chunk(p, n)[k])

(* An entry has the key of a schedule that was found, and one key is that  *)
(* of one entry.                                                           *)
EntriesAre ==
    /\ IsFiniteSet(entries)
    /\ entries \subseteq [key : FoundKeys, manifest : 1 .. Cardinality(entries)]
    /\ \A e, d \in entries : e.key = d.key => e = d

(* What requests created: the n-th creation of each sending. *)
CreatedBy(req) == {a \in Sendings \X Nat : a[2] \in 1 .. req[a[1]].created}
CreatedFor(req, p, batches) == {a \in CreatedBy(req) : a[1][1] = p /\ a[1][2] \in batches}

(* Every creation left an entry of its own, and so may a refusal; a        *)
(* publisher counts creations of the batches that are over, each of them   *)
(* once.                                                                   *)
CreationsAreCounted ==
    /\ IsFiniteSet(CreatedBy(request))
    /\ Cardinality(CreatedBy(request)) <= Cardinality(entries)
    /\ \A p \in Publishers :
         client[p].created <= Cardinality(CreatedFor(request, p, Over(p, client[p])))

PubInv ==
    /\ Types
    /\ EntriesAre
    /\ \A r \in Sendings : RequestCounts(r)
    /\ \A p \in Publishers : ClientCounts(p)
    /\ CreationsAreCounted
-----------------------------------------------------------------------------
(* Sendings, and what the requests created *)

(* A sending carries a batch of its publisher.                             *)
LEMMA SendingsAre ==
  ASSUME NEW r \in Sendings
  PROVE  /\ r[1] \in Publishers /\ r[2] \in 1 .. Chunks(r[1]) /\ r[3] \in 0 .. Retries
         /\ r = <<r[1], r[2], r[3]>>
         /\ Items(r) = Chunk(r[1], r[2])
<1>1. PICK p \in Publishers : r \in {p} \X (1 .. Chunks(p)) \X (0 .. Retries)
  BY DEF Sendings
<1>2. r[1] = p /\ r[2] \in 1 .. Chunks(p) /\ r[3] \in 0 .. Retries /\ r = <<r[1], r[2], r[3]>>
  BY <1>1
<1> QED BY <1>2 DEF Items

LEMMA SendingIs ==
  ASSUME NEW p \in Publishers,
         client[p].chunk \in 1 .. Chunks(p), client[p].attempt \in 0 .. Retries
  PROVE  /\ Sending(p) \in Sendings
         /\ Sending(p)[1] = p /\ Sending(p)[2] = client[p].chunk
         /\ Items(Sending(p)) = Chunk(p, client[p].chunk)
<1>1. Sending(p) \in {p} \X (1 .. Chunks(p)) \X (0 .. Retries)
  BY DEF Sending
<1>2. {p} \X (1 .. Chunks(p)) \X (0 .. Retries)
        \in {{x} \X (1 .. Chunks(x)) \X (0 .. Retries) : x \in Publishers}
  OBVIOUS
<1> QED BY <1>1, <1>2 DEF Sending, Sendings, Items

(* An item is a schedule that a publisher found.                           *)
LEMMA ItemsAreFound ==
  ASSUME NEW r \in Sendings, NEW k \in 1 .. Len(Items(r))
  PROVE  /\ Items(r)[k] \in Files /\ Items(r)[k].kind \in {"schedule", "unmeasured"}
         /\ Items(r)[k].bytes \in FoundKeys
<1> DEFINE p == r[1]
           i == (r[2] - 1) * ChunkSize + k
<1>1. p \in Publishers /\ r[2] \in 1 .. Chunks(p) /\ Items(r) = Chunk(p, r[2])
  BY SendingsAre
<1>2. i \in 1 .. Total(p) /\ Items(r)[k] = Collected(p)[i]
  BY <1>1, BatchIs
<1> HIDE DEF p, i
<1>3. /\ Collected(p)[i] \in Files /\ Collected(p)[i].kind # "other"
      /\ DOMAIN Collected(p) = 1 .. Total(p)
  BY <1>1, <1>2, CollectedIs
<1>4. Collected(p)[i] \in ToSet(Collected(p))
  BY <1>2, <1>3 DEF ToSet
<1>5. Collected(p)[i].bytes \in FoundKeys
  <2>1. Collected(p)[i] \in UNION {ToSet(Collected(x)) : x \in Publishers}
    BY <1>1, <1>4
  <2> QED BY <2>1 DEF FoundKeys
<1> QED BY <1>2, <1>3, <1>5 DEF Files, Kinds

LEMMA SameCreations ==
  ASSUME NEW q, NEW q2, \A r \in Sendings : q2[r].created = q[r].created
  PROVE  CreatedBy(q2) = CreatedBy(q)
<1> DEFINE A == Sendings \X Nat
<1>1. \A a \in A : a[1] \in Sendings
  OBVIOUS
<1> HIDE DEF A
<1> QED BY <1>1 DEF CreatedBy, A

(* More creations in more batches are not fewer.                           *)
LEMMA MoreAreCounted ==
  ASSUME NEW q, NEW q2, NEW p, NEW over, NEW over2,
         IsFiniteSet(CreatedBy(q2)), CreatedBy(q) \subseteq CreatedBy(q2), over \subseteq over2
  PROVE  /\ Cardinality(CreatedFor(q, p, over)) \in Nat
         /\ Cardinality(CreatedFor(q2, p, over2)) \in Nat
         /\ Cardinality(CreatedFor(q, p, over)) <= Cardinality(CreatedFor(q2, p, over2))
<1>1. CreatedFor(q, p, over) \in SUBSET CreatedFor(q2, p, over2)
  BY DEF CreatedFor
<1>2. CreatedFor(q2, p, over2) \in SUBSET CreatedBy(q2)
  BY DEF CreatedFor
<1>3. IsFiniteSet(CreatedFor(q2, p, over2))
  BY <1>2, FS_Subset
<1> QED BY <1>1, <1>3, FS_Subset, FS_CardinalityType

(* The batch that has just ended brings what its sending created.          *)
LEMMA BatchIsCounted ==
  ASSUME NEW q, NEW p, NEW over, NEW over2, NEW r \in Sendings,
         IsFiniteSet(CreatedBy(q)), q[r].created \in Nat,
         r[1] = p, r[2] \notin over, r[2] \in over2, over \subseteq over2
  PROVE  Cardinality(CreatedFor(q, p, over)) + q[r].created
           <= Cardinality(CreatedFor(q, p, over2))
<1> DEFINE old == CreatedFor(q, p, over)
           all == CreatedFor(q, p, over2)
           n == q[r].created
           own == {r} \X (1 .. n)
<1>1. old \subseteq all /\ all \subseteq CreatedBy(q)
  BY DEF CreatedFor
<1>2. own \subseteq all
  <2> SUFFICES ASSUME NEW a \in own PROVE a \in all
    OBVIOUS
  <2>1. a = <<r, a[2]>> /\ a[2] \in 1 .. n /\ a[1] = r
    OBVIOUS
  <2>2. a \in CreatedBy(q)
    <3>1. a \in Sendings \X Nat
      BY <2>1
    <3> QED BY <3>1, <2>1 DEF CreatedBy
  <2> QED BY <2>1, <2>2 DEF CreatedFor
<1>3. old \cap own = {}
  BY DEF CreatedFor
<1>4. IsFiniteSet(all) /\ IsFiniteSet(old) /\ IsFiniteSet(own)
  <2> HIDE DEF all, old, own
  <2> QED BY <1>1, <1>2, FS_Subset
<1>5. Cardinality(own) = n
  <2>1. IsFiniteSet({r}) /\ Cardinality({r}) = 1
    BY FS_Singleton
  <2> HIDE DEF n
  <2>2. 1 \in Int /\ n \in Int /\ n \in Nat
    BY DEF n
  <2>3. IsFiniteSet(1 .. n) /\ Cardinality(1 .. n) = IF 1 > n THEN 0 ELSE n - 1 + 1
    BY ONLY <2>2, FS_Interval
  <2>4. Cardinality(own) = Cardinality({r}) * Cardinality(1 .. n)
    BY <2>1, <2>3, FS_Product
  <2> QED BY <2>1, <2>2, <2>3, <2>4
<1>6. Cardinality(old \cup own) = Cardinality(old) + n
  <2> HIDE DEF old, own, n
  <2>1. Cardinality(old \cup own) = Cardinality(old) + Cardinality(own) - Cardinality(old \cap own)
    BY <1>4, FS_Union
  <2>2. Cardinality({}) = 0 /\ Cardinality(old) \in Nat /\ Cardinality(own) \in Nat
    BY <1>4, FS_EmptySet, FS_CardinalityType
  <2>3. Cardinality(old \cap own) = 0
    BY <1>3, <2>2
  <2> DEFINE c == Cardinality(old)
             d == Cardinality(own)
             e == Cardinality(old \cap own)
             u == Cardinality(old \cup own)
  <2>4. u = c + d - e /\ e = 0 /\ c \in Nat /\ d \in Nat /\ d = n
    BY <2>1, <2>2, <2>3, <1>5
  <2> HIDE DEF c, d, e, u
  <2>5. u = c + n
    BY <2>4
  <2> QED BY <2>5 DEF u, c
<1>7. Cardinality(old \cup own) <= Cardinality(all)
  <2> HIDE DEF all, old, own
  <2> QED BY <1>1, <1>2, <1>4, FS_Subset
<1> QED BY <1>6, <1>7

(* A creation adds one to what was created.                                *)
LEMMA OneIsCreated ==
  ASSUME NEW q, NEW q2, NEW r \in Sendings,
         q[r].created \in Nat, q2[r].created = q[r].created + 1,
         \A r2 \in Sendings \ {r} : q2[r2].created = q[r2].created
  PROVE  /\ CreatedBy(q2) = CreatedBy(q) \cup {<<r, q[r].created + 1>>}
         /\ <<r, q[r].created + 1>> \notin CreatedBy(q)
<1> DEFINE n == q[r].created
           A == Sendings \X Nat
<1>1. <<r, n + 1>> \notin CreatedBy(q)
  BY DEF CreatedBy
<1>2. <<r, n + 1>> \in CreatedBy(q2)
  <2>1. <<r, n + 1>> \in A
    OBVIOUS
  <2> QED BY <2>1 DEF CreatedBy
<1>3. ASSUME NEW a \in A, a # <<r, n + 1>>
      PROVE  a[2] \in 1 .. q2[a[1]].created <=> a[2] \in 1 .. q[a[1]].created
  <2>1. a = <<a[1], a[2]>> /\ a[1] \in Sendings /\ a[2] \in Nat
    OBVIOUS
  <2>2. CASE a[1] # r
    BY <2>1, <2>2
  <2>3. CASE a[1] = r
    <3>1. a[2] # n + 1
      BY <2>1, <2>3, <1>3
    <3>2. n \in Nat /\ q2[a[1]].created = n + 1 /\ q[a[1]].created = n
      BY <2>3
    <3> HIDE DEF n
    <3> QED BY <2>1, <3>1, <3>2
  <2> QED BY <2>2, <2>3
<1>4. \A a \in A : a # <<r, n + 1>> => (a \in CreatedBy(q2) <=> a \in CreatedBy(q))
  BY <1>3 DEF CreatedBy
<1>5. CreatedBy(q) \subseteq A /\ CreatedBy(q2) \subseteq A
  BY DEF CreatedBy
<1> HIDE DEF A
<1> QED BY <1>1, <1>2, <1>4, <1>5
-----------------------------------------------------------------------------
(* What a step leaves alone *)

LEMMA StillSound ==
  ASSUME NEW f, entries \subseteq entries', Sound(f)
  PROVE  Sound(f)'
BY DEF Sound, HasKey

LEMMA RequestStays ==
  ASSUME NEW r \in Sendings, RequestCounts(r), entries \subseteq entries',
         request'[r].next = request[r].next, request'[r].created = request[r].created,
         request'[r].deduped = request[r].deduped, request'[r].failed = request[r].failed,
         request'[r].at = "answered" => request[r].at = "answered"
  PROVE  RequestCounts(r)'
<1>1. \A f : Sound(f) => Sound(f)'
  BY StillSound
<1> QED BY <1>1 DEF RequestCounts

LEMMA ClientStays ==
  ASSUME NEW p \in Publishers, ClientCounts(p), entries \subseteq entries',
         client'[p] = client[p]
  PROVE  ClientCounts(p)'
<1>1. \A f : Sound(f) => Sound(f)'
  BY StillSound
<1> QED BY <1>1 DEF ClientCounts

LEMMA EntriesStay ==
  ASSUME EntriesAre, entries' = entries
  PROVE  EntriesAre'
BY DEF EntriesAre

(* A step of one publisher keeps the invariant if its own counters do.     *)
LEMMA ClientMoves ==
  ASSUME PubInv, NEW p \in Publishers, NEW c \in Clients,
         opened' \in BOOLEAN, entries' = entries,
         request' \in [Sendings -> Requests],
         \A r \in Sendings :
            /\ request'[r].next = request[r].next /\ request'[r].created = request[r].created
            /\ request'[r].deduped = request[r].deduped /\ request'[r].failed = request[r].failed
            /\ request'[r].at = "answered" => request[r].at = "answered",
         client' = [client EXCEPT ![p] = c], ClientCounts(p)',
         c.created <= Cardinality(CreatedFor(request, p, Over(p, c)))
  PROVE  PubInv'
<1>1. client'[p] = c /\ \A q \in Publishers \ {p} : client'[q] = client[q]
  BY DEF PubInv, Types
<1>2. Types'
  BY DEF PubInv, Types
<1>3. EntriesAre'
  BY EntriesStay DEF PubInv
<1>4. \A r \in Sendings : RequestCounts(r)'
  BY RequestStays DEF PubInv
<1>5. \A q \in Publishers : ClientCounts(q)'
  BY <1>1, ClientStays DEF PubInv
<1>6. CreatedBy(request') = CreatedBy(request)
  <2> DEFINE q2 == request'
  <2>1. \A r \in Sendings : q2[r].created = request[r].created
    OBVIOUS
  <2> HIDE DEF q2
  <2>2. CreatedBy(q2) = CreatedBy(request)
    BY <2>1, SameCreations
  <2> QED BY <2>2 DEF q2
<1>7. \A q, over : CreatedFor(request', q, over) = CreatedFor(request, q, over)
  BY <1>6 DEF CreatedFor
<1>8. CreationsAreCounted'
  <2>1. ASSUME NEW q \in Publishers
        PROVE  client'[q].created <= Cardinality(CreatedFor(request', q, Over(q, client'[q])))
    <3>1. CASE q = p
      BY <3>1, <1>1, <1>7
    <3>2. CASE q # p
      BY <3>2, <1>1, <1>7 DEF PubInv, CreationsAreCounted
    <3> QED BY <3>1, <3>2
  <2> QED BY <2>1, <1>6 DEF PubInv, CreationsAreCounted
<1> QED BY <1>2, <1>3, <1>4, <1>5, <1>8 DEF PubInv
-----------------------------------------------------------------------------
(* The steps of a publisher *)

(* A step that neither counts nor ends a batch.                            *)
LEMMA SameBatch ==
  ASSUME PubInv, NEW p \in Publishers, NEW c \in Clients,
         c.created = client[p].created, c.chunk = client[p].chunk,
         {c.at, client[p].at} \cap {"success", "failure"} = {}
  PROVE  c.created <= Cardinality(CreatedFor(request, p, Over(p, c)))
<1>1. Over(p, c) = Over(p, client[p])
  BY DEF Over
<1> QED BY <1>1 DEF PubInv, CreationsAreCounted

LEMMA CreateWorkspaceKeeps ==
  ASSUME PubInv, NEW p \in Publishers, CreateWorkspace(p)
  PROVE  PubInv'
<1>1. PICK at \in {"collect", "error"} : client' = [client EXCEPT ![p].at = at]
  BY DEF CreateWorkspace
<1> DEFINE c == [client[p] EXCEPT !.at = at]
<1>2. client[p] \in Clients /\ client[p].at = "start"
  BY DEF PubInv, Types, CreateWorkspace, At
<1>3. c \in Clients /\ client' = [client EXCEPT ![p] = c] /\ client'[p] = c
  BY <1>1, <1>2 DEF Clients, Exits, PubInv, Types
<1>4. /\ c.at = at /\ c.chunk = client[p].chunk /\ c.attempt = client[p].attempt
      /\ c.created = client[p].created /\ c.deduped = client[p].deduped
      /\ c.failed = client[p].failed
  BY <1>2 DEF Clients
<1>5. opened' \in BOOLEAN /\ entries' = entries /\ request' = request
  BY DEF CreateWorkspace, PubInv, Types
<1> HIDE DEF c
<1>6. ClientCounts(p)'
  <2>1. Over(p, c) = Over(p, client[p])
    BY <1>2, <1>4 DEF Over
  <2>2. \A f : Sound(f) => Sound(f)'
    BY <1>5, StillSound
  <2>3. ClientCounts(p)
    BY DEF PubInv
  <2> QED BY <1>2, <1>3, <1>4, <2>1, <2>2, <2>3 DEF ClientCounts
<1>7. c.created <= Cardinality(CreatedFor(request, p, Over(p, c)))
  BY <1>2, <1>3, <1>4, SameBatch
<1>8. request' \in [Sendings -> Requests]
  BY <1>5 DEF PubInv, Types
<1> QED BY <1>3, <1>5, <1>6, <1>7, <1>8, ClientMoves

LEMMA CollectKeeps ==
  ASSUME PubInv, NEW p \in Publishers, Collect(p)
  PROVE  PubInv'
<1> DEFINE at == IF Total(p) = 0 THEN "error" ELSE "send"
           c == [client[p] EXCEPT !.at = at]
<1>1. client[p] \in Clients /\ client[p].at = "collect"
  BY DEF PubInv, Types, Collect, At
<1>2. c \in Clients /\ client' = [client EXCEPT ![p] = c] /\ client'[p] = c
  BY <1>1 DEF Clients, Exits, PubInv, Types, Collect
<1>3. /\ c.at = at /\ c.chunk = client[p].chunk /\ c.attempt = client[p].attempt
      /\ c.created = client[p].created /\ c.deduped = client[p].deduped
      /\ c.failed = client[p].failed
  BY <1>1 DEF Clients
<1>4. opened' \in BOOLEAN /\ entries' = entries /\ request' = request
  BY DEF Collect, PubInv, Types
<1>5. ClientCounts(p)
  BY DEF PubInv
<1>6. /\ c.at \in {"error", "send"} /\ c.chunk = 1 /\ c.attempt = 0
      /\ c.created = 0 /\ c.deduped = 0 /\ c.failed = 0
  BY <1>1, <1>3, <1>5 DEF ClientCounts
<1>7. c.at = "send" => Total(p) \in Nat \ {0}
  BY <1>3, CollectedIs
<1> HIDE DEF c
<1>8. ClientCounts(p)'
  <2>1. c.at = "send" => 1 \in 1 .. Chunks(p) /\ 0 \in 0 .. Retries /\ (1 - 1) * ChunkSize = 0
    <3> SUFFICES ASSUME c.at = "send"
                 PROVE  1 \in 1 .. Chunks(p) /\ 0 \in 0 .. Retries /\ (1 - 1) * ChunkSize = 0
      OBVIOUS
    <3>1. Total(p) \in Nat \ {0} /\ ChunkSize \in Nat \ {0} /\ Retries \in Nat
      BY <1>7, PublicationConstants
    <3>2. (Total(p) + ChunkSize - 1) \div ChunkSize >= 1
      BY <3>1
    <3> QED BY <3>1, <3>2 DEF Chunks
  <2>2. Over(p, c) = Over(p, client[p])
    BY <1>1, <1>3, <1>6 DEF Over
  <2>3. \A f : Sound(f) => Sound(f)'
    BY <1>4, StillSound
  <2>4. c.failed = 0 =>
          \A n \in Over(p, c) : \A k \in 1 .. Len(Chunk(p, n)) : Sound(Chunk(p, n)[k])'
    BY <1>3, <1>5, <2>2, <2>3 DEF ClientCounts
  <2> QED BY <1>2, <1>6, <2>1, <2>4 DEF ClientCounts
<1>9. c.created <= Cardinality(CreatedFor(request, p, Over(p, c)))
  BY <1>1, <1>2, <1>3, <1>6, SameBatch
<1>10. request' \in [Sendings -> Requests]
  BY <1>4 DEF PubInv, Types
<1> QED BY <1>2, <1>4, <1>8, <1>9, <1>10, ClientMoves

LEMMA SendKeeps ==
  ASSUME PubInv, NEW p \in Publishers, Send(p)
  PROVE  PubInv'
<1> DEFINE c == [client[p] EXCEPT !.at = "wait"]
<1>1. client[p] \in Clients /\ client[p].at = "send"
  BY DEF PubInv, Types, Send, At
<1>2. c \in Clients /\ client' = [client EXCEPT ![p] = c] /\ client'[p] = c
  BY <1>1 DEF Clients, Exits, PubInv, Types, Send
<1>3. /\ c.at = "wait" /\ c.chunk = client[p].chunk /\ c.attempt = client[p].attempt
      /\ c.created = client[p].created /\ c.deduped = client[p].deduped
      /\ c.failed = client[p].failed
  BY <1>1 DEF Clients
<1>4. opened' \in BOOLEAN /\ entries' = entries
  BY DEF Send, PubInv, Types
<1>5. ClientCounts(p)
  BY DEF PubInv
<1> HIDE DEF c
<1>6. ClientCounts(p)'
  <2>1. Over(p, c) = Over(p, client[p])
    BY <1>1, <1>3 DEF Over
  <2>2. \A f : Sound(f) => Sound(f)'
    BY <1>4, StillSound
  <2> QED BY <1>1, <1>2, <1>3, <1>5, <2>1, <2>2 DEF ClientCounts
<1>7. c.created <= Cardinality(CreatedFor(request, p, Over(p, c)))
  BY <1>1, <1>2, <1>3, SameBatch
<1>8. /\ request' \in [Sendings -> Requests]
      /\ \A r \in Sendings :
           /\ request'[r].next = request[r].next /\ request'[r].created = request[r].created
           /\ request'[r].deduped = request[r].deduped /\ request'[r].failed = request[r].failed
           /\ request'[r].at = "answered" => request[r].at = "answered"
  <2>1. request \in [Sendings -> Requests]
    BY DEF PubInv, Types
  <2>2. CASE request' = request
    BY <2>1, <2>2
  <2>3. CASE request' = [request EXCEPT ![Sending(p)].at = "serving"]
    <3>1. Sending(p) \in Sendings
      BY <1>1, <1>5, SendingIs DEF ClientCounts
    <3>2. request[Sending(p)] \in Requests
      BY <2>1, <3>1
    <3> QED BY <2>1, <2>3, <3>1, <3>2 DEF Requests
  <2> QED BY <2>2, <2>3 DEF Send
<1> QED BY <1>2, <1>4, <1>6, <1>7, <1>8, ClientMoves

(* A batch is over: its items are counted, each of them once.              *)
LEMMA CountingKeeps ==
  ASSUME PubInv, NEW p \in Publishers, client[p].at = "wait",
         NEW c \in Nat, NEW d \in Nat, NEW f \in Nat,
         c + d + f = Len(Items(Sending(p))),
         f = 0 => \A k \in 1 .. Len(Items(Sending(p))) : Sound(Items(Sending(p))[k]),
         c <= request[Sending(p)].created,
         Counting(p, c, d, f), UNCHANGED <<opened, entries, request>>
  PROVE  PubInv'
<1> DEFINE b == client[p]
           n == b.chunk
           last == n = Chunks(p)
           failed == b.failed + f
           at == IF ~ last THEN "send" ELSE IF failed > 0 THEN "failure" ELSE "success"
           to == IF last THEN n ELSE n + 1
           e == [at |-> at, chunk |-> to, attempt |-> 0,
                 created |-> b.created + c, deduped |-> b.deduped + d, failed |-> failed]
<1>1. b \in Clients /\ ClientCounts(p) /\ b.at = "wait"
  BY DEF PubInv, Types
<1>a. /\ n \in Nat /\ b.created \in Nat /\ b.deduped \in Nat /\ b.failed \in Nat
      /\ failed \in Nat
  BY <1>1 DEF Clients
<1>2. /\ n \in 1 .. Chunks(p) /\ b.attempt \in 0 .. Retries
      /\ b.created + b.deduped + b.failed = (n - 1) * ChunkSize
      /\ b.failed = 0 => \A m \in Over(p, b) : \A k \in 1 .. Len(Chunk(p, m)) : Sound(Chunk(p, m)[k])
  BY <1>1 DEF ClientCounts
<1>3. client' = [client EXCEPT ![p] = e]
  BY DEF Counting
<1>4. /\ e \in Clients
      /\ e.at = at /\ e.chunk = to /\ e.attempt = 0
      /\ e.created = b.created + c /\ e.deduped = b.deduped + d /\ e.failed = failed
  <2>1. at \in {"send", "failure", "success"} /\ to \in Nat
    BY <1>a
  <2>2. b.created + c \in Nat /\ b.deduped + d \in Nat
    BY ONLY c \in Nat, d \in Nat, <1>a
  <2> HIDE DEF at, to, failed
  <2> QED BY <2>1, <2>2, <1>a DEF Clients, Exits
<1>5. client'[p] = e
  BY <1>3 DEF PubInv, Types
<1>6. /\ Sending(p) \in Sendings /\ Sending(p)[1] = p /\ Sending(p)[2] = n
      /\ Items(Sending(p)) = Chunk(p, n)
  BY <1>2, SendingIs
<1>7. /\ Chunks(p) \in Nat /\ (n - 1) * ChunkSize \in Nat
      /\ n < Chunks(p) => Len(Chunk(p, n)) = ChunkSize
      /\ n = Chunks(p) => (n - 1) * ChunkSize + Len(Chunk(p, n)) = Total(p)
  BY <1>2, BatchIs
<1>8. ((n + 1) - 1) * ChunkSize = (n - 1) * ChunkSize + ChunkSize
  <2> HIDE DEF n
  <2>1. ChunkSize \in Nat
    BY PublicationConstants
  <2> QED BY <1>a, <2>1
<1> HIDE DEF e
<1>9. Over(p, e) = Over(p, b) \cup {n} /\ n \notin Over(p, b)
  <2>1. n \notin Over(p, b)
    BY <1>1, <1>2 DEF Over, Clients
  <2>2. CASE last
    BY <2>2, <1>1, <1>2, <1>4, <1>7 DEF Over
  <2>3. CASE ~ last
    BY <2>3, <1>1, <1>2, <1>4, <1>7, SMTT(30) DEF Over
  <2> QED BY <2>1, <2>2, <2>3
<1>10. e.failed = 0 =>
         \A m \in Over(p, e) : \A k \in 1 .. Len(Chunk(p, m)) : Sound(Chunk(p, m)[k])'
  <2>1. \A x : Sound(x) => Sound(x)'
    BY StillSound
  <2>2. e.failed = 0 => b.failed = 0 /\ f = 0
    BY <1>1, <1>4, SMTT(30) DEF Clients
  <2> QED BY <2>1, <2>2, <1>2, <1>6, <1>9
<1>11. /\ e.at \in {"send", "wait"} =>
            /\ e.chunk \in 1 .. Chunks(p) /\ e.attempt \in 0 .. Retries
            /\ e.created + e.deduped + e.failed = (e.chunk - 1) * ChunkSize
       /\ e.at \in {"success", "failure"} => e.created + e.deduped + e.failed = Total(p)
       /\ e.at = "success" => e.failed = 0
       /\ e.at \notin {"start", "collect", "error"}
  <2>1. e.created + e.deduped + e.failed = (n - 1) * ChunkSize + Len(Chunk(p, n))
    <3> DEFINE len == Len(Chunk(p, n))
               before == (n - 1) * ChunkSize
    <3>1. c + d + f = len /\ before \in Nat /\ b.created + b.deduped + b.failed = before
      BY <1>2, <1>6, <1>7
    <3> HIDE DEF len, before
    <3> HIDE DEF b
    <3>2. (b.created + c) + (b.deduped + d) + (b.failed + f) = before + len
      BY ONLY <3>1, <1>a, c \in Nat, d \in Nat, f \in Nat
    <3> QED BY <3>2, <1>4 DEF len, before
  <2>2. CASE last
    <3>1. e.at \in {"failure", "success"} /\ (e.at = "success" => ~ (failed > 0))
      BY <2>2, <1>4
    <3> HIDE DEF failed
    <3> QED BY <2>1, <2>2, <3>1, <1>a, <1>4, <1>7
  <2>3. CASE ~ last
    <3>1. e.at = "send" /\ e.chunk = n + 1 /\ e.attempt = 0
      BY <2>3, <1>4
    <3>2. n + 1 \in 1 .. Chunks(p) /\ n < Chunks(p)
      BY ONLY <2>3, <1>2, <1>7, SMTT(30)
    <3>3. 0 \in 0 .. Retries
      BY PublicationConstants
    <3>4. e.created + e.deduped + e.failed = (e.chunk - 1) * ChunkSize
      BY <2>1, <3>1, <3>2, <1>7, <1>8
    <3> QED BY <3>1, <3>2, <3>3, <3>4
  <2> QED BY <2>2, <2>3
<1>12. ClientCounts(p)'
  BY <1>5, <1>10, <1>11 DEF ClientCounts
<1>13. e.created <= Cardinality(CreatedFor(request, p, Over(p, e)))
  <2>1. b.created <= Cardinality(CreatedFor(request, p, Over(p, b)))
    BY DEF PubInv, CreationsAreCounted
  <2>2. IsFiniteSet(CreatedBy(request)) /\ request[Sending(p)].created \in Nat
    BY <1>6 DEF PubInv, CreationsAreCounted, Types, Requests
  <2>3. Cardinality(CreatedFor(request, p, Over(p, b))) + request[Sending(p)].created
          <= Cardinality(CreatedFor(request, p, Over(p, e)))
    BY <1>6, <1>9, <2>2, BatchIsCounted
  <2>4. /\ Cardinality(CreatedFor(request, p, Over(p, b))) \in Nat
        /\ Cardinality(CreatedFor(request, p, Over(p, e))) \in Nat
    BY <1>9, <2>2, MoreAreCounted
  <2> DEFINE x == Cardinality(CreatedFor(request, p, Over(p, b)))
             y == Cardinality(CreatedFor(request, p, Over(p, e)))
             z == request[Sending(p)].created
  <2>5. b.created <= x /\ x + z <= y /\ c <= z /\ x \in Nat /\ y \in Nat /\ z \in Nat
    BY <2>1, <2>2, <2>3, <2>4
  <2> HIDE DEF x, y, z, b
  <2>6. b.created + c <= y
    BY <2>5, <1>a
  <2> QED BY <2>6, <1>4 DEF y
<1>14. /\ opened' \in BOOLEAN /\ entries' = entries /\ request' = request
       /\ request' \in [Sendings -> Requests]
  BY DEF PubInv, Types
<1> QED BY <1>3, <1>4, <1>12, <1>13, <1>14, ClientMoves

LEMMA AnswerKeeps ==
  ASSUME PubInv, NEW p \in Publishers, Answer(p)
  PROVE  PubInv'
<1> DEFINE s == Sending(p)
           c == request[s].created
           d == request[s].deduped
           f == request[s].failed
<1>1. /\ client[p].at = "wait" /\ request[s].at = "answered"
      /\ Counting(p, c, d, f) /\ UNCHANGED <<opened, entries, request>>
  BY DEF Answer, At
<1>2. s \in Sendings
  BY <1>1, SendingIs DEF PubInv, ClientCounts
<1>3. request[s] \in Requests /\ RequestCounts(s)
  BY <1>2 DEF PubInv, Types
<1>4. c \in Nat /\ d \in Nat /\ f \in Nat
  BY <1>3 DEF Requests
<1>5. /\ request[s].next = Len(Items(s)) + 1
      /\ c + d + f = request[s].next - 1
      /\ f = 0 => \A k \in 1 .. request[s].next - 1 : Sound(Items(s)[k])
  BY <1>1, <1>3 DEF RequestCounts
<1>6. Len(Items(s)) \in Nat
  BY <1>2, SendingsAre, BatchIs
<1> HIDE DEF s, c, d, f
<1>7. /\ c + d + f = Len(Items(s))
      /\ f = 0 => \A k \in 1 .. Len(Items(s)) : Sound(Items(s)[k])
  BY <1>5, <1>6
<1>8. c <= request[s].created
  BY <1>4 DEF c
<1> QED BY <1>1, <1>4, <1>7, <1>8, CountingKeeps DEF s

LEMMA NoAnswerKeeps ==
  ASSUME PubInv, NEW p \in Publishers, NoAnswer(p)
  PROVE  PubInv'
<1>1. /\ client[p].at = "wait" /\ GiveUp(p) /\ UNCHANGED <<opened, entries, request>>
      /\ client[p] \in Clients /\ ClientCounts(p)
  BY DEF NoAnswer, At, PubInv, Types
<1>2. client[p].chunk \in 1 .. Chunks(p) /\ client[p].attempt \in 0 .. Retries /\ Retries \in Nat
  BY <1>1, PublicationConstants DEF ClientCounts
<1>3. CASE client[p].attempt < Retries
  <2> DEFINE c == [client[p] EXCEPT !.attempt = @ + 1, !.at = "send"]
  <2>1. client' = [client EXCEPT ![p] = c] /\ client'[p] = c
    BY <1>1, <1>3 DEF GiveUp, PubInv, Types
  <2>2. /\ c \in Clients /\ c.at = "send" /\ c.attempt = client[p].attempt + 1
        /\ c.chunk = client[p].chunk /\ c.created = client[p].created
        /\ c.deduped = client[p].deduped /\ c.failed = client[p].failed
    <3>1. client[p].attempt + 1 \in Nat
      BY <1>2
    <3> DEFINE a == client[p].attempt + 1
    <3> HIDE DEF a
    <3>2. c = [client[p] EXCEPT !.attempt = a, !.at = "send"]
      BY DEF a
    <3>3. a \in Nat
      BY <3>1 DEF a
    <3> HIDE DEF c
    <3>4. /\ c \in Clients /\ c.at = "send" /\ c.attempt = a
          /\ c.chunk = client[p].chunk /\ c.created = client[p].created
          /\ c.deduped = client[p].deduped /\ c.failed = client[p].failed
      BY <1>1, <3>2, <3>3 DEF Clients
    <3> QED BY <3>4 DEF a
  <2> HIDE DEF c
  <2>3. ClientCounts(p)'
    <3>1. Over(p, c) = Over(p, client[p])
      BY <1>1, <2>2 DEF Over
    <3>2. \A f : Sound(f) => Sound(f)'
      BY <1>1, StillSound
    <3>3. c.attempt \in 0 .. Retries
      BY <1>2, <1>3, <2>2
    <3> QED BY <1>1, <2>1, <2>2, <3>1, <3>2, <3>3 DEF ClientCounts
  <2>4. c.created <= Cardinality(CreatedFor(request, p, Over(p, c)))
    BY <1>1, <2>2, SameBatch
  <2>5. /\ opened' \in BOOLEAN /\ entries' = entries /\ request' = request
        /\ request' \in [Sendings -> Requests]
    BY <1>1 DEF PubInv, Types
  <2> QED BY <2>1, <2>2, <2>3, <2>4, <2>5, ClientMoves
<1>4. CASE ~ (client[p].attempt < Retries)
  <2> DEFINE f == Len(Items(Sending(p)))
  <2>1. Sending(p) \in Sendings /\ Items(Sending(p)) = Chunk(p, client[p].chunk)
    BY <1>2, SendingIs
  <2>2. f \in Nat /\ f # 0
    BY <1>2, <2>1, BatchIs
  <2>3. Counting(p, 0, 0, f)
    BY <1>1, <1>4 DEF GiveUp
  <2>4. request[Sending(p)].created \in Nat
    BY <2>1 DEF PubInv, Types, Requests
  <2> HIDE DEF f
  <2>5. 0 + 0 + f = f /\ 0 \in Nat /\ 0 <= request[Sending(p)].created
    BY <2>2, <2>4
  <2>6. f = Len(Items(Sending(p)))
    BY DEF f
  <2> QED BY <1>1, <2>2, <2>3, <2>5, <2>6, CountingKeeps
<1> QED BY <1>3, <1>4

(* Every step of a publisher keeps the invariant.                          *)
LEMMA PublisherKeeps ==
  ASSUME PubInv, NEW p \in Publishers, ClientSteps(p)
  PROVE  PubInv'
BY CreateWorkspaceKeeps, CollectKeeps, SendKeeps, AnswerKeeps, NoAnswerKeeps DEF ClientSteps
-----------------------------------------------------------------------------
(* The steps of the server *)

(* A step that serves one sending keeps the invariant if its own counters  *)
(* do and the entries go with what was created.                            *)
LEMMA ServerMoves ==
  ASSUME PubInv, NEW r \in Sendings, NEW q \in Requests,
         request' = [request EXCEPT ![r] = q], UNCHANGED <<opened, client>>,
         RequestCounts(r)', entries \subseteq entries', EntriesAre',
         IsFiniteSet(CreatedBy(request')),
         Cardinality(CreatedBy(request')) <= Cardinality(entries'),
         CreatedBy(request) \subseteq CreatedBy(request')
  PROVE  PubInv'
<1>1. \A s \in Sendings \ {r} : request'[s] = request[s]
  BY DEF PubInv, Types
<1>2. Types'
  BY DEF PubInv, Types
<1>3. \A s \in Sendings : RequestCounts(s)'
  BY <1>1, RequestStays DEF PubInv
<1>4. \A p \in Publishers : ClientCounts(p)'
  BY ClientStays DEF PubInv
<1>5. CreationsAreCounted'
  <2> DEFINE q2 == request'
  <2>1. ASSUME NEW p \in Publishers
        PROVE  client[p].created <= Cardinality(CreatedFor(q2, p, Over(p, client[p])))
    <3> DEFINE over == Over(p, client[p])
    <3>1. IsFiniteSet(CreatedBy(q2)) /\ CreatedBy(request) \subseteq CreatedBy(q2)
      OBVIOUS
    <3>2. client[p].created \in Nat /\ client[p].created <= Cardinality(CreatedFor(request, p, over))
      BY DEF PubInv, CreationsAreCounted, Types, Clients
    <3> HIDE DEF q2, over
    <3>3. /\ Cardinality(CreatedFor(request, p, over)) \in Nat
          /\ Cardinality(CreatedFor(q2, p, over)) \in Nat
          /\ Cardinality(CreatedFor(request, p, over)) <= Cardinality(CreatedFor(q2, p, over))
      BY <3>1, MoreAreCounted
    <3>4. client[p].created <= Cardinality(CreatedFor(q2, p, over))
      BY <3>2, <3>3
    <3> QED BY <3>4 DEF over
  <2> QED BY <2>1 DEF CreationsAreCounted
<1> QED BY <1>2, <1>3, <1>4, <1>5 DEF PubInv

(* What counting an item makes of a request.                               *)
LEMMA CountIs ==
  ASSUME PubInv, NEW r \in Sendings, Serving(r),
         NEW became \in {"created", "deduped", "failed"}, Count(r, became)
  PROVE  \E q \in Requests :
           /\ request' = [request EXCEPT ![r] = q] /\ request'[r] = q
           /\ q.next = request[r].next + 1
           /\ q.at = "answered" => request[r].next = Len(Items(r))
           /\ became = "created" => q.created = request[r].created + 1
           /\ became # "created" => q.created = request[r].created
           /\ became = "deduped" => q.deduped = request[r].deduped + 1
           /\ became # "deduped" => q.deduped = request[r].deduped
           /\ became = "failed" => q.failed = request[r].failed + 1
           /\ became # "failed" => q.failed = request[r].failed
<1> DEFINE old == request[r]
           one(o) == IF became = o THEN 1 ELSE 0
           at == IF old.next = Len(Items(r)) THEN "answered" ELSE old.at
           q == [at |-> at, next |-> old.next + 1,
                 created |-> old.created + one("created"),
                 deduped |-> old.deduped + one("deduped"),
                 failed |-> old.failed + one("failed")]
<1>1. request \in [Sendings -> Requests] /\ old \in Requests /\ old.at = "serving"
  BY DEF PubInv, Types, Serving
<1>2. /\ old.next \in Nat /\ old.created \in Nat /\ old.deduped \in Nat /\ old.failed \in Nat
      /\ at \in {"serving", "answered"} /\ (at = "answered" => old.next = Len(Items(r)))
      /\ \A o : one(o) \in Nat
  BY <1>1 DEF Requests
<1>3. request' = [request EXCEPT ![r] = q]
  BY DEF Count
<1>4. q \in Requests
  <2> HIDE DEF at, one, old
  <2> QED BY <1>2, SMTT(30) DEF Requests
<1>5. /\ q.next = old.next + 1 /\ q.at = at
      /\ q.created = old.created + one("created") /\ q.deduped = old.deduped + one("deduped")
      /\ q.failed = old.failed + one("failed")
  OBVIOUS
<1> HIDE DEF q
<1>6. request'[r] = q
  BY <1>1, <1>3
<1>7. /\ became = "created" => q.created = old.created + 1
      /\ became # "created" => q.created = old.created
      /\ became = "deduped" => q.deduped = old.deduped + 1
      /\ became # "deduped" => q.deduped = old.deduped
      /\ became = "failed" => q.failed = old.failed + 1
      /\ became # "failed" => q.failed = old.failed
  <2> HIDE DEF old
  <2> QED BY <1>2, <1>5
<1> QED BY <1>2, <1>3, <1>4, <1>5, <1>6, <1>7

(* An entry with a key that nobody has.                                    *)
LEMMA EntryJoins ==
  ASSUME EntriesAre, NEW k \in FoundKeys, ~ HasKey(k),
         entries' = entries \cup {[key |-> k, manifest |-> Fresh]}
  PROVE  /\ EntriesAre' /\ entries \subseteq entries'
         /\ Cardinality(entries) \in Nat
         /\ Cardinality(entries') = Cardinality(entries) + 1
<1> DEFINE e == [key |-> k, manifest |-> Fresh]
           size == Cardinality(entries)
<1>1. entries' = entries \cup {e} /\ entries \subseteq entries'
  OBVIOUS
<1>2. e.key = k /\ e.manifest = size + 1
  BY DEF Fresh
<1>3. \A d \in entries : d.key # e.key
  BY <1>2 DEF HasKey
<1>4. /\ IsFiniteSet(entries) /\ size \in Nat /\ e \notin entries
      /\ IsFiniteSet(entries \cup {e}) /\ Cardinality(entries \cup {e}) = size + 1
  <2>1. IsFiniteSet(entries) /\ size \in Nat
    BY FS_CardinalityType DEF EntriesAre
  <2>2. e \notin entries
    BY <1>3
  <2> HIDE DEF e
  <2> QED BY <2>1, <2>2, FS_AddElement
<1>5. entries' \subseteq [key : FoundKeys, manifest : 1 .. size + 1]
  <2>1. e \in [key : FoundKeys, manifest : 1 .. size + 1]
    BY <1>4 DEF Fresh
  <2>2. \A d \in entries : d \in [key : FoundKeys, manifest : 1 .. size + 1]
    <3> HIDE DEF size
    <3>1. entries \subseteq [key : FoundKeys, manifest : 1 .. size]
      BY DEF EntriesAre, size
    <3>2. 1 .. size \subseteq 1 .. size + 1
      BY <1>4
    <3> QED BY <3>1, <3>2
  <2> HIDE DEF e
  <2> QED BY <1>1, <2>1, <2>2
<1>6. \A c, d \in entries' : c.key = d.key => c = d
  <2> HIDE DEF e
  <2> QED BY <1>1, <1>3 DEF EntriesAre
<1>7. Cardinality(entries') = size + 1 /\ IsFiniteSet(entries')
  BY <1>1, <1>4
<1>8. EntriesAre'
  <2> HIDE DEF size
  <2> QED BY <1>5, <1>6, <1>7 DEF EntriesAre
<1> HIDE DEF e
<1> QED BY <1>1, <1>4, <1>7, <1>8

(* An item that fails, whether or not it leaves its entry.                 *)
LEMMA FailureKeeps ==
  ASSUME PubInv, NEW r \in Sendings, Serving(r), Count(r, "failed"),
         UNCHANGED <<opened, client>>, EntriesAre', entries \subseteq entries',
         Cardinality(entries) <= Cardinality(entries')
  PROVE  PubInv'
<1> DEFINE old == request[r]
<1>1. PICK q \in Requests :
         /\ request' = [request EXCEPT ![r] = q] /\ request'[r] = q
         /\ q.next = old.next + 1 /\ (q.at = "answered" => old.next = Len(Items(r)))
         /\ q.created = old.created /\ q.deduped = old.deduped /\ q.failed = old.failed + 1
  BY CountIs
<1>2. old \in Requests /\ RequestCounts(r) /\ old.next <= Len(Items(r)) /\ Len(Items(r)) \in Nat
  BY SendingsAre, BatchIs DEF PubInv, Types, Serving
<1>3. RequestCounts(r)'
  BY <1>1, <1>2 DEF RequestCounts, Requests
<1>4. CreatedBy(request') = CreatedBy(request)
  <2> DEFINE q2 == request'
  <2>1. \A s \in Sendings : q2[s].created = request[s].created
    BY <1>1 DEF PubInv, Types
  <2> HIDE DEF q2
  <2>2. CreatedBy(q2) = CreatedBy(request)
    BY <2>1, SameCreations
  <2> QED BY <2>2 DEF q2
<1>5. /\ IsFiniteSet(CreatedBy(request'))
      /\ Cardinality(CreatedBy(request')) <= Cardinality(entries')
      /\ CreatedBy(request) \subseteq CreatedBy(request')
  <2>1. /\ IsFiniteSet(CreatedBy(request)) /\ IsFiniteSet(entries) /\ IsFiniteSet(entries')
        /\ Cardinality(CreatedBy(request)) <= Cardinality(entries)
    BY DEF PubInv, CreationsAreCounted, EntriesAre
  <2>2. /\ Cardinality(CreatedBy(request)) \in Nat /\ Cardinality(entries) \in Nat
        /\ Cardinality(entries') \in Nat
    BY <2>1, FS_CardinalityType
  <2>3. Cardinality(CreatedBy(request)) <= Cardinality(entries')
    BY ONLY <2>1, <2>2, Cardinality(entries) <= Cardinality(entries')
  <2> QED BY <2>1, <2>3, <1>4
<1> QED BY <1>1, <1>3, <1>5, ServerMoves

(* An item that is a schedule with its metrics, of a workspace that has    *)
(* it, and of one that has not.                                            *)
LEMMA RegisterKeeps ==
  ASSUME PubInv, NEW r \in Sendings, Serving(r),
         Items(r)[request[r].next].kind # "unmeasured",
         Register(r, Items(r)[request[r].next]), UNCHANGED <<opened, client>>
  PROVE  PubInv'
<1>0. PICK n : n = request[r].next
  OBVIOUS
<1> DEFINE old == request[r]
           f == Items(r)[n]
<1>1. /\ old \in Requests /\ RequestCounts(r) /\ Len(Items(r)) \in Nat
      /\ n \in 1 .. Len(Items(r)) /\ EntriesAre /\ CreationsAreCounted
      /\ request \in [Sendings -> Requests] /\ f.kind # "unmeasured"
  BY <1>0, SendingsAre, BatchIs, SMTT(30) DEF PubInv, Types, Serving, RequestCounts
<1>2. f.kind = "schedule" /\ f.bytes \in FoundKeys
  BY <1>1, ItemsAreFound
<1>3. /\ old.created \in Nat /\ old.deduped \in Nat /\ old.failed \in Nat
      /\ n - 1 = old.created + old.deduped + old.failed
      /\ old.failed = 0 => \A k \in 1 .. n - 1 : Sound(Items(r)[k])
  BY <1>0, <1>1 DEF Requests, RequestCounts
<1>4. CASE HasKey(f.bytes)
  <2>1. entries' = entries /\ Count(r, "deduped")
    BY <1>0, <1>4 DEF Register
  <2>2. PICK q \in Requests :
          /\ request' = [request EXCEPT ![r] = q] /\ request'[r] = q
          /\ q.next = n + 1 /\ (q.at = "answered" => n = Len(Items(r)))
          /\ q.created = old.created /\ q.deduped = old.deduped + 1 /\ q.failed = old.failed
    BY <1>0, <2>1, CountIs
  <2>3. old.failed = 0 => \A k \in 1 .. n : Sound(Items(r)[k])'
    <3>1. \A x : Sound(x) => Sound(x)'
      BY <2>1, StillSound
    <3>2. Sound(Items(r)[n])
      BY <1>2, <1>4 DEF Sound
    <3> QED BY <1>1, <1>3, <3>1, <3>2
  <2>4. RequestCounts(r)'
    <3> HIDE DEF old
    <3> DEFINE len == Len(Items(r))
               c == old.created
               d == old.deduped
               x == old.failed
    <3>a. /\ len \in Nat /\ n \in 1 .. len /\ c \in Nat /\ d \in Nat /\ x \in Nat
          /\ n - 1 = c + d + x
      BY <1>1, <1>3
    <3>b. q.next = n + 1 /\ q.created = c /\ q.deduped = d + 1 /\ q.failed = x
      BY <2>2
    <3> HIDE DEF len, c, d, x
    <3>c. /\ q.next \in 1 .. len + 1 /\ q.next - 1 = n
          /\ q.next - 1 = q.created + q.deduped + q.failed
      BY <3>a, <3>b
    <3>1. /\ q.next \in 1 .. Len(Items(r)) + 1 /\ q.next - 1 = n
          /\ q.next - 1 = q.created + q.deduped + q.failed
      BY <3>c DEF len
    <3> QED BY <2>2, <2>3, <3>1 DEF RequestCounts
  <2>5. CreatedBy(request') = CreatedBy(request)
    <3> DEFINE q2 == request'
    <3>1. \A s \in Sendings : q2[s].created = request[s].created
      BY <2>2, <1>1
    <3> HIDE DEF q2
    <3>2. CreatedBy(q2) = CreatedBy(request)
      BY <3>1, SameCreations
    <3> QED BY <3>2 DEF q2
  <2>6. EntriesAre'
    BY <2>1, <1>1, EntriesStay
  <2>7. /\ IsFiniteSet(CreatedBy(request'))
        /\ Cardinality(CreatedBy(request')) <= Cardinality(entries')
        /\ CreatedBy(request) \subseteq CreatedBy(request')
    BY <1>1, <2>1, <2>5 DEF CreationsAreCounted
  <2> QED BY <2>1, <2>2, <2>4, <2>6, <2>7, ServerMoves
<1>5. CASE ~ HasKey(f.bytes)
  <2> DEFINE e == [key |-> f.bytes, manifest |-> Fresh]
             size == Cardinality(entries)
  <2>1. entries' = entries \cup {e} /\ Count(r, "created")
    BY <1>0, <1>5 DEF Register
  <2>2. PICK q \in Requests :
          /\ request' = [request EXCEPT ![r] = q] /\ request'[r] = q
          /\ q.next = n + 1 /\ (q.at = "answered" => n = Len(Items(r)))
          /\ q.created = old.created + 1 /\ q.deduped = old.deduped /\ q.failed = old.failed
    BY <1>0, <2>1, CountIs
  <2>3. e.key = f.bytes /\ e.manifest = size + 1
    BY DEF Fresh
  <2>5. /\ EntriesAre' /\ entries \subseteq entries' /\ size \in Nat
        /\ Cardinality(entries') = size + 1
    BY <1>1, <1>2, <1>5, <2>1, EntryJoins
  <2>8. old.failed = 0 => \A k \in 1 .. n : Sound(Items(r)[k])'
    <3>1. \A x : Sound(x) => Sound(x)'
      BY <2>5, StillSound
    <3>2. Sound(Items(r)[n])'
      <4>1. e \in entries'
        BY <2>1
      <4>2. HasKey(f.bytes)'
        BY <4>1, <2>3 DEF HasKey
      <4> QED BY <1>2, <4>2 DEF Sound
    <3> QED BY <1>1, <1>3, <3>1, <3>2
  <2>9. RequestCounts(r)'
    <3> HIDE DEF old
    <3> DEFINE len == Len(Items(r))
               c == old.created
               d == old.deduped
               x == old.failed
    <3>a. /\ len \in Nat /\ n \in 1 .. len /\ c \in Nat /\ d \in Nat /\ x \in Nat
          /\ n - 1 = c + d + x
      BY <1>1, <1>3
    <3>b. q.next = n + 1 /\ q.created = c + 1 /\ q.deduped = d /\ q.failed = x
      BY <2>2
    <3> HIDE DEF len, c, d, x
    <3>c. /\ q.next \in 1 .. len + 1 /\ q.next - 1 = n
          /\ q.next - 1 = q.created + q.deduped + q.failed
      BY <3>a, <3>b
    <3>1. /\ q.next \in 1 .. Len(Items(r)) + 1 /\ q.next - 1 = n
          /\ q.next - 1 = q.created + q.deduped + q.failed
      BY <3>c DEF len
    <3> QED BY <2>2, <2>8, <3>1 DEF RequestCounts
  <2>10. /\ IsFiniteSet(CreatedBy(request'))
         /\ Cardinality(CreatedBy(request')) <= size + 1
         /\ CreatedBy(request) \subseteq CreatedBy(request')
    <3> DEFINE q2 == request'
               new == <<r, old.created + 1>>
    <3>1. /\ q2[r].created = old.created + 1
          /\ \A s \in Sendings \ {r} : q2[s].created = request[s].created
      BY <2>2, <1>1
    <3> HIDE DEF q2, size
    <3>2. CreatedBy(q2) = CreatedBy(request) \cup {new} /\ new \notin CreatedBy(request)
      BY <1>3, <3>1, OneIsCreated
    <3>3. /\ IsFiniteSet(CreatedBy(request)) /\ Cardinality(CreatedBy(request)) \in Nat
          /\ Cardinality(CreatedBy(request)) <= size
      BY <1>1, FS_CardinalityType DEF CreationsAreCounted, size
    <3> HIDE DEF new
    <3>4. /\ IsFiniteSet(CreatedBy(q2))
          /\ Cardinality(CreatedBy(q2)) = Cardinality(CreatedBy(request)) + 1
          /\ CreatedBy(request) \subseteq CreatedBy(q2)
      BY <3>2, <3>3, FS_AddElement
    <3>5. Cardinality(CreatedBy(q2)) <= size + 1
      BY <2>5, <3>3, <3>4
    <3> QED BY <3>4, <3>5 DEF q2
  <2> HIDE DEF size, old
  <2> QED BY <2>2, <2>5, <2>9, <2>10, ServerMoves
<1> QED BY <1>4, <1>5

LEMMA RestartKeeps ==
  ASSUME PubInv, Restart
  PROVE  PubInv'
<1>1. /\ request \in [Sendings -> Requests] /\ UNCHANGED <<opened, entries, client>>
      /\ request' = [r \in Sendings |->
            IF request[r].at = "serving" THEN [request[r] EXCEPT !.at = "cut"] ELSE request[r]]
  BY DEF PubInv, Types, Restart
<1>2. ASSUME NEW r \in Sendings
      PROVE  /\ request'[r] \in Requests
             /\ request'[r].next = request[r].next /\ request'[r].created = request[r].created
             /\ request'[r].deduped = request[r].deduped /\ request'[r].failed = request[r].failed
             /\ request'[r].at = "answered" => request[r].at = "answered"
  <2>1. request[r] \in Requests
    BY <1>1
  <2>2. CASE request[r].at = "serving"
    <3>1. request'[r] = [request[r] EXCEPT !.at = "cut"]
      BY <1>1, <2>2
    <3> QED BY <2>1, <3>1 DEF Requests
  <2>3. CASE request[r].at # "serving"
    <3>1. request'[r] = request[r]
      BY <1>1, <2>3
    <3> QED BY <2>1, <3>1
  <2> QED BY <2>2, <2>3
<1>3. Types'
  <2>1. request' \in [Sendings -> Requests]
    <3>1. DOMAIN request' = Sendings /\ request' = [r \in Sendings |-> request'[r]]
      BY <1>1
    <3> QED BY <1>2, <3>1
  <2> QED BY <1>1, <2>1 DEF PubInv, Types
<1>4. EntriesAre'
  BY <1>1, EntriesStay DEF PubInv
<1>5. \A r \in Sendings : RequestCounts(r)'
  BY <1>1, <1>2, RequestStays DEF PubInv
<1>6. \A p \in Publishers : ClientCounts(p)'
  BY <1>1, ClientStays DEF PubInv
<1>7. CreatedBy(request') = CreatedBy(request)
  <2> DEFINE q2 == request'
  <2>1. \A r \in Sendings : q2[r].created = request[r].created
    BY <1>2
  <2> HIDE DEF q2
  <2>2. CreatedBy(q2) = CreatedBy(request)
    BY <2>1, SameCreations
  <2> QED BY <2>2 DEF q2
<1>8. CreationsAreCounted'
  BY <1>1, <1>7 DEF PubInv, CreationsAreCounted, CreatedFor
<1> QED BY <1>3, <1>4, <1>5, <1>6, <1>8 DEF PubInv

(* The item that is served is one of the schedules found.                  *)
LEMMA ServedIsFound ==
  ASSUME PubInv, NEW r \in Sendings, Serving(r)
  PROVE  Items(r)[request[r].next].bytes \in FoundKeys
<1>1. request[r].next \in 1 .. Len(Items(r))
  <2>1. RequestCounts(r) /\ Len(Items(r)) \in Nat
    BY SendingsAre, BatchIs DEF PubInv
  <2> QED BY <2>1 DEF Serving, RequestCounts
<1> QED BY <1>1, ItemsAreFound

(* Every step of the server keeps the invariant.                           *)
LEMMA ServerKeeps ==
  ASSUME PubInv, NEW r \in Sendings, ServeItem(r) \/ Refuse(r)
  PROVE  PubInv'
<1>1. CASE Refuse(r)
  <2> DEFINE f == Items(r)[request[r].next]
  <2>1. Serving(r) /\ Count(r, "failed") /\ UNCHANGED <<opened, client>>
    BY <1>1 DEF Refuse
  <2>2. EntriesAre /\ Cardinality(entries) \in Nat
    BY FS_CardinalityType DEF PubInv, EntriesAre
  <2>3. CASE UNCHANGED entries
    BY <2>1, <2>2, <2>3, FailureKeeps, EntriesStay
  <2>4. CASE entries' # entries
    <3>1. ~ HasKey(f.bytes) /\ entries' = entries \cup {[key |-> f.bytes, manifest |-> Fresh]}
      BY <1>1, <2>4 DEF Refuse
    <3>2. f.bytes \in FoundKeys
      BY <2>1, ServedIsFound
    <3> HIDE DEF f
    <3>3. EntriesAre' /\ entries \subseteq entries' /\ Cardinality(entries') = Cardinality(entries) + 1
      BY <2>2, <3>1, <3>2, EntryJoins
    <3> QED BY <2>1, <2>2, <3>3, FailureKeeps
  <2> QED BY <2>3, <2>4
<1>2. CASE ServeItem(r)
  <2> DEFINE f == Items(r)[request[r].next]
  <2>1. Serving(r) /\ UNCHANGED <<opened, client>>
    BY <1>2 DEF ServeItem
  <2>2. CASE f.kind = "unmeasured" \/ ~ opened
    <3>1. Count(r, "failed") /\ UNCHANGED entries
      BY <1>2, <2>2 DEF ServeItem
    <3>2. EntriesAre /\ Cardinality(entries) \in Nat
      BY FS_CardinalityType DEF PubInv, EntriesAre
    <3> QED BY <2>1, <3>1, <3>2, FailureKeeps, EntriesStay
  <2>3. CASE ~ (f.kind = "unmeasured" \/ ~ opened)
    <3>1. Register(r, f) /\ f.kind # "unmeasured"
      BY <1>2, <2>3 DEF ServeItem
    <3> QED BY <2>1, <3>1, RegisterKeeps
  <2> QED BY <2>2, <2>3
<1> QED BY <1>1, <1>2
-----------------------------------------------------------------------------
(* The invariant is one *)

LEMMA PubInvInit == PubInit => PubInv
<1> SUFFICES ASSUME PubInit PROVE PubInv
  OBVIOUS
<1>1. /\ opened = Opened /\ entries = {}
      /\ request = [r \in Sendings |-> Nobody] /\ client = [p \in Publishers |-> Beginning]
  BY DEF PubInit
<1>2. Nobody \in Requests /\ Nobody.next = 1 /\ Nobody.at # "answered"
      /\ Nobody.created = 0 /\ Nobody.deduped = 0 /\ Nobody.failed = 0
  BY DEF Nobody, Requests
<1>3. Beginning \in Clients /\ Beginning.at = "start" /\ Beginning.chunk = 1
      /\ Beginning.attempt = 0
      /\ Beginning.created = 0 /\ Beginning.deduped = 0 /\ Beginning.failed = 0
  BY DEF Beginning, Clients, Exits
<1>4. Types
  BY <1>1, <1>2, <1>3, PublicationConstants DEF Types
<1>5. EntriesAre
  BY <1>1, FS_EmptySet DEF EntriesAre
<1>6. \A r \in Sendings : RequestCounts(r)
  <2> SUFFICES ASSUME NEW r \in Sendings PROVE RequestCounts(r)
    OBVIOUS
  <2>1. Len(Items(r)) \in Nat
    BY SendingsAre, BatchIs
  <2> QED BY <2>1, <1>1, <1>2 DEF RequestCounts
<1>7. \A p \in Publishers : ClientCounts(p)
  <2> SUFFICES ASSUME NEW p \in Publishers PROVE ClientCounts(p)
    OBVIOUS
  <2>1. client[p] = Beginning
    BY <1>1
  <2>2. Over(p, Beginning) = {}
    BY <1>3 DEF Over
  <2> QED BY <2>1, <2>2, <1>3 DEF ClientCounts
<1>8. CreatedBy(request) = {}
  <2> SUFFICES ASSUME NEW a \in CreatedBy(request) PROVE FALSE
    OBVIOUS
  <2>1. a[1] \in Sendings /\ a[2] \in 1 .. request[a[1]].created
    BY DEF CreatedBy
  <2> QED BY <2>1, <1>1, <1>2
<1>9. CreationsAreCounted
  <2>1. IsFiniteSet({}) /\ Cardinality({}) = 0
    BY FS_EmptySet
  <2>2. \A p, over : CreatedFor(request, p, over) = {}
    BY <1>8 DEF CreatedFor
  <2> QED BY <2>1, <2>2, <1>1, <1>3, <1>8 DEF CreationsAreCounted
<1> QED BY <1>4, <1>5, <1>6, <1>7, <1>9 DEF PubInv

LEMMA PubInvStep == PubInv /\ [PubNext]_pubVars => PubInv'
<1> SUFFICES ASSUME PubInv, [PubNext]_pubVars PROVE PubInv'
  OBVIOUS
<1>1. CASE UNCHANGED pubVars
  BY <1>1 DEF pubVars, PubInv, Types, EntriesAre, RequestCounts, ClientCounts,
              CreationsAreCounted, CreatedBy, CreatedFor, Sound, HasKey
<1>2. CASE \E p \in Publishers : ClientSteps(p)
  BY <1>2, PublisherKeeps
<1>3. CASE \E r \in Sendings : ServeItem(r) \/ Refuse(r)
  BY <1>3, ServerKeeps
<1>4. CASE Restart
  BY <1>4, RestartKeeps
<1> QED BY <1>1, <1>2, <1>3, <1>4 DEF PubNext

LEMMA PubInvHolds == PubSpec => []PubInv
BY PubInvInit, PubInvStep, PTL DEF PubSpec
-----------------------------------------------------------------------------
(* What follows from it *)

(* The counters, states and entries of a publication are what their        *)
(* readers expect (publish.rs:33-118; routes.rs:511-558).                  *)
THEOREM PublicationTypes == PubSpec => []PubTypeOK
<1>1. PubInv => PubTypeOK
  <2> SUFFICES ASSUME PubInv PROVE PubTypeOK
    OBVIOUS
  <2>1. opened \in BOOLEAN /\ \A e \in entries : e.manifest \in 1 .. Cardinality(entries)
    BY DEF PubInv, Types, EntriesAre
  <2>2. \A r \in Sendings :
          /\ request[r].at \in {"unsent", "serving", "answered", "cut"}
          /\ request[r].next - 1 = request[r].created + request[r].deduped + request[r].failed
          /\ request[r].at = "answered" => request[r].next = Len(Items(r)) + 1
    BY DEF PubInv, Types, Requests, RequestCounts
  <2>3. \A p \in Publishers :
          /\ client[p].at \in {"start", "collect", "send", "wait"} \cup Exits
          /\ client[p].at \in {"send", "wait"} => Sending(p) \in Sendings
    <3> SUFFICES ASSUME NEW p \in Publishers
                 PROVE  /\ client[p].at \in {"start", "collect", "send", "wait"} \cup Exits
                        /\ client[p].at \in {"send", "wait"} => Sending(p) \in Sendings
      OBVIOUS
    <3>1. client[p] \in Clients /\ ClientCounts(p)
      BY DEF PubInv, Types
    <3>2. client[p].at \in {"send", "wait"} => Sending(p) \in Sendings
      BY <3>1, SendingIs DEF ClientCounts
    <3> QED BY <3>1, <3>2 DEF Clients
  <2> QED BY <2>1, <2>2, <2>3 DEF PubTypeOK
<1> QED BY <1>1, PubInvHolds, PTL

(* When no batch is left, no schedule that was found is.                   *)
LEMMA SuccessIsTrue == PubInv => SuccessMeansPublished
<1> SUFFICES ASSUME PubInv, NEW p \in Publishers, At(p, "success"), NEW f \in ToSet(Collected(p))
             PROVE  f.kind = "schedule" /\ HasKey(f.bytes)
  BY DEF SuccessMeansPublished
<1>1. client[p].at = "success" /\ ClientCounts(p)
  BY DEF At, PubInv
<1>2. \A n \in 1 .. Chunks(p) : \A k \in 1 .. Len(Chunk(p, n)) : Sound(Chunk(p, n)[k])
  BY <1>1 DEF ClientCounts, Over
<1>3. PICK i \in 1 .. Total(p) : f = Collected(p)[i]
  BY CollectedIs DEF ToSet
<1>4. PICK n \in 1 .. Chunks(p) : \E k \in 1 .. Len(Chunk(p, n)) : f = Chunk(p, n)[k]
  BY <1>3, BatchesCover
<1>5. Sound(f)
  BY <1>2, <1>4
<1> QED BY <1>5 DEF Sound

(* What is reported as created can be laid one to one into what was.       *)
LEMMA ReportedOnce == PubInv => CreatedOnce
<1> SUFFICES ASSUME PubInv PROVE CreatedOnce
  OBVIOUS
<1> DEFINE All == CreatedBy(request)
           For(p) == CreatedFor(request, p, Over(p, client[p]))
           n(p) == client[p].created
           into(p) == CHOOSE h \in [1 .. n(p) -> For(p)] :
                         \A i, j \in 1 .. n(p) : h[i] = h[j] => i = j
           g == [x \in Reported |-> into(x[1])[x[2]]]
<1>1. /\ IsFiniteSet(All) /\ Cardinality(All) <= Cardinality(entries)
      /\ Cardinality(All) \in Nat /\ Cardinality(entries) \in Nat
  BY FS_CardinalityType DEF PubInv, CreationsAreCounted, EntriesAre
<1>2. ASSUME NEW p \in Publishers
      PROVE  /\ For(p) \subseteq All /\ \A a \in For(p) : a[1][1] = p
             /\ \E h \in [1 .. n(p) -> For(p)] : \A i, j \in 1 .. n(p) : h[i] = h[j] => i = j
  <2>1. For(p) \in SUBSET All /\ \A a \in For(p) : a[1][1] = p
    BY DEF CreatedFor
  <2>2. n(p) \in Nat /\ n(p) <= Cardinality(For(p))
    BY DEF PubInv, Types, Clients, CreationsAreCounted
  <2> HIDE DEF For, n, All
  <2>3. IsFiniteSet(For(p))
    BY <1>1, <2>1, FS_Subset
  <2>4. Cardinality(For(p)) \in Nat /\ ExistsBijection(1 .. Cardinality(For(p)), For(p))
    BY <2>3, FS_CardinalityType
  <2> DEFINE m == Cardinality(For(p))
  <2>5. PICK b : b \in Bijection(1 .. m, For(p))
    BY <2>4 DEF ExistsBijection
  <2> DEFINE h == [i \in 1 .. n(p) |-> b[i]]
  <2>6. b \in [1 .. m -> For(p)] /\ \A i, j \in 1 .. m : b[i] = b[j] => i = j
    <3> HIDE DEF m
    <3> QED BY <2>5, Fun_BijectionProperties
  <2>7. 1 .. n(p) \subseteq 1 .. m
    <3> DEFINE k == n(p)
    <3>1. k \in Nat /\ m \in Nat /\ k <= m
      BY <2>2, <2>4
    <3> HIDE DEF k, m
    <3>2. 1 .. k \subseteq 1 .. m
      BY <3>1
    <3> QED BY <3>2 DEF k
  <2>8. h \in [1 .. n(p) -> For(p)] /\ \A i, j \in 1 .. n(p) : h[i] = h[j] => i = j
    <3> HIDE DEF m
    <3> QED BY <2>6, <2>7
  <2> HIDE DEF h
  <2> QED BY <2>1, <2>8
<1> HIDE DEF For, n, All
<1>3. \A p \in Publishers : /\ into(p) \in [1 .. n(p) -> For(p)]
                            /\ \A i, j \in 1 .. n(p) : into(p)[i] = into(p)[j] => i = j
  BY <1>2
<1> HIDE DEF into
<1>4. \A x \in Reported : x[1] \in Publishers /\ x[2] \in 1 .. n(x[1]) /\ x = <<x[1], x[2]>>
  BY DEF Reported, n
<1>5. \A x \in Reported : g[x] \in All /\ g[x][1][1] = x[1]
  <2> SUFFICES ASSUME NEW x \in Reported PROVE g[x] \in All /\ g[x][1][1] = x[1]
    OBVIOUS
  <2>1. x[1] \in Publishers /\ x[2] \in 1 .. n(x[1])
    BY <1>4
  <2>2. into(x[1])[x[2]] \in For(x[1])
    BY <2>1, <1>3
  <2>3. g[x] = into(x[1])[x[2]]
    OBVIOUS
  <2> HIDE DEF g
  <2> QED BY <2>1, <2>2, <2>3, <1>2
<1>6. ASSUME NEW x \in Reported, NEW y \in Reported, g[x] = g[y]
      PROVE  x = y
  <2>1. x[1] = y[1]
    <3> HIDE DEF g
    <3> QED BY <1>5, <1>6
  <2>2. into(x[1])[x[2]] = into(x[1])[y[2]]
    BY <1>6, <2>1
  <2>3. x[2] = y[2]
    BY <1>3, <1>4, <2>1, <2>2
  <2> QED BY <1>4, <2>1, <2>3
<1>7. g \in Injection(Reported, All)
  <2>1. g \in [Reported -> All]
    BY <1>5
  <2> HIDE DEF g
  <2> QED BY <1>6, <2>1, Fun_IsInj
<1>8. Cardinality(Reported) <= Cardinality(All) /\ Cardinality(Reported) \in Nat
  BY <1>1, <1>7, FS_Injection, FS_CardinalityType
<1> QED BY <1>1, <1>8 DEF CreatedOnce

(* A publication that ends well has registered every schedule it found,    *)
(* its counts add up, and nothing is reported as created twice, whatever   *)
(* was lost, repeated, refused or restarted (publish.rs:73-118).           *)
THEOREM ReportsHold == PubSpec => []ReportsAreHonest
<1>1. PubInv => CountsAddUp
  BY DEF PubInv, ClientCounts, CountsAddUp
<1>2. PubInv => ReportsAreHonest
  BY <1>1, SuccessIsTrue, ReportedOnce DEF ReportsAreHonest
<1> QED BY <1>2, PubInvHolds, PTL

(* The schedules that publishers found have finitely many keys.            *)
LEMMA KeysAreFinite == IsFiniteSet(FoundKeys)
<1> DEFINE Places == UNION {{p} \X (1 .. Total(p)) : p \in Publishers}
           key == [x \in Places |-> Collected(x[1])[x[2]].bytes]
           own == [p \in Publishers |-> {p} \X (1 .. Total(p))]
<1>1. IsFiniteSet(Publishers)
  BY PublicationConstants
<1>2. \A p \in Publishers : IsFiniteSet(own[p])
  <2> SUFFICES ASSUME NEW p \in Publishers PROVE IsFiniteSet({p} \X (1 .. Total(p)))
    OBVIOUS
  <2>1. 1 \in Int /\ Total(p) \in Int
    BY CollectedIs
  <2>2. IsFiniteSet(1 .. Total(p)) /\ IsFiniteSet({p})
    BY <2>1, FS_Interval, FS_Singleton
  <2> QED BY <2>2, FS_Product
<1> DEFINE All == {own[p] : p \in Publishers}
<1>3. IsFiniteSet(All)
  <2>1. own \in Surjection(Publishers, All)
    <3>1. own \in [Publishers -> All] /\ \A t \in All : \E p \in Publishers : own[p] = t
      OBVIOUS
    <3> HIDE DEF own, All
    <3> QED BY <3>1, Fun_IsSurj
  <2> QED BY <2>1, <1>1, FS_Surjection
<1>4. IsFiniteSet(UNION All)
  <2>1. \A t \in All : IsFiniteSet(t)
    BY <1>2
  <2> HIDE DEF All
  <2> QED BY <2>1, <1>3, FS_UNION
<1>5. Places = UNION All
  OBVIOUS
<1>6. key \in Surjection(Places, FoundKeys)
  <2>1. \A x \in Places : x[1] \in Publishers /\ x[2] \in 1 .. Total(x[1])
    OBVIOUS
  <2>2. \A p \in Publishers : \A i \in 1 .. Total(p) : Collected(p)[i].bytes \in FoundKeys
    <3> SUFFICES ASSUME NEW p \in Publishers, NEW i \in 1 .. Total(p)
                 PROVE  Collected(p)[i].bytes \in FoundKeys
      OBVIOUS
    <3>1. Collected(p)[i] \in ToSet(Collected(p))
      BY CollectedIs DEF ToSet
    <3>2. Collected(p)[i] \in UNION {ToSet(Collected(q)) : q \in Publishers}
      BY <3>1
    <3> QED BY <3>2 DEF FoundKeys
  <2>3. \A k \in FoundKeys : \E x \in Places : key[x] = k
    <3> SUFFICES ASSUME NEW k \in FoundKeys PROVE \E x \in Places : key[x] = k
      OBVIOUS
    <3>1. PICK p \in Publishers : \E f \in ToSet(Collected(p)) : k = f.bytes
      BY DEF FoundKeys
    <3>2. PICK i \in 1 .. Total(p) : k = Collected(p)[i].bytes
      BY <3>1, CollectedIs DEF ToSet
    <3>3. <<p, i>> \in Places
      OBVIOUS
    <3>4. key[<<p, i>>] = k
      BY <3>2, <3>3
    <3> QED BY <3>3, <3>4
  <2>4. key \in [Places -> FoundKeys]
    <3> HIDE DEF Places
    <3> QED BY <2>1, <2>2
  <2> HIDE DEF key, Places
  <2> QED BY <2>3, <2>4, Fun_IsSurj
<1> QED BY <1>4, <1>5, <1>6, FS_Surjection

(* There are never more entries than keys.                                 *)
LEMMA RoomForFresh ==
  ASSUME PubInv, NEW k \in FoundKeys, ~ HasKey(k)
  PROVE  Fresh \in 1 .. Cardinality(FoundKeys)
<1> DEFINE g == [e \in entries |-> e.key]
           Rest == FoundKeys \ {k}
<1>1. EntriesAre
  BY DEF PubInv
<1>2. IsFiniteSet(Rest) /\ Cardinality(Rest) = Cardinality(FoundKeys) - 1
  BY KeysAreFinite, FS_RemoveElement
<1>3. Cardinality(FoundKeys) \in Nat /\ Cardinality(entries) \in Nat
  BY <1>1, KeysAreFinite, FS_CardinalityType DEF EntriesAre
<1>4. \A e \in entries : e.key \in Rest
  BY <1>1 DEF HasKey, EntriesAre
<1>5. g \in Injection(entries, Rest)
  <2>1. g \in [entries -> Rest] /\ \A e, d \in entries : g[e] = g[d] => e = d
    BY <1>1, <1>4 DEF EntriesAre
  <2> HIDE DEF g, Rest
  <2> QED BY <2>1, Fun_IsInj
<1>6. Cardinality(entries) <= Cardinality(Rest)
  <2> HIDE DEF g, Rest
  <2> QED BY <1>2, <1>5, FS_Injection
<1> QED BY <1>2, <1>3, <1>6 DEF Fresh

(* However often a batch is sent and however its copies overlap, what the  *)
(* server does is what Membership.tla allows: an entry joins under a key   *)
(* that nobody has, and none leaves (publish.rs:232, 247-275;              *)
(* routes.rs:439-465).                                                     *)
THEOREM ImplementsJoins == PubSpec => JoinsOnce
<1> DEFINE m == [w \in {"w"} |-> entries]
<1>1. PubInit => Joins!Init
  BY DEF PubInit, Joins!Init
<1>2. PubInv /\ [PubNext]_pubVars => [Joins!Next]_m
  <2> SUFFICES ASSUME PubInv, [PubNext]_pubVars PROVE Joins!Next \/ m' = m
    OBVIOUS
  <2>1. CASE entries' = entries
    BY <2>1
  <2>2. CASE entries' # entries
    <3>1. PICK r \in Sendings : ServeItem(r) \/ Refuse(r)
      BY <2>2 DEF pubVars, PubNext, ClientSteps, CreateWorkspace, Collect, Send, Answer, NoAnswer,
                  Restart
    <3> DEFINE f == Items(r)[request[r].next]
    <3>2. /\ Serving(r) /\ ~ HasKey(f.bytes)
          /\ entries' = entries \cup {[key |-> f.bytes, manifest |-> Fresh]}
      BY <2>2, <3>1 DEF ServeItem, Register, Refuse
    <3>4. f.bytes \in FoundKeys
      BY <3>2, ServedIsFound
    <3>5. PICK k \in FoundKeys, n \in 1 .. Cardinality(FoundKeys) : k = f.bytes /\ n = Fresh
      BY <3>2, <3>4, RoomForFresh
    <3>6. \A e \in m["w"] : e.key # k
      BY <3>2, <3>5 DEF HasKey
    <3>7. m' = [m EXCEPT !["w"] = @ \cup {[key |-> k, manifest |-> n]}]
      BY <3>2, <3>5
    <3>8. Joins!Join("w", k, n)
      BY <3>6, <3>7 DEF Joins!Join
    <3> QED BY <3>8 DEF Joins!Next
  <2> QED BY <2>1, <2>2
<1> QED BY <1>1, <1>2, PubInvHolds, PTL DEF PubSpec, JoinsOnce, Joins!Spec
-----------------------------------------------------------------------------
(* What a workspace shows *)

IsList(s) == \E S : s \in Seq(S)

(* What arrives at a workspace: first the schedule of a run that placed    *)
(* tasks of a problem of different blocks, each of at least one task; then *)
(* any schedules and manifests.  A schedule is no error and no absence,    *)
(* nor is the bag of the names of its blocks.                              *)
ArrivesAfterRun ==
    /\ IsList(sample.items) /\ IsList(sample.problem)
    /\ \A i \in DOMAIN sample.items : sample.items[i].kind = "schedule" =>
          /\ IsList(sample.items[i].body.blocks)
          /\ block_pool_hash_from_ids(Ids(sample.items[i].body.blocks)) # None
    /\ \A i, j \in DOMAIN sample.problem : sample.problem[i].id = sample.problem[j].id => i = j
    /\ \A i \in DOMAIN sample.problem :
          IsList(sample.problem[i].tasks) /\ sample.problem[i].tasks # <<>>
    /\ \A t \in DOMAIN sample.placements : sample.placements[t] # None
    /\ sample.items # <<>> =>
          /\ sample.items[1].kind = "schedule"
          /\ \E metadata, metrics : sample.items[1].body =
                ScheduleOutput(sample.problem, sample.placements, metadata, metrics)
          /\ sample.items[1].body \notin Errors \cup {None}

(* The manifest of a schedule that was ingested. *)
LEMMA IngestedManifest ==
    ASSUME NEW body, NEW m, m = ingest_one(body), m # BadRequest
    PROVE  /\ m.dataset = OrElse(body.metadata.dataset, "unknown")
           /\ m.uri = "ws" /\ m.sha = body
           /\ m.horizon = OrElse(body.metadata.period, Horizon(0, 0))
           /\ m.context = merge_workspace_context(NoContext,
                             derive_workspace_context_from_schedule(body))
           /\ HasErrors(m) => m.status = "invalid"
<1>1. PICK r : r = [dataset |-> OrElse(body.metadata.dataset, "unknown"), version |-> 1,
                    horizon |-> OrElse(body.metadata.period, Horizon(0, 0)),
                    metrics |-> body.metrics, uri |-> "none", sha |-> None, hex |-> TRUE,
                    source |-> None, context |-> NoContext, status |-> "valid"]
    OBVIOUS
<1>2. manifest_from_schedule(body) = r /\ r # BadRequest
    BY <1>1 DEF manifest_from_schedule, ingest_one
<1>3. PICK context : context = merge_workspace_context(NoContext,
                                  derive_workspace_context_from_schedule(body))
    OBVIOUS
<1>4. PICK full : full = [r EXCEPT !.uri = "ws", !.sha = body, !.context = context]
    OBVIOUS
<1>5. m = [full EXCEPT !.status = Status(full)]
    BY <1>1, <1>2, <1>3, <1>4 DEF ingest_one
<1>6. /\ full.dataset = r.dataset /\ full.version = 1 /\ full.horizon = r.horizon
      /\ full.metrics = r.metrics /\ full.uri = "ws" /\ full.sha = body /\ full.hex = TRUE
      /\ full.context = context
    BY <1>1, <1>4
<1>7. /\ m.dataset = full.dataset /\ m.version = full.version /\ m.horizon = full.horizon
      /\ m.metrics = full.metrics /\ m.uri = full.uri /\ m.sha = body /\ m.hex = full.hex
      /\ m.context = context /\ m.status = Status(full)
    BY <1>1, <1>4, <1>5, <1>6
<1>8. validate(m) = validate(full)
    BY <1>7 DEF validate
<1>9. HasErrors(m) => m.status = "invalid"
    BY <1>7, <1>8 DEF HasErrors, Status
<1> QED
    BY <1>1, <1>3, <1>6, <1>7, <1>9

(* What the manifest knows of its problem. *)
LEMMA IngestedContext ==
    ASSUME NEW body, NEW m, m = ingest_one(body), m # BadRequest
    PROVE  /\ period_of(m) = OrElse(body.metadata.period, Horizon(0, 0))
           /\ cohort_key(m) =
                <<OrElse(body.metadata.dataset, "unknown"), OrElse(body.metadata.site, ""),
                  Round4(OrElse(body.metadata.period, Horizon(0, 0)).start),
                  Round4(OrElse(body.metadata.period, Horizon(0, 0)).end),
                  IF body.blocks = <<>> THEN None ELSE block_pool_hash_from_ids(Ids(body.blocks))>>
<1>1. PICK derived : derived = derive_workspace_context_from_schedule(body)
    OBVIOUS
<1>2. /\ derived.period = body.metadata.period /\ derived.observatory = body.metadata.site
      /\ derived.pool = IF body.blocks = <<>> THEN None
                        ELSE block_pool_hash_from_ids(Ids(body.blocks))
    BY <1>1 DEF derive_workspace_context_from_schedule
<1>3. PICK context : context = merge_workspace_context(NoContext, derived)
    OBVIOUS
<1>4. context = [field \in {"period", "observatory", "pool", "count"} |-> derived[field]]
    BY <1>3 DEF merge_workspace_context, NoContext, OrElse
<1>5. /\ context.period = body.metadata.period /\ context.observatory = body.metadata.site
      /\ context.pool = derived.pool
    BY <1>2, <1>4
<1>6. /\ m.dataset = OrElse(body.metadata.dataset, "unknown")
      /\ m.horizon = OrElse(body.metadata.period, Horizon(0, 0))
      /\ m.context = context
    BY <1>1, <1>3, IngestedManifest
<1>7. period_of(m) = OrElse(body.metadata.period, Horizon(0, 0))
    BY <1>5, <1>6 DEF period_of, OrElse
<1> QED
    BY <1>2, <1>5, <1>6, <1>7 DEF cohort_key

(* A manifest whose own data contradict themselves is invalid. *)
LEMMA StatusIsHonest ==
    StatusNeverHidesErrors
<1> SUFFICES ASSUME NEW e \in Registered(sample.items), HasErrors(e.manifest)
             PROVE  e.manifest.status = "invalid"
    BY DEF StatusNeverHidesErrors
<1>1. PICK i \in DOMAIN sample.items :
         /\ e = [id |-> i, manifest |-> Arrives(sample.items[i])]
         /\ Arrives(sample.items[i]) \notin {BadRequest, InvalidManifest}
    BY DEF Registered
<1>2. CASE sample.items[i].kind = "schedule"
    BY <1>1, <1>2, IngestedManifest DEF Arrives
<1>3. CASE sample.items[i].kind # "schedule"
    BY <1>1, <1>3 DEF Arrives, validate_manifest_payload
<1> QED
    BY <1>2, <1>3

(* The names of a list of blocks are a list. *)
LEMMA NamesAreListed ==
    ASSUME NEW blocks, IsList(blocks)
    PROVE  /\ Ids(blocks) \in Seq({blocks[i].id : i \in DOMAIN blocks})
           /\ Len(Ids(blocks)) = Len(blocks) /\ Len(blocks) \in Nat
           /\ DOMAIN Ids(blocks) = 1 .. Len(blocks) /\ DOMAIN blocks = 1 .. Len(blocks)
           /\ \A i \in DOMAIN blocks : Ids(blocks)[i] = blocks[i].id
           /\ blocks = <<>> <=> Len(blocks) = 0
<1>1. PICK S : blocks \in Seq(S)
    BY DEF IsList
<1>2. /\ Len(blocks) \in Nat /\ DOMAIN blocks = 1 .. Len(blocks)
      /\ blocks = <<>> <=> Len(blocks) = 0
    BY <1>1
<1>3. Ids(blocks) = [i \in 1 .. Len(blocks) |-> blocks[i].id]
    BY <1>2 DEF Ids
<1> QED
    BY <1>2, <1>3

(* A name occurs if and only if it is counted. *)
LEMMA TimesCounts ==
    ASSUME NEW S, NEW ids \in Seq(S), NEW x
    PROVE  Times(x, ids) \in Nat /\ (Times(x, ids) = 0 <=> x \notin ToSet(ids))
<1> DEFINE at == {i \in DOMAIN ids : ids[i] = x}
<1>1. IsFiniteSet(DOMAIN ids)
    BY FS_Interval
<1>2. IsFiniteSet(at)
    BY <1>1, FS_Subset
<1>3. Cardinality(at) \in Nat /\ (Cardinality(at) = 0 <=> at = {})
    BY <1>2, FS_CardinalityType, FS_EmptySet
<1>4. at = {} <=> x \notin ToSet(ids)
    BY DEF ToSet
<1> QED
    BY <1>3, <1>4 DEF Times

Pool(blocks) == IF blocks = <<>> THEN None ELSE block_pool_hash_from_ids(Ids(blocks))

(* Two lists of blocks have the same pool if every name occurs in both as  *)
(* often.                                                                  *)
LEMMA PoolsCount ==
    ASSUME NEW p, IsList(p), block_pool_hash_from_ids(Ids(p)) # None,
           NEW q, IsList(q), block_pool_hash_from_ids(Ids(q)) # None
    PROVE  (\A x \in ToSet(Ids(p) \o Ids(q)) : Times(x, Ids(p)) = Times(x, Ids(q)))
              <=> Pool(p) = Pool(q)
<1>0. PICK a, b : a = Ids(p) /\ b = Ids(q)
    OBVIOUS
<1>1. PICK S : a \in Seq(S)
    BY <1>0, NamesAreListed
<1>2. PICK T : b \in Seq(T)
    BY <1>0, NamesAreListed
<1>3. ToSet(a \o b) = ToSet(a) \cup ToSet(b)
    <2>1. a \in Seq(S \cup T) /\ b \in Seq(S \cup T)
        BY <1>1, <1>2
    <2>2. /\ DOMAIN (a \o b) = 1 .. Len(a) + Len(b)
          /\ \A i \in 1 .. Len(a) + Len(b) :
                (a \o b)[i] = IF i <= Len(a) THEN a[i] ELSE b[i - Len(a)]
        BY <2>1
    <2>3. DOMAIN a = 1 .. Len(a) /\ DOMAIN b = 1 .. Len(b) /\ Len(a) \in Nat /\ Len(b) \in Nat
        BY <1>1, <1>2
    <2>4. ASSUME NEW i \in DOMAIN b PROVE b[i] \in ToSet(a \o b)
        <3>1. i + Len(a) \in 1 .. Len(a) + Len(b) /\ (a \o b)[i + Len(a)] = b[i]
            BY <2>2, <2>3
        <3> QED
            BY <2>2, <3>1 DEF ToSet
    <2>5. ASSUME NEW i \in DOMAIN a PROVE a[i] \in ToSet(a \o b)
        <3>1. i \in 1 .. Len(a) + Len(b) /\ (a \o b)[i] = a[i]
            BY <2>2, <2>3
        <3> QED
            BY <2>2, <3>1 DEF ToSet
    <2>6. ASSUME NEW i \in DOMAIN (a \o b) PROVE (a \o b)[i] \in ToSet(a) \cup ToSet(b)
        <3>1. CASE i <= Len(a)
            BY <2>2, <2>3, <3>1 DEF ToSet
        <3>2. CASE i > Len(a)
            <4>1. i - Len(a) \in DOMAIN b /\ (a \o b)[i] = b[i - Len(a)]
                BY <2>2, <2>3, <3>2
            <4> QED
                BY <4>1 DEF ToSet
        <3> QED
            BY <2>2, <2>3, <3>1, <3>2
    <2> QED
        BY <2>4, <2>5, <2>6 DEF ToSet
<1>4. /\ p = <<>> <=> ToSet(a) = {}
      /\ q = <<>> <=> ToSet(b) = {}
    <2>1. /\ DOMAIN a = 1 .. Len(p) /\ Len(p) \in Nat /\ (p = <<>> <=> Len(p) = 0)
          /\ DOMAIN b = 1 .. Len(q) /\ Len(q) \in Nat /\ (q = <<>> <=> Len(q) = 0)
        BY <1>0, NamesAreListed
    <2>2. ToSet(a) = {} <=> 1 .. Len(p) = {}
        BY <2>1 DEF ToSet
    <2>3. ToSet(b) = {} <=> 1 .. Len(q) = {}
        BY <2>1 DEF ToSet
    <2>4. \A n \in Nat : 1 .. n = {} <=> n = 0
        <3>1. \A n \in Nat : n # 0 => 1 \in 1 .. n
            OBVIOUS
        <3> QED
            BY <3>1
    <2> QED
        BY <2>1, <2>2, <2>3, <2>4
<1>5. \A x : Times(x, a) \in Nat /\ (Times(x, a) = 0 <=> x \notin ToSet(a))
    BY <1>1, TimesCounts
<1>6. \A x : Times(x, b) \in Nat /\ (Times(x, b) = 0 <=> x \notin ToSet(b))
    BY <1>2, TimesCounts
<1>7. ASSUME \A x \in ToSet(a) \cup ToSet(b) : Times(x, a) = Times(x, b)
      PROVE  Pool(p) = Pool(q)
    <2>1. ToSet(a) = ToSet(b)
        BY <1>5, <1>6, <1>7
    <2>2. [x \in ToSet(a) |-> Times(x, a)] = [x \in ToSet(b) |-> Times(x, b)]
        BY <1>7, <2>1
    <2> QED
        BY <1>0, <1>4, <2>1, <2>2 DEF Pool, block_pool_hash_from_ids
<1>8. ASSUME Pool(p) = Pool(q), NEW x \in ToSet(a) \cup ToSet(b)
      PROVE  Times(x, a) = Times(x, b)
    <2>1. CASE p = <<>> \/ q = <<>>
        BY <1>4, <1>8, <2>1 DEF Pool
    <2>2. CASE p # <<>> /\ q # <<>>
        <3>1. [y \in ToSet(a) |-> Times(y, a)] = [y \in ToSet(b) |-> Times(y, b)]
            BY <1>0, <1>8, <2>2 DEF Pool, block_pool_hash_from_ids
        <3>2. PICK f, g : /\ f = [y \in ToSet(a) |-> Times(y, a)]
                          /\ g = [y \in ToSet(b) |-> Times(y, b)]
            OBVIOUS
        <3>3. DOMAIN f = ToSet(a) /\ DOMAIN g = ToSet(b) /\ f = g
            BY <3>1, <3>2
        <3>4. f[x] = Times(x, a) /\ g[x] = Times(x, b)
            BY <3>2, <3>3
        <3> QED
            BY <3>3, <3>4
    <2> QED
        BY <2>1, <2>2
<1> QED
    BY <1>0, <1>3, <1>7, <1>8

(* Schedules are compared if and only if they are of the same problem. *)
LEMMA CohortsAreProblems ==
    ASSUME ArrivesAfterRun
    PROVE  SameProblemSameCohort
<1> SUFFICES ASSUME NEW d \in Ingested, NEW e \in Ingested
             PROVE  SameProblem(sample.items[d.id].body, sample.items[e.id].body)
                       = (cohort_key(d.manifest) = cohort_key(e.manifest))
    BY DEF SameProblemSameCohort
<1> DEFINE dataset(x) == OrElse(x.metadata.dataset, "unknown")
           site(x) == OrElse(x.metadata.site, "")
           period(x) == OrElse(x.metadata.period, Horizon(0, 0))
<1>1. ASSUME NEW f \in Ingested
      PROVE  LET x == sample.items[f.id].body IN
             /\ cohort_key(f.manifest) = <<dataset(x), site(x), Round4(period(x).start),
                                           Round4(period(x).end), Pool(x.blocks)>>
             /\ IsList(x.blocks) /\ block_pool_hash_from_ids(Ids(x.blocks)) # None
    <2>1. PICK i \in DOMAIN sample.items :
             /\ f = [id |-> i, manifest |-> Arrives(sample.items[i])]
             /\ Arrives(sample.items[i]) # BadRequest /\ sample.items[i].kind = "schedule"
        BY DEF Ingested, Registered
    <2>2. PICK m, x : x = sample.items[i].body /\ m = ingest_one(x)
        OBVIOUS
    <2>3. f.id = i /\ f.manifest = m /\ m # BadRequest
        BY <2>1, <2>2 DEF Arrives
    <2>4. cohort_key(m) = <<dataset(x), site(x), Round4(period(x).start),
                            Round4(period(x).end), Pool(x.blocks)>>
        BY <2>2, <2>3, IngestedContext DEF Pool
    <2>5. IsList(x.blocks) /\ block_pool_hash_from_ids(Ids(x.blocks)) # None
        BY <2>1, <2>2 DEF ArrivesAfterRun
    <2> QED
        BY <2>2, <2>3, <2>4, <2>5
<1>2. PICK a, b : a = sample.items[d.id].body /\ b = sample.items[e.id].body
    OBVIOUS
<1>3. (\A x \in ToSet(Ids(a.blocks) \o Ids(b.blocks)) :
           Times(x, Ids(a.blocks)) = Times(x, Ids(b.blocks)))
        <=> Pool(a.blocks) = Pool(b.blocks)
    BY <1>1, <1>2, PoolsCount
<1>4. cohort_key(d.manifest) = <<dataset(a), site(a), Round4(period(a).start),
                                 Round4(period(a).end), Pool(a.blocks)>>
    BY <1>1, <1>2
<1>5. cohort_key(e.manifest) = <<dataset(b), site(b), Round4(period(b).start),
                                 Round4(period(b).end), Pool(b.blocks)>>
    BY <1>1, <1>2
<1>6. cohort_key(d.manifest) = cohort_key(e.manifest) <=>
         /\ dataset(a) = dataset(b) /\ site(a) = site(b)
         /\ Round4(period(a).start) = Round4(period(b).start)
         /\ Round4(period(a).end) = Round4(period(b).end)
         /\ Pool(a.blocks) = Pool(b.blocks)
    <2> HIDE DEF dataset, site, period
    <2> QED
        BY <1>4, <1>5
<1>7. SameProblem(a, b) <=>
         /\ dataset(a) = dataset(b) /\ site(a) = site(b)
         /\ Round4(period(a).start) = Round4(period(b).start)
         /\ Round4(period(a).end) = Round4(period(b).end)
         /\ Pool(a.blocks) = Pool(b.blocks)
    BY <1>3 DEF SameProblem
<1>8. SameProblem(a, b) \in BOOLEAN /\ (cohort_key(d.manifest) = cohort_key(e.manifest)) \in BOOLEAN
    BY DEF SameProblem
<1> HIDE DEF dataset, site, period
<1> QED
    BY <1>2, <1>6, <1>7, <1>8

(* The listed of a workspace are told apart by their places. *)
LEMMA EntriesAreNumbered ==
    ASSUME IsList(sample.items)
    PROVE  /\ IsFiniteSet(Registered(sample.items))
           /\ \A d, e \in Registered(sample.items) : d.id = e.id => d = e
           /\ \A e \in Registered(sample.items) :
                 e.id \in DOMAIN sample.items /\ e.manifest = Arrives(sample.items[e.id])
<1> DEFINE sound == {j \in DOMAIN sample.items :
                        Arrives(sample.items[j]) \notin {BadRequest, InvalidManifest}}
           entry == [i \in sound |-> [id |-> i, manifest |-> Arrives(sample.items[i])]]
<1>1. IsFiniteSet(DOMAIN sample.items)
    <2>1. PICK S : sample.items \in Seq(S)
        BY DEF IsList
    <2> QED
        BY <2>1, FS_Interval
<1>2. IsFiniteSet(sound)
    BY <1>1, FS_Subset
<1>3. Registered(sample.items) = {entry[i] : i \in sound}
    BY DEF Registered
<1>4. IsFiniteSet({entry[i] : i \in sound})
    <2> HIDE DEF sound
    <2>1. entry = [i \in sound |-> entry[i]]
        OBVIOUS
    <2> HIDE DEF entry
    <2> QED
        BY <1>2, <2>1, ImageCount
<1>5. \A e \in Registered(sample.items) : \E i \in DOMAIN sample.items :
         e = [id |-> i, manifest |-> Arrives(sample.items[i])]
    BY DEF Registered
<1>6. \A e \in Registered(sample.items) :
         e.id \in DOMAIN sample.items /\ e = [id |-> e.id, manifest |-> Arrives(sample.items[e.id])]
    BY <1>5
<1>7. \A d, e \in Registered(sample.items) : d.id = e.id => d = e
    BY <1>6
<1>8. \A e \in Registered(sample.items) : e.manifest = Arrives(sample.items[e.id])
    BY <1>5
<1> HIDE DEF entry
<1> QED
    BY ONLY <1>3, <1>4, <1>6, <1>7, <1>8

(* A block of the problem as a schedule shows it. *)
Shown(b) == [id |-> b.id, tasks |-> annotate_tasks(b.tasks, sample.placements), start |-> None]

(* A task is shown as placed if and only if it is. *)
LEMMA ShownAsPlaced ==
    ASSUME ArrivesAfterRun, NEW b
    PROVE  /\ Shown(b).id = b.id
           /\ DOMAIN Shown(b).tasks = DOMAIN b.tasks
           /\ \A i \in DOMAIN b.tasks : Shown(b).tasks[i].id = b.tasks[i]
           /\ Placed(Shown(b)) = Has(b)
<1>1. PICK tasks : tasks = annotate_tasks(b.tasks, sample.placements)
    OBVIOUS
<1>2. Shown(b).id = b.id /\ Shown(b).tasks = tasks
    BY <1>1 DEF Shown
<1>3. /\ DOMAIN tasks = DOMAIN b.tasks
      /\ \A i \in DOMAIN b.tasks :
            /\ tasks[i].id = b.tasks[i]
            /\ tasks[i].at = IF b.tasks[i] \in DOMAIN sample.placements
                             THEN sample.placements[b.tasks[i]] ELSE None
    BY <1>1 DEF annotate_tasks
<1>4. \A i \in DOMAIN b.tasks : tasks[i].at # None <=> b.tasks[i] \in DOMAIN sample.placements
    BY <1>3 DEF ArrivesAfterRun
<1> QED
    BY <1>2, <1>3, <1>4 DEF Placed, Has

(* What is scheduled of a block is what its rows and its count show.       *)
LEMMA ScheduleIsHarvested ==
    ASSUME ArrivesAfterRun, NEW metadata, NEW metrics, NEW body,
           body = ScheduleOutput(sample.problem, sample.placements, metadata, metrics)
    PROVE  /\ body.shape = "scheduling_blocks"
           /\ Len(body.blocks) = Cardinality(ToSet(sample.problem))
           /\ {r[1] : r \in harvest_block_rows(body)} =
                 {b.id : b \in {b \in ToSet(sample.problem) : Has(b) # {}}}
           /\ count_completed_blocks(body, body) =
                 Cardinality({b \in ToSet(sample.problem) : Has(b) = DOMAIN b.tasks})
<1>1. PICK S : sample.problem \in Seq(S)
    BY DEF ArrivesAfterRun, IsList
<1>2. PICK n, problem : n = Len(sample.problem) /\ problem = sample.problem
    OBVIOUS
<1>3. n \in Nat /\ DOMAIN problem = 1 .. n /\ problem = [i \in 1 .. n |-> problem[i]]
    BY <1>1, <1>2
<1>0. /\ \A i, j \in DOMAIN problem : problem[i].id = problem[j].id => i = j
      /\ \A i \in DOMAIN problem : IsList(problem[i].tasks) /\ problem[i].tasks # <<>>
    BY <1>2 DEF ArrivesAfterRun
<1>4. /\ body.shape = "scheduling_blocks"
      /\ body.blocks = [i \in 1 .. n |-> Shown(problem[i])]
    BY <1>2, <1>3 DEF ScheduleOutput, Shown
<1>5. ToSet(problem) = {problem[i] : i \in 1 .. n}
    BY <1>3 DEF ToSet
<1>6. ToSet(body.blocks) = {Shown(b) : b \in ToSet(problem)}
    BY <1>4, <1>5, SMTT(30) DEF ToSet
<1>7. Len(body.blocks) = Cardinality(ToSet(problem)) /\ IsFiniteSet(ToSet(problem))
    <2>1. Len(body.blocks) = n
        BY <1>3, <1>4
    <2>2. \A i, j \in 1 .. n : problem[i] = problem[j] => i = j
        BY <1>0, <1>3
    <2>3. IsFiniteSet(1 .. n) /\ Cardinality(1 .. n) = n
        <3>1. /\ IsFiniteSet(1 .. n)
              /\ Cardinality(1 .. n) = IF 1 > n THEN 0 ELSE n - 1 + 1
            <4>1. 1 \in Int /\ n \in Int
                BY <1>3
            <4> QED
                BY ONLY <4>1, FS_Interval
        <3> QED
            BY ONLY <1>3, <3>1
    <2>4. PICK D : D = 1 .. n
        OBVIOUS
    <2>5. /\ IsFiniteSet({problem[i] : i \in D})
          /\ Cardinality({problem[i] : i \in D}) = Cardinality(D)
        BY <1>3, <2>2, <2>3, <2>4, ImageCount
    <2> QED
        BY <1>5, <2>1, <2>3, <2>4, <2>5
<1>8. \A b : /\ Shown(b).id = b.id
             /\ DOMAIN Shown(b).tasks = DOMAIN b.tasks
             /\ \A i \in DOMAIN b.tasks : Shown(b).tasks[i].id = b.tasks[i]
             /\ Placed(Shown(b)) = Has(b)
    BY ShownAsPlaced
<1>9. {r[1] : r \in harvest_block_rows(body)} =
         {b.id : b \in {b \in ToSet(problem) : Has(b) # {}}}
    <2>1. harvest_block_rows(body) =
             {<<b.id, FirstStart(b)>> : b \in {b \in ToSet(body.blocks) : Placed(b) # {}}}
        BY <1>4 DEF harvest_block_rows
    <2>2. {r[1] : r \in harvest_block_rows(body)} =
             {b.id : b \in {b \in ToSet(body.blocks) : Placed(b) # {}}}
        <3> DEFINE placed == {b \in ToSet(body.blocks) : Placed(b) # {}}
        <3>1. \A b \in placed : <<b.id, FirstStart(b)>> \in harvest_block_rows(body)
            BY <2>1
        <3>2. \A r \in harvest_block_rows(body) : \E b \in placed : r[1] = b.id
            BY <2>1
        <3>3. \A b \in placed : \E r \in harvest_block_rows(body) : r[1] = b.id
            BY <3>1
        <3> HIDE DEF placed
        <3>4. {r[1] : r \in harvest_block_rows(body)} = {b.id : b \in placed}
            BY <3>2, <3>3
        <3> QED
            BY <3>4 DEF placed
    <2> QED
        BY <1>6, <1>8, <2>2
<1>10. \A t : (\E p \in collect_task_placements(body) : p[1] = t) <=>
              \E b \in ToSet(problem) : \E i \in Has(b) : b.tasks[i] = t
    <2>1. collect_task_placements(body) =
             UNION {{<<b.tasks[i].id, b.tasks[i].at>> : i \in Placed(b)} : b \in ToSet(body.blocks)}
        BY DEF collect_task_placements
    <2>2. \A p \in collect_task_placements(body) :
             \E b \in ToSet(body.blocks) : \E i \in Placed(b) : p[1] = b.tasks[i].id
        BY <2>1
    <2>3. \A b \in ToSet(body.blocks) : \A i \in Placed(b) :
             \E p \in collect_task_placements(body) : p[1] = b.tasks[i].id
        <3> SUFFICES ASSUME NEW b \in ToSet(body.blocks), NEW i \in Placed(b)
                     PROVE  \E p \in collect_task_placements(body) : p[1] = b.tasks[i].id
            OBVIOUS
        <3>1. <<b.tasks[i].id, b.tasks[i].at>> \in collect_task_placements(body)
            BY <2>1
        <3> QED
            BY <3>1
    <2>4. \A b \in ToSet(problem) : Has(b) \subseteq DOMAIN b.tasks
        BY DEF Has
    <2> QED
        BY <1>6, <1>8, <2>2, <2>3, <2>4
<1>11. \A b \in ToSet(problem) :
          (\A i \in DOMAIN b.tasks : \E p \in collect_task_placements(body) : p[1] = b.tasks[i])
             <=> Has(b) = DOMAIN b.tasks
    <2> SUFFICES ASSUME NEW b \in ToSet(problem)
                 PROVE  (\A i \in DOMAIN b.tasks :
                            \E p \in collect_task_placements(body) : p[1] = b.tasks[i])
                           <=> Has(b) = DOMAIN b.tasks
        OBVIOUS
    <2>1. \A x \in ToSet(problem) : \A i \in DOMAIN x.tasks :
             i \in Has(x) <=> x.tasks[i] \in DOMAIN sample.placements
        BY DEF Has
    <2>2. \A i \in DOMAIN b.tasks : i \in Has(b) <=>
             \E p \in collect_task_placements(body) : p[1] = b.tasks[i]
        <3>1. \A x \in ToSet(problem) : Has(x) \subseteq DOMAIN x.tasks
            BY DEF Has
        <3> QED
            BY <1>10, <2>1, <3>1
    <2>3. Has(b) \subseteq DOMAIN b.tasks
        BY DEF Has
    <2> QED
        BY <2>2, <2>3
<1>12. PICK done : done = {b \in ToSet(problem) : Has(b) = DOMAIN b.tasks}
    OBVIOUS
<1>13. IsFiniteSet(done) /\ done \subseteq ToSet(problem)
    BY <1>7, <1>12, FS_Subset
<1>14. {b \in ToSet(body.blocks) : \A i \in DOMAIN b.tasks :
           \E p \in collect_task_placements(body) : p[1] = b.tasks[i].id} = {Shown(b) : b \in done}
    BY <1>6, <1>8, <1>11, <1>12
<1>15. Cardinality({Shown(b) : b \in done}) = Cardinality(done)
    <2> DEFINE f == [b \in done |-> Shown(b)]
    <2>1. \A a, b \in done : f[a] = f[b] => a = b
        <3>1. \A a, b \in ToSet(problem) : a.id = b.id => a = b
            BY <1>0, <1>3, <1>5
        <3> QED
            BY <1>8, <1>13, <3>1
    <2>2. {f[b] : b \in done} = {Shown(b) : b \in done} /\ f = [b \in done |-> f[b]]
        OBVIOUS
    <2> HIDE DEF f
    <2> QED
        BY <1>13, <2>1, <2>2, ImageCount
<1>16. collect_task_placements(body) = {} => done = {}
    <2> SUFFICES ASSUME collect_task_placements(body) = {}, NEW b \in done
                 PROVE  FALSE
        OBVIOUS
    <2>1. DOMAIN b.tasks = {}
        BY <1>11, <1>12
    <2>2. IsList(b.tasks) /\ b.tasks # <<>>
        BY <1>0, <1>3, <1>5, <1>12
    <2>3. PICK T : b.tasks \in Seq(T)
        BY <2>2 DEF IsList
    <2>4. 1 \in DOMAIN b.tasks
        BY <2>2, <2>3
    <2> QED
        BY <2>1, <2>4
<1>17. count_completed_blocks(body, body) = Cardinality(done)
    BY <1>14, <1>15, <1>16, FS_EmptySet DEF count_completed_blocks
<1> QED
    BY <1>2, <1>4, <1>7, <1>9, <1>12, <1>17

(* The schedule of the run can be resolved, as a schedule and as a problem, *)
(* as long as its file is kept.                                            *)
LEMMA RunIsResolved ==
    ASSUME ArrivesAfterRun, NEW e \in Ingested, e.id = 1,
           sample.items[1].body \in sample.space.kept
    PROVE  LET body == sample.items[1].body IN
           /\ period_of(e.manifest) = OrElse(body.metadata.period, Horizon(0, 0))
           /\ manifest_has_resolvable_schedule(sample.space, e.manifest)
           /\ resolve_schedule_for_manifest(sample.space, e.manifest) = body
           /\ body \notin Errors \cup {None}
           /\ \E metadata, metrics :
                 body = ScheduleOutput(sample.problem, sample.placements, metadata, metrics)
<1>1. PICK i \in DOMAIN sample.items :
         /\ e = [id |-> i, manifest |-> Arrives(sample.items[i])]
         /\ Arrives(sample.items[i]) # BadRequest
         /\ sample.items[e.id].kind = "schedule"
    BY DEF Ingested, Registered
<1>2. PICK body, m : body = sample.items[1].body /\ m = ingest_one(body)
    OBVIOUS
<1>3. e.manifest = m /\ m # BadRequest
    BY <1>1, <1>2 DEF Arrives
<1>4. m.uri = "ws" /\ m.sha = body
    BY <1>2, <1>3, IngestedManifest
<1>8. period_of(m) = OrElse(body.metadata.period, Horizon(0, 0))
    BY <1>2, <1>3, IngestedContext
<1>5. PICK S : sample.items \in Seq(S)
    BY DEF ArrivesAfterRun, IsList
<1>6. sample.items # <<>>
    BY <1>1, <1>5
<1>7. /\ body \notin Errors \cup {None}
      /\ \E metadata, metrics :
            body = ScheduleOutput(sample.problem, sample.placements, metadata, metrics)
    BY <1>2, <1>6 DEF ArrivesAfterRun
<1>9. /\ manifest_has_resolvable_schedule(sample.space, m)
      /\ resolve_schedule_for_manifest(sample.space, m) = body
    BY <1>2, <1>4 DEF manifest_has_resolvable_schedule, resolve_schedule_for_manifest
<1> QED
    BY <1>2, <1>3, <1>7, <1>8, <1>9

(* What a run scheduled is counted and listed.                             *)
LEMMA RunIsCounted ==
    ASSUME ArrivesAfterRun
    PROVE  ScheduledIsCounted
<1> SUFFICES ASSUME NEW e \in Ingested, e.id = 1, sample.items[1].body \in sample.space.kept
             PROVE  LET listed == Registered(sample.items)
                        blocks == ToSet(sample.problem)
                        rows == cohort_blocks(sample.space, listed, cohort_key(e.manifest))
                        shown == comparison_summary(sample.space, listed)
                        period == OrElse(sample.items[1].body.metadata.period, Horizon(0, 0))
                    IN  /\ \A s \in shown : s.id = 1 =>
                             s.ratios =
                                IF <<sample.items[1].body, period>> \in sample.space.failing THEN None
                                ELSE [total |-> Cardinality(blocks),
                                      completed |->
                                         Cardinality({b \in blocks : Has(b) = DOMAIN b.tasks})]
                        /\ rows \notin Errors =>
                             {r[1] : r \in {r \in rows : r[2] = 1}}
                                = {b.id : b \in {b \in blocks : Has(b) # {}}}
    BY DEF ScheduledIsCounted
<1>1. PICK body, m, w : body = sample.items[1].body /\ m = e.manifest /\ w = sample.space
    OBVIOUS
<1>2. /\ manifest_has_resolvable_schedule(w, m)
      /\ resolve_schedule_for_manifest(w, m) = body
      /\ body \notin Errors \cup {None} /\ body \in w.kept
      /\ period_of(m) = OrElse(body.metadata.period, Horizon(0, 0))
    BY <1>1, RunIsResolved
<1>3. /\ body.shape = "scheduling_blocks"
      /\ Len(body.blocks) = Cardinality(ToSet(sample.problem))
      /\ {r[1] : r \in harvest_block_rows(body)} =
            {b.id : b \in {b \in ToSet(sample.problem) : Has(b) # {}}}
      /\ count_completed_blocks(body, body) =
            Cardinality({b \in ToSet(sample.problem) : Has(b) = DOMAIN b.tasks})
    <2>1. PICK metadata, metrics :
             body = ScheduleOutput(sample.problem, sample.placements, metadata, metrics)
        BY <1>1, RunIsResolved
    <2> QED
        BY <2>1, ScheduleIsHarvested
<1>4. resolve_problem_for_manifest(w, m) = body /\ body # None /\ body \notin Errors
    BY <1>2, <1>3 DEF resolve_problem_for_manifest, Parses
<1>5. PICK counts :
         counts = [total |-> Cardinality(ToSet(sample.problem)),
                   completed |-> Cardinality({b \in ToSet(sample.problem) : Has(b) = DOMAIN b.tasks})]
    OBVIOUS
<1>10. block_ratios_for_manifest(w, m) =
          IF <<body, period_of(m)>> \in w.failing THEN [ok |-> FALSE, ratios |-> None]
          ELSE [ok |-> TRUE, ratios |-> counts]
    BY <1>2, <1>3, <1>4, <1>5 DEF block_ratios_for_manifest
<1>11. \A x \in Registered(sample.items) : x.id = 1 => x = e
    <2>1. e \in Registered(sample.items)
        BY DEF Ingested
    <2> QED
        BY <2>1, EntriesAreNumbered DEF ArrivesAfterRun
<1>12. ASSUME NEW s \in comparison_summary(w, Registered(sample.items)), s.id = 1
       PROVE  s.ratios = IF <<body, period_of(m)>> \in w.failing THEN None ELSE counts
    <2>1. PICK x \in Registered(sample.items) :
             /\ s.id = x.id
             /\ s.ratios = IF block_ratios_for_manifest(w, x.manifest).ok
                             THEN block_ratios_for_manifest(w, x.manifest).ratios ELSE None
        BY DEF comparison_summary
    <2>2. x.manifest = m
        BY <1>1, <1>11, <1>12, <2>1
    <2> QED
        BY <1>10, <2>1, <2>2
<1>6. PICK rows : rows = cohort_blocks(w, Registered(sample.items), cohort_key(m))
    OBVIOUS
<1>7. PICK found : found = {x \in Registered(sample.items) :
                               /\ cohort_key(x.manifest) = cohort_key(m)
                               /\ manifest_has_resolvable_schedule(w, x.manifest)}
    OBVIOUS
<1>8. e \in found /\ \A x \in found : x.id = 1 => x = e
    <2>1. e \in Registered(sample.items)
        BY DEF Ingested
    <2> QED
        BY <1>1, <1>2, <1>7, <1>11, <2>1
<1>9. ASSUME rows \notin Errors
      PROVE  {r[1] : r \in {r \in rows : r[2] = 1}} = {r[1] : r \in harvest_block_rows(body)}
    <2>1. rows = UNION {{<<row[1], x.id, row[2]>> :
                row \in harvest_block_rows(resolve_schedule_for_manifest(w, x.manifest))} : x \in found}
        <3>1. PICK broken : broken =
                 {resolve_schedule_for_manifest(w, x.manifest) : x \in found}
                    \cap {BadRequest, InvalidManifest}
            OBVIOUS
        <3>2. broken # {} => (CHOOSE error \in broken : TRUE) \in Errors
            BY <3>1 DEF Errors
        <3> QED
            BY <1>6, <1>7, <1>9, <3>1, <3>2 DEF cohort_blocks
    <2>2. \A r \in rows : r[2] = 1 => \E row \in harvest_block_rows(body) : r[1] = row[1]
        <3> SUFFICES ASSUME NEW r \in rows, r[2] = 1
                     PROVE  \E row \in harvest_block_rows(body) : r[1] = row[1]
            OBVIOUS
        <3>1. PICK x \in found :
                 \E row \in harvest_block_rows(resolve_schedule_for_manifest(w, x.manifest)) :
                    r = <<row[1], x.id, row[2]>>
            BY <2>1
        <3>2. x.id = 1
            BY <3>1
        <3> QED
            BY <1>1, <1>2, <1>8, <3>1, <3>2
    <2>3. \A row \in harvest_block_rows(body) : <<row[1], 1, row[2]>> \in rows
        <3> SUFFICES ASSUME NEW row \in harvest_block_rows(body)
                     PROVE  <<row[1], 1, row[2]>> \in rows
            OBVIOUS
        <3>1. <<row[1], e.id, row[2]>> \in {<<q[1], e.id, q[2]>> :
                 q \in harvest_block_rows(resolve_schedule_for_manifest(w, e.manifest))}
            BY <1>1, <1>2
        <3> QED
            BY <1>8, <2>1, <3>1
    <2>4. \A row \in harvest_block_rows(body) : \E r \in {r \in rows : r[2] = 1} : r[1] = row[1]
        <3> SUFFICES ASSUME NEW row \in harvest_block_rows(body)
                     PROVE  \E r \in {r \in rows : r[2] = 1} : r[1] = row[1]
            OBVIOUS
        <3>1. PICK r : r = <<row[1], 1, row[2]>>
            OBVIOUS
        <3>2. r \in rows /\ r[1] = row[1] /\ r[2] = 1
            BY <2>3, <3>1
        <3> QED
            BY <3>2
    <2> QED
        BY <2>2, <2>4
<1> QED
    BY <1>1, <1>2, <1>3, <1>5, <1>6, <1>9, <1>12

(* The list of cohorts counts what the comparison shows.                   *)
LEMMA CohortsAreCounted ==
    ASSUME IsList(sample.items)
    PROVE  ViewsAgree
<1>0. PICK w, listed, shown, cohorts :
         /\ w = sample.space /\ listed = Registered(sample.items)
         /\ shown = comparison_summary(w, listed) /\ cohorts = list_cohorts(w, listed)
    OBVIOUS
<1> DEFINE has(e) == manifest_has_resolvable_schedule(w, e.manifest)
           key(e) == cohort_key(e.manifest)
<1>1. PICK view : view = [e \in listed |->
           [id |-> e.id, status |-> e.manifest.status, has_full_schedule |-> has(e),
            cohort_key |-> key(e),
            ratios |-> IF block_ratios_for_manifest(w, e.manifest).ok
                         THEN block_ratios_for_manifest(w, e.manifest).ratios ELSE None]]
    OBVIOUS
<1>2. shown = {view[e] : e \in listed}
    BY <1>0, <1>1 DEF comparison_summary
<1>3. \A e \in listed : /\ view[e].id = e.id /\ view[e].cohort_key = key(e)
                         /\ view[e].has_full_schedule = has(e)
    BY <1>1
<1>4. IsFiniteSet(listed) /\ \A d, e \in listed : d.id = e.id => d = e
    BY <1>0, EntriesAreNumbered
<1>5. \A S \in SUBSET listed : Cardinality({view[e] : e \in S}) = Cardinality(S)
    <2> SUFFICES ASSUME NEW S \in SUBSET listed
                 PROVE  Cardinality({view[e] : e \in S}) = Cardinality(S)
        OBVIOUS
    <2>1. PICK f : f = [e \in S |-> view[e]]
        OBVIOUS
    <2>2. f = [e \in S |-> f[e]] /\ {f[e] : e \in S} = {view[e] : e \in S}
        BY <2>1
    <2>3. \A d, e \in S : f[d] = f[e] => d = e
        BY <1>3, <1>4, <2>1
    <2>4. IsFiniteSet(S)
        BY <1>4, FS_Subset
    <2>5. DOMAIN f = S
        BY <2>1
    <2>6. Cardinality({f[e] : e \in S}) = Cardinality(S)
        BY ONLY <2>2, <2>3, <2>4, <2>5, ImageCount
    <2> QED
        BY ONLY <2>2, <2>6
<1>6. cohorts = [k \in {key(e) : e \in listed} |->
         [manifest_count |-> Cardinality({e \in listed : key(e) = k}),
          schedule_count |-> Cardinality({e \in {e \in listed : key(e) = k} : has(e)})]]
    BY <1>0 DEF list_cohorts
<1>7. DOMAIN cohorts = {key(e) : e \in listed}
    BY <1>6
<1> HIDE DEF key, has
<1>8. \A s \in shown : s.cohort_key \in DOMAIN cohorts
    BY <1>2, <1>3, <1>7
<1>9. ASSUME NEW k \in DOMAIN cohorts
      PROVE  LET of == {s \in shown : s.cohort_key = k}
                 full == {s \in of : s.has_full_schedule}
                 rows == cohort_blocks(w, listed, k)
             IN  /\ cohorts[k] = [manifest_count |-> Cardinality(of),
                                  schedule_count |-> Cardinality(full)]
                 /\ rows \notin Errors => {r[2] : r \in rows} \subseteq {s.id : s \in full}
    <2>1. PICK E, F : E = {e \in listed : key(e) = k} /\ F = {e \in E : has(e)}
        OBVIOUS
    <2>2. PICK of, full : of = {s \in shown : s.cohort_key = k} /\ full = {s \in of : s.has_full_schedule}
        OBVIOUS
    <2>3. of = {view[e] : e \in E}
        BY <1>2, <1>3, <2>1, <2>2
    <2>4. full = {view[e] : e \in F}
        BY <1>2, <1>3, <2>1, <2>2, <2>3
    <2>5. cohorts[k] = [manifest_count |-> Cardinality(E), schedule_count |-> Cardinality(F)]
        BY <1>6, <1>7, <2>1
    <2>6. Cardinality(of) = Cardinality(E) /\ Cardinality(full) = Cardinality(F)
        BY <1>5, <2>1, <2>3, <2>4
    <2>7. PICK rows : rows = cohort_blocks(w, listed, k)
        OBVIOUS
    <2>8. ASSUME rows \notin Errors, NEW r \in rows PROVE r[2] \in {s.id : s \in full}
        <3>1. rows = UNION {{<<row[1], x.id, row[2]>> :
                 row \in harvest_block_rows(resolve_schedule_for_manifest(w, x.manifest))} : x \in F}
            <4>1. PICK broken : broken =
                     {resolve_schedule_for_manifest(w, x.manifest) : x \in F}
                        \cap {BadRequest, InvalidManifest}
                OBVIOUS
            <4>2. broken # {} => (CHOOSE error \in broken : TRUE) \in Errors
                BY <4>1 DEF Errors
            <4>3. F = {e \in listed : /\ cohort_key(e.manifest) = k
                                       /\ manifest_has_resolvable_schedule(w, e.manifest)}
                BY <2>1 DEF key, has
            <4> QED
                BY <2>7, <2>8, <4>1, <4>2, <4>3 DEF cohort_blocks
        <3>2. PICK x \in F : r[2] = x.id
            BY <3>1
        <3>3. view[x] \in full /\ view[x].id = x.id
            BY <1>3, <2>1, <2>4
        <3> QED
            BY <3>2, <3>3
    <2> QED
        BY <2>2, <2>5, <2>6, <2>7, <2>8
<1> QED
    BY <1>0, <1>8, <1>9 DEF ViewsAgree

(* Whatever arrives at a workspace after the schedule of a run, its views  *)
(* show what the run scheduled, compared with schedules of the same        *)
(* problem and no others, and agree with each other.                       *)
THEOREM ViewsAlwaysConsistent ==
    ASSUME About("views") => ArrivesAfterRun
    PROVE  ViewsAreConsistent
<1>1. CASE About("views")
    BY <1>1, CohortsAreProblems, RunIsCounted, StatusIsHonest, CohortsAreCounted
       DEF ViewsAreConsistent, ArrivesAfterRun
<1>2. CASE ~ About("views")
    BY <1>2 DEF ViewsAreConsistent, SameProblemSameCohort, ScheduledIsCounted,
       StatusNeverHidesErrors, ViewsAgree
<1> QED
    BY <1>1, <1>2
-----------------------------------------------------------------------------
(* What a sweep runs *)

(* The quarters of a horizon follow each other.                            *)
LEMMA QuarterFacts ==
    ASSUME NEW s \in Int, NEW span \in Nat
    PROVE  /\ s + (span * 0) \div 4 = s
           /\ s + (span * 4) \div 4 = s + span
           /\ s + (span * 1) \div 4 \in s .. (s + span)
           /\ s + (span * 2) \div 4 \in (s + (span * 1) \div 4) .. (s + span)
           /\ s + (span * 3) \div 4 \in (s + (span * 2) \div 4) .. (s + span)
    BY Z3

(* Layouts of one cursor, of two and of four.                              *)
LEMMA OneTiles ==
    ASSUME NEW h \in [start : Int, end : Int], h.start <= h.end,
           NEW l, l \in {single_forward(h), single_backward(h)}
    PROVE  /\ UNION {Ticks(l[c]) : c \in DOMAIN l} = h.start .. (h.end - 1)
           /\ \A c, d \in DOMAIN l : c # d => Ticks(l[c]) \cap Ticks(l[d]) = {}
<1>1. h.start \in Int /\ h.end \in Int /\ h.end - h.start \in Nat
    OBVIOUS
<1>2. DOMAIN l = {0} /\ l[0].lo.at = h.start /\ l[0].hi.at = h.end
    <2>1. /\ h.start + ((h.end - h.start) * 0) \div 4 = h.start
          /\ h.start + ((h.end - h.start) * 4) \div 4 = h.end
        BY <1>1, QuarterFacts
    <2> QED
        BY <2>1 DEF single_forward, single_backward, CursorForward, CursorBackward, Cursor,
                    FractionRange, Sitting
<1> QED
    BY <1>1, <1>2 DEF Ticks

LEMMA TwoTile ==
    ASSUME NEW h \in [start : Int, end : Int], h.start <= h.end,
           NEW l, l \in {cursors("est_lst_split", h), cursors("start_mid_forward", h)}
    PROVE  /\ UNION {Ticks(l[c]) : c \in DOMAIN l} = h.start .. (h.end - 1)
           /\ \A c, d \in DOMAIN l : c # d => Ticks(l[c]) \cap Ticks(l[d]) = {}
<1>1. h.start \in Int /\ h.end \in Int /\ h.end - h.start \in Nat
    OBVIOUS
<1>2. PICK m : m = h.start + ((h.end - h.start) * 2) \div 4
    OBVIOUS
<1>3. m \in Int /\ h.start <= m /\ m <= h.end
    BY <1>1, <1>2, QuarterFacts
<1>4. /\ DOMAIN l = 0 .. 1 /\ l[0].lo.at = h.start /\ l[0].hi.at = m
      /\ l[1].lo.at = m /\ l[1].hi.at = h.end
    <2>1. /\ h.start + ((h.end - h.start) * 0) \div 4 = h.start
          /\ h.start + ((h.end - h.start) * 4) \div 4 = h.end
        BY <1>1, QuarterFacts
    <2> QED
        BY <1>2, <2>1 DEF cursors, CursorForward, CursorBackward, Cursor, FrontHalf, BackHalf,
                          FractionRange, Sitting
<1>5. Ticks(l[0]) = h.start .. (m - 1) /\ Ticks(l[1]) = m .. (h.end - 1)
    BY <1>4 DEF Ticks
<1>6. {Ticks(l[c]) : c \in DOMAIN l} = {Ticks(l[0]), Ticks(l[1])}
    BY <1>4
<1>7. UNION {Ticks(l[c]) : c \in DOMAIN l} = h.start .. (h.end - 1)
    <2>1. UNION {Ticks(l[c]) : c \in DOMAIN l} = Ticks(l[0]) \cup Ticks(l[1])
        BY <1>6
    <2>2. PICK a, b : a = h.start /\ b = h.end
        OBVIOUS
    <2>3. (a .. (m - 1)) \cup (m .. (b - 1)) = a .. (b - 1)
        BY <1>1, <1>3, <2>2
    <2> QED
        BY <1>5, <2>1, <2>2, <2>3
<1> QED
    BY <1>1, <1>3, <1>4, <1>5, <1>7

LEMMA FourTile ==
    ASSUME NEW h \in [start : Int, end : Int], h.start <= h.end,
           NEW l, l = four_quarter_forward(h)
    PROVE  /\ UNION {Ticks(l[c]) : c \in DOMAIN l} = h.start .. (h.end - 1)
           /\ \A c, d \in DOMAIN l : c # d => Ticks(l[c]) \cap Ticks(l[d]) = {}
<1>1. h.start \in Int /\ h.end \in Int /\ h.end - h.start \in Nat
    OBVIOUS
<1>2. PICK q : q = [n \in 0 .. 4 |-> h.start + ((h.end - h.start) * n) \div 4]
    OBVIOUS
<1>3. /\ \A n \in 0 .. 4 : q[n] \in Int
      /\ q[0] = h.start /\ q[4] = h.end
      /\ q[0] <= q[1] /\ q[1] <= q[2] /\ q[2] <= q[3] /\ q[3] <= q[4]
    BY <1>1, <1>2, QuarterFacts
<1>4. DOMAIN l = 0 .. 3 /\ \A c \in 0 .. 3 : Ticks(l[c]) = q[c] .. (q[c + 1] - 1)
    <2>1. DOMAIN l = 0 .. 3
        BY DEF four_quarter_forward
    <2>2. ASSUME NEW c \in 0 .. 3
          PROVE  Ticks(l[c]) = q[c] .. (q[c + 1] - 1)
        <3>1. c \in 0 .. 4 /\ c + 1 \in 0 .. 4
            OBVIOUS
        <3>2. /\ q[c] = h.start + ((h.end - h.start) * c) \div 4
              /\ q[c + 1] = h.start + ((h.end - h.start) * (c + 1)) \div 4
            BY <1>2, <3>1
        <3>3. l[c] = CursorForward(FractionRange(h, c, c + 1))
            BY DEF four_quarter_forward
        <3>4. l[c].lo.at = q[c] /\ l[c].hi.at = q[c + 1]
            BY <3>2, <3>3 DEF CursorForward, Cursor, FractionRange, Sitting
        <3> QED
            BY <3>4 DEF Ticks
    <2> QED
        BY <2>1, <2>2
<1>5. {Ticks(l[c]) : c \in DOMAIN l} = {Ticks(l[0]), Ticks(l[1]), Ticks(l[2]), Ticks(l[3])}
    BY <1>4
<1>6. PICK a, b, c, d, e : a = q[0] /\ b = q[1] /\ c = q[2] /\ d = q[3] /\ e = q[4]
    OBVIOUS
<1>7. /\ {a, b, c, d, e} \subseteq Int /\ a <= b /\ b <= c /\ c <= d /\ d <= e
      /\ a = h.start /\ e = h.end
    BY <1>3, <1>6
<1>8. /\ Ticks(l[0]) = a .. (b - 1) /\ Ticks(l[1]) = b .. (c - 1)
      /\ Ticks(l[2]) = c .. (d - 1) /\ Ticks(l[3]) = d .. (e - 1)
    BY <1>4, <1>6
<1>9. UNION {Ticks(l[n]) : n \in DOMAIN l} = h.start .. (h.end - 1)
    <2>1. UNION {Ticks(l[n]) : n \in DOMAIN l} =
             Ticks(l[0]) \cup Ticks(l[1]) \cup Ticks(l[2]) \cup Ticks(l[3])
        BY <1>5
    <2>2. (a .. (b - 1)) \cup (b .. (c - 1)) \cup (c .. (d - 1)) \cup (d .. (e - 1)) = a .. (e - 1)
        BY <1>7
    <2> QED
        BY <1>7, <1>8, <2>1, <2>2
<1>10. \A m, n \in 0 .. 3 : m # n => Ticks(l[m]) \cap Ticks(l[n]) = {}
    <2>1. /\ Ticks(l[0]) \cap Ticks(l[1]) = {} /\ Ticks(l[0]) \cap Ticks(l[2]) = {}
          /\ Ticks(l[0]) \cap Ticks(l[3]) = {} /\ Ticks(l[1]) \cap Ticks(l[2]) = {}
          /\ Ticks(l[1]) \cap Ticks(l[3]) = {} /\ Ticks(l[2]) \cap Ticks(l[3]) = {}
        BY <1>7, <1>8
    <2>2. ASSUME NEW m \in 0 .. 3, NEW n \in 0 .. 3, m # n
          PROVE  Ticks(l[m]) \cap Ticks(l[n]) = {}
        <3>1. (m = 0 \/ m = 1 \/ m = 2 \/ m = 3) /\ (n = 0 \/ n = 1 \/ n = 2 \/ n = 3)
            OBVIOUS
        <3> QED
            BY <2>1, <2>2, <3>1
    <2> QED
        BY <2>2
<1> QED
    BY <1>4, <1>9, <1>10

(* A layout in which the first cursor runs up to the second.               *)
LEMMA MeetingTile ==
    ASSUME NEW h \in [start : Int, end : Int], h.start <= h.end,
           NEW l, l \in {cursors("dynamic_est_lst_meet", h), cursors("dynamic_start_mid_forward", h)}
    PROVE  /\ UNION {Ticks(l[c]) : c \in DOMAIN l} = h.start .. (h.end - 1)
           /\ ~ Fixed(l)
<1>1. h.start \in Int /\ h.end \in Int /\ h.end - h.start \in Nat
    OBVIOUS
<1>2. PICK m : m = h.start + ((h.end - h.start) * 2) \div 4
    OBVIOUS
<1>3. m \in Int /\ h.start <= m /\ m <= h.end
    BY <1>1, <1>2, QuarterFacts
<1>4. /\ DOMAIN l = 0 .. 1 /\ l[0].lo.at = h.start /\ l[0].hi.at = h.end
      /\ l[1].lo.at \in {h.start, m} /\ l[1].hi.at = h.end /\ l[0].hi.follows = 1
    <2>1. h.start + ((h.end - h.start) * 4) \div 4 = h.end
        BY <1>1, QuarterFacts
    <2> QED
        BY <1>2, <2>1 DEF cursors, CursorForward, CursorBackward, Cursor, UpTo, DownTo, BackHalf,
                          FractionRange, Sitting, Above, Below
<1>5. Ticks(l[0]) = h.start .. (h.end - 1) /\ Ticks(l[1]) \subseteq h.start .. (h.end - 1)
    BY <1>1, <1>3, <1>4 DEF Ticks
<1>6. {Ticks(l[c]) : c \in DOMAIN l} = {Ticks(l[0]), Ticks(l[1])}
    BY <1>4
<1>7. ~ Fixed(l)
    BY <1>4, NoCursorIsNoNumber DEF Fixed
<1> QED
    BY <1>5, <1>6, <1>7

(* The layouts are those that there are.                                   *)
LEMMA LayoutsTile ==
    ASSUME About("layout") => sample.horizon \in [start : Int, end : Int]
                              /\ sample.horizon.start <= sample.horizon.end
    PROVE  LayoutsTileHorizon /\ NamesMeanPresets
<1> SUFFICES ASSUME About("layout") PROVE LayoutsTileHorizon /\ NamesMeanPresets
    BY DEF LayoutsTileHorizon, NamesMeanPresets
<1>1. PICK h : h = sample.horizon
    OBVIOUS
<1>2. h \in [start : Int, end : Int] /\ h.start <= h.end
    BY <1>1
<1>3. /\ cursors("four_quarter_forward", h) = four_quarter_forward(h)
      /\ cursors("dynamic_est_lst_meet", h) = dynamic_est_lst_meet(h)
      /\ cursors("dynamic_start_mid_forward", h) = dynamic_start_mid_forward(h)
    BY DEF cursors, four_quarter_forward, dynamic_est_lst_meet, dynamic_start_mid_forward,
           UpTo, DownTo, BackHalf
<1>4. ASSUME NEW l \in Layouts(h)
      PROVE  /\ UNION {Ticks(l[c]) : c \in DOMAIN l} = h.start .. (h.end - 1)
             /\ Fixed(l) => \A c, d \in DOMAIN l : c # d => Ticks(l[c]) \cap Ticks(l[d]) = {}
    <2>1. \/ l \in {single_forward(h), single_backward(h)}
          \/ l \in {cursors("est_lst_split", h), cursors("start_mid_forward", h)}
          \/ l = four_quarter_forward(h)
          \/ l \in {cursors("dynamic_est_lst_meet", h), cursors("dynamic_start_mid_forward", h)}
        BY <1>3 DEF Layouts, LayoutNames
    <2> QED
        BY <1>2, <2>1, OneTiles, TwoTile, FourTile, MeetingTile
<1> QED
    BY <1>1, <1>3, <1>4 DEF LayoutsTileHorizon, NamesMeanPresets

(* A specification as its reader builds it: every block has the axes of    *)
(* its kind, each a set of values.                                         *)
AxesOf(kind, V) ==
    CASE kind \in {"est", "lst"} ->
           [foms : SUBSET V, endangered : SUBSET V, kBeams : SUBSET V, branching : SUBSET V]
      [] kind = "multi_cursor" ->
           [foms : SUBSET V, endangered : SUBSET V, kBeams : SUBSET V, branching : SUBSET V,
            layouts : SUBSET V]
      [] kind = "hap" ->
           [iota : SUBSET V, rho : SUBSET V, population : SUBSET V, modes : SUBSET V,
            caps : SUBSET V, seeds : SUBSET V]
AlgorithmKinds == {"est", "lst", "multi_cursor", "hap"}
IsBlock(algorithm) ==
    \E kind \in AlgorithmKinds : \E V : \E axes \in AxesOf(kind, V) :
        algorithm = [kind |-> kind, axes |-> axes]
SpecIsRead(spec) ==
    /\ spec = [datasets |-> spec.datasets, algorithms |-> spec.algorithms]
    /\ IsList(spec.datasets) /\ IsList(spec.algorithms)
    /\ \A j \in DOMAIN spec.algorithms : IsBlock(spec.algorithms[j])

(* The configurations of a block, field by field.                          *)
LEMMA ConfigFacts ==
    ASSUME NEW algorithm, IsBlock(algorithm)
    PROVE  /\ Expand(algorithm) # {}
           /\ \A c \in Expand(algorithm) : c.kind = algorithm.kind
           /\ algorithm.kind \in {"est", "lst"} => \A c \in Expand(algorithm) :
                 c = [kind |-> c.kind, fom |-> c.fom, endangered |-> c.endangered,
                      kBeams |-> c.kBeams, branching |-> c.branching]
           /\ algorithm.kind = "multi_cursor" => \A c \in Expand(algorithm) :
                 c = [kind |-> c.kind, fom |-> c.fom, endangered |-> c.endangered,
                      kBeams |-> c.kBeams, branching |-> c.branching, layout |-> c.layout]
           /\ algorithm.kind = "hap" => \A c \in Expand(algorithm) :
                 c = [kind |-> c.kind, iota |-> c.iota, rho |-> c.rho,
                      population |-> c.population, mode |-> c.mode, cap |-> c.cap,
                      seed |-> c.seed]
           /\ algorithm.kind \in AlgorithmKinds
<1>1. \A axis, default : pick_or_default(axis, default) # {}
    BY DEF pick_or_default
<1>2. algorithm.kind \in AlgorithmKinds
    BY DEF IsBlock
<1>3. CASE algorithm.kind \in {"est", "lst"}
    <2>1. PICK f, e, k, b : /\ f \in pick_or_default(algorithm.axes.foms, DefaultFom)
                            /\ e \in pick_or_default(algorithm.axes.endangered, 1)
                            /\ k \in pick_or_default(algorithm.axes.kBeams, 1)
                            /\ b \in pick_or_default(algorithm.axes.branching, 1)
        BY <1>1
    <2>2. Expand(algorithm) = BeamConfigs(algorithm.kind, algorithm.axes)
        BY <1>3 DEF Expand
    <2>3. [kind |-> algorithm.kind, fom |-> f, endangered |-> e, kBeams |-> k, branching |-> b]
             \in Expand(algorithm)
        BY <2>1, <2>2 DEF BeamConfigs
    <2>4. \A c \in Expand(algorithm) : c.kind = algorithm.kind
        BY <1>3, <2>2 DEF BeamConfigs
    <2>5. \A c \in Expand(algorithm) :
             c = [kind |-> c.kind, fom |-> c.fom, endangered |-> c.endangered,
                    kBeams |-> c.kBeams, branching |-> c.branching]
        BY <2>2 DEF BeamConfigs
    <2> QED
        BY ONLY <1>2, <1>3, <2>3, <2>4, <2>5
<1>4. CASE algorithm.kind = "multi_cursor"
    <2>1. PICK f, e, k, b, l : /\ f \in pick_or_default(algorithm.axes.foms, DefaultFom)
                               /\ e \in pick_or_default(algorithm.axes.endangered, 1)
                               /\ k \in pick_or_default(algorithm.axes.kBeams, 1)
                               /\ b \in pick_or_default(algorithm.axes.branching, 1)
                               /\ l \in pick_or_default(algorithm.axes.layouts, "est_lst_split")
        BY <1>1
    <2>2. Expand(algorithm) = insert_multi_cursor_configs(algorithm.axes)
        BY <1>4 DEF Expand
    <2>3. [kind |-> "multi_cursor", fom |-> f, endangered |-> e, kBeams |-> k, branching |-> b,
           layout |-> l] \in Expand(algorithm)
        BY <2>1, <2>2 DEF insert_multi_cursor_configs
    <2>4. \A c \in Expand(algorithm) : c.kind = algorithm.kind
        BY <1>4, <2>2 DEF insert_multi_cursor_configs
    <2>5. \A c \in Expand(algorithm) :
             c = [kind |-> c.kind, fom |-> c.fom, endangered |-> c.endangered,
                    kBeams |-> c.kBeams, branching |-> c.branching, layout |-> c.layout]
        BY <2>2 DEF insert_multi_cursor_configs
    <2> QED
        BY ONLY <1>2, <1>4, <2>3, <2>4, <2>5
<1>5. CASE algorithm.kind = "hap"
    <2>1. PICK i, r, n, m, k, s : /\ i \in pick_or_default(algorithm.axes.iota, 128)
                                  /\ r \in pick_or_default(algorithm.axes.rho, 3)
                                  /\ n \in pick_or_default(algorithm.axes.population, 4)
                                  /\ m \in pick_or_default(algorithm.axes.modes, "elitist_top_k")
                                  /\ k \in pick_or_default(algorithm.axes.caps, 4)
                                  /\ s \in pick_or_default(algorithm.axes.seeds, 0)
        BY <1>1
    <2>2. Expand(algorithm) = insert_hap_configs(algorithm.axes)
        BY <1>5 DEF Expand
    <2>3. [kind |-> "hap", iota |-> i, rho |-> r, population |-> n, mode |-> m, cap |-> k,
           seed |-> s] \in Expand(algorithm)
        BY <2>1, <2>2 DEF insert_hap_configs
    <2>4. \A c \in Expand(algorithm) : c.kind = algorithm.kind
        BY <1>5, <2>2 DEF insert_hap_configs
    <2>5. \A c \in Expand(algorithm) :
             c = [kind |-> c.kind, iota |-> c.iota, rho |-> c.rho,
                    population |-> c.population, mode |-> c.mode, cap |-> c.cap,
                    seed |-> c.seed]
        BY <2>2 DEF insert_hap_configs
    <2> QED
        BY ONLY <1>2, <1>5, <2>3, <2>4, <2>5
<1> QED
    BY <1>2, <1>3, <1>4, <1>5 DEF AlgorithmKinds

(* What a slug says of its configuration.                                  *)
LEMMA SuffixTellsFom ==
    ASSUME NEW e1, NEW k1, NEW b1, NEW f1, NEW e2, NEW k2, NEW b2, NEW f2,
           <<e1, k1, b1>> \o FomSuffix(f1) = <<e2, k2, b2>> \o FomSuffix(f2)
    PROVE  e1 = e2 /\ k1 = k2 /\ b1 = b2 /\ f1 = f2
<1>1. PICK s, t : s = <<e1, k1, b1>> \o FomSuffix(f1) /\ t = <<e2, k2, b2>> \o FomSuffix(f2)
    OBVIOUS
<1>2. /\ s[1] = e1 /\ s[2] = k1 /\ s[3] = b1
      /\ f1 = DefaultFom => Len(s) = 3
      /\ f1 # DefaultFom => Len(s) = 4 /\ s[4] = f1
    BY <1>1 DEF FomSuffix
<1>3. /\ t[1] = e2 /\ t[2] = k2 /\ t[3] = b2
      /\ f2 = DefaultFom => Len(t) = 3
      /\ f2 # DefaultFom => Len(t) = 4 /\ t[4] = f2
    BY <1>1 DEF FomSuffix
<1> QED
    BY <1>1, <1>2, <1>3

LEMMA HeadTells ==
    ASSUME NEW S, NEW u \in Seq(S), NEW v \in Seq(S), NEW l \in S, NEW m \in S,
           <<l>> \o u = <<m>> \o v
    PROVE  l = m /\ u = v
<1>1. PICK s, t : s = <<l>> \o u /\ t = <<m>> \o v
    OBVIOUS
<1>2. /\ s[1] = l /\ Len(s) = 1 + Len(u) /\ \A i \in 1 .. Len(u) : s[1 + i] = u[i]
      /\ t[1] = m /\ Len(t) = 1 + Len(v) /\ \A i \in 1 .. Len(v) : t[1 + i] = v[i]
    BY <1>1
<1>3. Len(u) = Len(v) /\ \A i \in 1 .. Len(u) : u[i] = v[i]
    BY <1>1, <1>2
<1>4. u = [i \in 1 .. Len(u) |-> u[i]] /\ v = [i \in 1 .. Len(v) |-> v[i]]
    OBVIOUS
<1>5. u = v
    BY ONLY <1>3, <1>4
<1> QED
    BY <1>1, <1>2, <1>5

(* A configuration by itself, wherever it comes from.                      *)
IsConfig(c) == \E algorithm : IsBlock(algorithm) /\ c \in Expand(algorithm)

LEMMA SlugDecides ==
    ASSUME NEW c, NEW d, IsConfig(c), IsConfig(d), c.kind = d.kind, Slug(c) = Slug(d)
    PROVE  /\ c.kind # "hap" => c = d
           /\ SameScheduler(c, d)
<1>1. PICK p, q : /\ IsBlock(p) /\ c \in Expand(p) /\ IsBlock(q) /\ d \in Expand(q)
    BY DEF IsConfig
<1>2. c.kind = p.kind /\ d.kind = q.kind /\ c.kind \in AlgorithmKinds
    BY <1>1, ConfigFacts
<1>3. CASE c.kind \in {"est", "lst"}
    <2>1. /\ <<c.endangered, c.kBeams, c.branching>> \o FomSuffix(c.fom) =
                <<d.endangered, d.kBeams, d.branching>> \o FomSuffix(d.fom)
        BY <1>3 DEF Slug, EstSlug
    <2>2. /\ c.endangered = d.endangered /\ c.kBeams = d.kBeams /\ c.branching = d.branching
          /\ c.fom = d.fom
        BY <2>1, SuffixTellsFom
    <2>3. /\ c = [kind |-> c.kind, fom |-> c.fom, endangered |-> c.endangered,
                  kBeams |-> c.kBeams, branching |-> c.branching]
          /\ d = [kind |-> d.kind, fom |-> d.fom, endangered |-> d.endangered,
                  kBeams |-> d.kBeams, branching |-> d.branching]
        BY <1>1, <1>2, <1>3, ConfigFacts
    <2>4. c = d
        BY <2>2, <2>3
    <2> QED
        BY <2>4 DEF SameScheduler
<1>4. CASE c.kind = "multi_cursor"
    <2>1. /\ <<c.layout>> \o (<<c.endangered, c.kBeams, c.branching>> \o FomSuffix(c.fom)) =
                <<d.layout>> \o (<<d.endangered, d.kBeams, d.branching>> \o FomSuffix(d.fom))
        BY <1>4 DEF Slug, MultiCursorSlug, EstSlug
    <2>2. /\ c.endangered = d.endangered /\ c.kBeams = d.kBeams /\ c.branching = d.branching
          /\ c.fom = d.fom /\ c.layout = d.layout
        <3>1. PICK u, v : /\ u = <<c.endangered, c.kBeams, c.branching>> \o FomSuffix(c.fom)
                          /\ v = <<d.endangered, d.kBeams, d.branching>> \o FomSuffix(d.fom)
            OBVIOUS
        <3>2. PICK S : S = {c.layout, c.endangered, c.kBeams, c.branching, c.fom,
                            d.layout, d.endangered, d.kBeams, d.branching, d.fom}
            OBVIOUS
        <3>3. u \in Seq(S) /\ v \in Seq(S) /\ c.layout \in S /\ d.layout \in S
            <4>1. /\ <<c.endangered, c.kBeams, c.branching>> \in Seq(S) /\ FomSuffix(c.fom) \in Seq(S)
                  /\ <<d.endangered, d.kBeams, d.branching>> \in Seq(S) /\ FomSuffix(d.fom) \in Seq(S)
                <5>1. /\ <<>> \in Seq(S) /\ <<c.fom>> \in Seq(S) /\ <<d.fom>> \in Seq(S)
                      /\ <<c.endangered, c.kBeams, c.branching>> \in Seq(S)
                      /\ <<d.endangered, d.kBeams, d.branching>> \in Seq(S)
                    BY <3>2
                <5> QED
                    BY <5>1 DEF FomSuffix
            <4> QED
                BY <3>1, <3>2, <4>1
        <3>4. <<c.layout>> \o u = <<d.layout>> \o v
            BY <2>1, <3>1
        <3>5. c.layout = d.layout /\ u = v
            BY ONLY <3>3, <3>4, HeadTells
        <3>6. /\ c.endangered = d.endangered /\ c.kBeams = d.kBeams /\ c.branching = d.branching
              /\ c.fom = d.fom
            <4>1. <<c.endangered, c.kBeams, c.branching>> \o FomSuffix(c.fom) =
                     <<d.endangered, d.kBeams, d.branching>> \o FomSuffix(d.fom)
                BY <3>1, <3>5
            <4> QED
                BY ONLY <4>1, SuffixTellsFom
        <3> QED
            BY <3>5, <3>6
    <2>3. /\ c = [kind |-> c.kind, fom |-> c.fom, endangered |-> c.endangered,
                  kBeams |-> c.kBeams, branching |-> c.branching, layout |-> c.layout]
          /\ d = [kind |-> d.kind, fom |-> d.fom, endangered |-> d.endangered,
                  kBeams |-> d.kBeams, branching |-> d.branching, layout |-> d.layout]
        BY <1>1, <1>2, <1>4, ConfigFacts
    <2>4. c = d
        BY <2>2, <2>3
    <2> QED
        BY <2>4 DEF SameScheduler
<1>5. CASE c.kind = "hap"
    <2>1. PICK m, n : /\ m = IF c.mode = "greedy_one" THEN <<"greedy">> ELSE <<c.mode, c.cap>>
                      /\ n = IF d.mode = "greedy_one" THEN <<"greedy">> ELSE <<d.mode, d.cap>>
        OBVIOUS
    <2>2. <<c.iota, c.rho, c.population, m, c.seed>> = <<d.iota, d.rho, d.population, n, d.seed>>
        BY <1>5, <2>1 DEF Slug, HapSlug
    <2>3. /\ c.iota = d.iota /\ c.rho = d.rho /\ c.population = d.population /\ m = n
          /\ c.seed = d.seed
        BY <2>2
    <2>4. /\ c.mode = "greedy_one" <=> Len(m) = 1
          /\ d.mode = "greedy_one" <=> Len(n) = 1
        BY <2>1
    <2>5. c.mode # "greedy_one" => c.mode = d.mode /\ c.cap = d.cap
        BY <2>1, <2>3, <2>4
    <2>6. into_selector(c) = into_selector(d)
        BY <2>3, <2>4, <2>5 DEF into_selector
    <2>7. hap_scheduler(c) = hap_scheduler(d)
        BY <2>3, <2>6 DEF hap_scheduler
    <2>8. /\ build_scheduler(c, sample.horizon) = hap_scheduler(c)
          /\ build_scheduler(d, sample.horizon) = hap_scheduler(d)
        BY <1>5 DEF build_scheduler
    <2> QED
        BY <1>5, <2>7, <2>8 DEF SameScheduler
<1> QED
    BY <1>2, <1>3, <1>4, <1>5 DEF AlgorithmKinds

(* Configurations of HAP that can be built and lead to one scheduler share *)
(* their slug.                                                             *)
LEMMA SchedulerDecides ==
    ASSUME NEW c, NEW d, c.kind = "hap", d.kind = "hap", ~ Unbuildable(c), ~ Unbuildable(d),
           SameScheduler(c, d)
    PROVE  Slug(c) = Slug(d)
<1>1. /\ {c.iota, c.rho, c.population, c.cap} \cap {0} = {}
      /\ {d.iota, d.rho, d.population, d.cap} \cap {0} = {}
    BY DEF Unbuildable
<1>2. /\ AtLeastOne(c.population) = c.population /\ AtLeastOne(d.population) = d.population
      /\ AtLeastOne(c.cap) = c.cap /\ AtLeastOne(d.cap) = d.cap
    BY <1>1 DEF AtLeastOne
<1>3. hap_scheduler(c) = hap_scheduler(d)
    BY DEF SameScheduler, build_scheduler
<1>4. /\ hap_scheduler(c).iota = c.iota /\ hap_scheduler(c).rho = c.rho
      /\ hap_scheduler(c).population = c.population /\ hap_scheduler(c).seed = c.seed
      /\ hap_scheduler(c).survivor = IF c.mode = "greedy_one" THEN <<"greedy">> ELSE <<c.mode, c.cap>>
    BY <1>2 DEF hap_scheduler, into_selector
<1>5. /\ hap_scheduler(d).iota = d.iota /\ hap_scheduler(d).rho = d.rho
      /\ hap_scheduler(d).population = d.population /\ hap_scheduler(d).seed = d.seed
      /\ hap_scheduler(d).survivor = IF d.mode = "greedy_one" THEN <<"greedy">> ELSE <<d.mode, d.cap>>
    BY <1>2 DEF hap_scheduler, into_selector
<1> QED
    BY <1>3, <1>4, <1>5 DEF Slug, HapSlug

(* The cells of a specification.                                           *)
IsCell(spec, a) ==
    /\ a = [dataset |-> a.dataset, block |-> a.block, config |-> a.config]
    /\ a.dataset \in DOMAIN spec.datasets /\ a.block \in DOMAIN spec.algorithms
    /\ a.config \in Expand(spec.algorithms[a.block])

LEMMA CellFacts ==
    ASSUME NEW spec
    PROVE  \A a : a \in AllCells(spec) <=> IsCell(spec, a)
<1>1. ASSUME NEW a \in AllCells(spec) PROVE IsCell(spec, a)
    <2>1. PICK j \in DOMAIN spec.algorithms :
             a \in [dataset : DOMAIN spec.datasets, block : {j}, config : Expand(spec.algorithms[j])]
        BY DEF AllCells
    <2>2. a.block = j
        BY <2>1
    <2> QED
        BY <2>1, <2>2 DEF IsCell
<1>2. ASSUME NEW a, IsCell(spec, a) PROVE a \in AllCells(spec)
    <2>1. PICK d, j, c : d = a.dataset /\ j = a.block /\ c = a.config
        OBVIOUS
    <2>2. a = [dataset |-> d, block |-> j, config |-> c]
        BY <1>2, <2>1 DEF IsCell
    <2>3. a \in [dataset : DOMAIN spec.datasets, block : {j}, config : Expand(spec.algorithms[j])]
        BY <1>2, <2>1, <2>2 DEF IsCell
    <2> QED
        BY <1>2, <2>1, <2>3 DEF AllCells, IsCell
<1> QED
    BY <1>1, <1>2

LEMMA ConfigsOfCells ==
    ASSUME NEW spec, SpecIsRead(spec), NEW a \in AllCells(spec)
    PROVE  IsConfig(a.config)
    BY CellFacts DEF IsCell, IsConfig, SpecIsRead

LEMMA SlugsTell ==
    ASSUME About("sweep") => SpecIsRead(sample.spec)
    PROVE  SlugTellsRunsApart
    BY ConfigsOfCells, SlugDecides DEF SlugTellsRunsApart

(* What is asked for twice has one name, and what has one name is asked    *)
(* for twice.                                                              *)
Clash(spec) == \E a, b \in AllCells(spec) : a # b /\ CellId(spec, a) = CellId(spec, b)

LEMMA ClashIsAskedTwice ==
    ASSUME NEW spec, SpecIsRead(spec), Clash(spec)
    PROVE  AskedTwice(spec)
<1>1. PICK a \in AllCells(spec), b \in AllCells(spec) : a # b /\ CellId(spec, a) = CellId(spec, b)
    BY DEF Clash
<1>2. /\ spec.datasets[a.dataset].id = spec.datasets[b.dataset].id
      /\ a.config.kind = b.config.kind /\ Slug(a.config) = Slug(b.config)
    BY <1>1 DEF CellId
<1>3. a.dataset \in DOMAIN spec.datasets /\ b.dataset \in DOMAIN spec.datasets
    BY CellFacts DEF IsCell
<1>4. CASE a.dataset # b.dataset
    BY <1>2, <1>3, <1>4 DEF AskedTwice
<1>5. CASE a.dataset = b.dataset
    BY <1>1, <1>2, <1>5, ConfigsOfCells, SlugDecides DEF AskedTwice
<1> QED
    BY <1>4, <1>5

LEMMA AskedTwiceIsClash ==
    ASSUME NEW spec, SpecIsRead(spec), spec.algorithms # <<>>, AskedTwice(spec),
           \A a \in AllCells(spec) : ~ Unbuildable(a.config)
    PROVE  Clash(spec)
<1>1. CASE \E i, k \in DOMAIN spec.datasets : i # k /\ spec.datasets[i].id = spec.datasets[k].id
    <2>1. PICK i \in DOMAIN spec.datasets, k \in DOMAIN spec.datasets :
             i # k /\ spec.datasets[i].id = spec.datasets[k].id
        BY <1>1
    <2>2. 1 \in DOMAIN spec.algorithms
        BY DEF SpecIsRead, IsList
    <2>3. PICK c : c \in Expand(spec.algorithms[1])
        BY <2>2, ConfigFacts DEF SpecIsRead
    <2>4. PICK a, b : /\ a = [dataset |-> i, block |-> 1, config |-> c]
                      /\ b = [dataset |-> k, block |-> 1, config |-> c]
        OBVIOUS
    <2>5. /\ a.dataset = i /\ a.block = 1 /\ a.config = c
          /\ b.dataset = k /\ b.block = 1 /\ b.config = c
        BY <2>4
    <2>6. IsCell(spec, a) /\ IsCell(spec, b)
        BY <2>2, <2>3, <2>4, <2>5 DEF IsCell
    <2>7. CellId(spec, a) = CellId(spec, b)
        BY <2>1, <2>5 DEF CellId
    <2> QED
        BY <2>1, <2>5, <2>6, <2>7, CellFacts DEF Clash
<1>2. CASE \E a, b \in AllCells(spec) :
              /\ a # b /\ a.dataset = b.dataset /\ a.config.kind = b.config.kind
              /\ \/ a.config = b.config
                 \/ a.config.kind = "hap" /\ SameScheduler(a.config, b.config)
    <2>1. PICK a \in AllCells(spec), b \in AllCells(spec) :
              /\ a # b /\ a.dataset = b.dataset /\ a.config.kind = b.config.kind
              /\ \/ a.config = b.config
                 \/ a.config.kind = "hap" /\ SameScheduler(a.config, b.config)
        BY <1>2
    <2>2. Slug(a.config) = Slug(b.config)
        BY <2>1, SchedulerDecides
    <2> QED
        BY <2>1, <2>2 DEF CellId, Clash
<1> QED
    BY <1>1, <1>2 DEF AskedTwice

LEMMA RejectionsHaveCauses ==
    ASSUME About("sweep") => SpecIsRead(sample.spec) /\ AllCells(sample.spec) # Rejected
    PROVE  RejectedForCause
<1> SUFFICES ASSUME About("sweep") PROVE RejectedForCause
    BY DEF RejectedForCause
<1>1. PICK spec : spec = sample.spec
    OBVIOUS
<1>2. SpecIsRead(spec) /\ AllCells(spec) # Rejected
    BY <1>1
<1>3. PICK none, invalid : /\ none = (spec.datasets = <<>> \/ spec.algorithms = <<>>)
                           /\ invalid = \E i \in DOMAIN spec.datasets : spec.datasets[i].id \in InvalidIds
    OBVIOUS
<1>4. PICK fails : fails = \E j \in DOMAIN spec.algorithms :
             Expand(spec.algorithms[j]) = {} \/ \E c \in Expand(spec.algorithms[j]) : ~ Builds(c)
    OBVIOUS
<1>5. (resolve_cells(spec) = Rejected) = (none \/ invalid \/ fails \/ Clash(spec))
    BY <1>2, <1>3, <1>4 DEF resolve_cells, Clash
<1>6. PICK unbuildable : unbuildable = \E a \in AllCells(spec) : Unbuildable(a.config)
    OBVIOUS
<1>7. \A c : ~ Builds(c) <=> Unbuildable(c)
    BY DEF Builds, Unbuildable
<1>8. ~ none => (fails <=> unbuildable)
    <2> SUFFICES ASSUME ~ none PROVE fails <=> unbuildable
        OBVIOUS
    <2>1. 1 \in DOMAIN spec.datasets
        <3>1. PICK S : spec.datasets \in Seq(S)
            BY <1>2 DEF SpecIsRead, IsList
        <3>2. spec.datasets # <<>>
            BY <1>3
        <3> QED
            BY <3>1, <3>2
    <2>2. \A j \in DOMAIN spec.algorithms : Expand(spec.algorithms[j]) # {}
        BY <1>2, ConfigFacts DEF SpecIsRead
    <2>3. ASSUME fails PROVE unbuildable
        <3>0. PICK j \in DOMAIN spec.algorithms :
                 Expand(spec.algorithms[j]) = {} \/ \E c \in Expand(spec.algorithms[j]) : ~ Builds(c)
            BY <1>4, <2>3
        <3>1. PICK c \in Expand(spec.algorithms[j]) : ~ Builds(c)
            BY <2>2, <3>0
        <3>2. PICK a : a = [dataset |-> 1, block |-> j, config |-> c]
            OBVIOUS
        <3>3. a.dataset = 1 /\ a.block = j /\ a.config = c
            BY <3>2
        <3>4. IsCell(spec, a)
            BY <2>1, <3>2, <3>3 DEF IsCell
        <3> QED
            BY <1>6, <1>7, <3>1, <3>3, <3>4, CellFacts
    <2>4. ASSUME unbuildable PROVE fails
        BY <1>4, <1>6, <1>7, <2>4, CellFacts DEF IsCell
    <2> QED
        BY <2>3, <2>4
<1>9. ~ none /\ ~ unbuildable => (Clash(spec) <=> AskedTwice(spec))
    BY <1>2, <1>3, <1>6, ClashIsAskedTwice, AskedTwiceIsClash
<1>10. Clash(spec) => AskedTwice(spec)
    BY <1>2, ClashIsAskedTwice
<1>11. (resolve_cells(spec) = Rejected) = (none \/ invalid \/ unbuildable \/ AskedTwice(spec))
    BY <1>3, <1>4, <1>5, <1>6, <1>8, <1>9, <1>10 DEF Clash, AskedTwice
<1> QED
    BY <1>1, <1>3, <1>6, <1>11 DEF RejectedForCause

LEMMA CellsAreDistinct == CellsAreDistinctRuns
<1> SUFFICES ASSUME About("sweep"), resolve_cells(sample.spec) # Rejected,
                    NEW a \in resolve_cells(sample.spec), NEW b \in resolve_cells(sample.spec), a # b
             PROVE  build_identity(sample.spec, a, sample.content)
                       # build_identity(sample.spec, b, sample.content)
    BY DEF CellsAreDistinctRuns
<1>1. PICK spec : spec = sample.spec
    OBVIOUS
<1>2. /\ resolve_cells(spec) = AllCells(spec)
      /\ ~ \E u, v \in AllCells(spec) : u # v /\ CellId(spec, u) = CellId(spec, v)
    BY <1>1 DEF resolve_cells
<1>3. CellId(spec, a) # CellId(spec, b)
    BY <1>1, <1>2
<1>4. \/ spec.datasets[a.dataset].id # spec.datasets[b.dataset].id
      \/ a.config.kind # b.config.kind
      \/ Slug(a.config) # Slug(b.config)
    BY <1>3 DEF CellId
<1>5. \A e \in {a, b} : /\ build_identity(spec, e, sample.content).dataset = spec.datasets[e.dataset].id
                        /\ build_identity(spec, e, sample.content).kind = e.config.kind
                        /\ build_identity(spec, e, sample.content).slug = Slug(e.config)
    BY DEF build_identity
<1> QED
    BY <1>1, <1>4, <1>5

(* A block with its defaults spelled out.                                  *)
LEMMA SpelledFacts ==
    ASSUME NEW algorithm, IsBlock(algorithm)
    PROVE  Expand(Spelled(algorithm)) = Expand(algorithm)
<1>0. PICK kind \in AlgorithmKinds :
          \E V : \E axes \in AxesOf(kind, V) : algorithm = [kind |-> kind, axes |-> axes]
    BY DEF IsBlock
<1>a. PICK V : \E axes \in AxesOf(kind, V) : algorithm = [kind |-> kind, axes |-> axes]
    BY <1>0
<1>1. PICK axes \in AxesOf(kind, V) : algorithm = [kind |-> kind, axes |-> axes]
    BY <1>a
<1>2. algorithm.kind = kind /\ algorithm.axes = axes
    BY <1>1
<1>3. PICK x : x = SpelledAxes(kind, axes)
    OBVIOUS
<1>4. Spelled(algorithm).kind = kind /\ Spelled(algorithm).axes = x
    <2>1. Spelled(algorithm) = [algorithm EXCEPT !.axes = x]
        BY <1>2, <1>3 DEF Spelled
    <2> QED
        BY <1>1, <2>1
<1>5. \A S, d : pick_or_default(Spell(S, d), d) = pick_or_default(S, d)
    BY DEF pick_or_default, Spell
<1>6. CASE kind \in {"est", "lst"}
    <2>1. axes \in [foms : SUBSET V, endangered : SUBSET V, kBeams : SUBSET V, branching : SUBSET V]
        BY <1>6 DEF AxesOf
    <2>2. x = [axes EXCEPT !.foms = Spell(@, DefaultFom), !.kBeams = Spell(@, 1)]
        BY <1>3, <1>6 DEF SpelledAxes
    <2>3. /\ x.foms = Spell(axes.foms, DefaultFom) /\ x.kBeams = Spell(axes.kBeams, 1)
          /\ x.endangered = axes.endangered /\ x.branching = axes.branching
        BY <2>1, <2>2
    <2>4. /\ pick_or_default(x.foms, DefaultFom) = pick_or_default(axes.foms, DefaultFom)
          /\ pick_or_default(x.kBeams, 1) = pick_or_default(axes.kBeams, 1)
        BY <1>5, <2>3
    <2>5. BeamConfigs(kind, x) = BeamConfigs(kind, axes)
        BY ONLY <2>3, <2>4 DEF BeamConfigs
    <2> QED
        BY <1>2, <1>4, <1>6, <2>5 DEF Expand
<1>7. CASE kind = "multi_cursor"
    <2>1. axes \in [foms : SUBSET V, endangered : SUBSET V, kBeams : SUBSET V, branching : SUBSET V,
                    layouts : SUBSET V]
        BY <1>7 DEF AxesOf
    <2>2. x = [axes EXCEPT !.layouts = Spell(@, "est_lst_split")]
        BY <1>3, <1>7 DEF SpelledAxes
    <2>3. /\ x.layouts = Spell(axes.layouts, "est_lst_split")
          /\ x.foms = axes.foms /\ x.kBeams = axes.kBeams
          /\ x.endangered = axes.endangered /\ x.branching = axes.branching
        BY <2>1, <2>2
    <2>4. pick_or_default(x.layouts, "est_lst_split") = pick_or_default(axes.layouts, "est_lst_split")
        BY <1>5, <2>3
    <2>5. insert_multi_cursor_configs(x) = insert_multi_cursor_configs(axes)
        BY ONLY <2>3, <2>4 DEF insert_multi_cursor_configs
    <2> QED
        BY <1>2, <1>4, <1>7, <2>5 DEF Expand
<1>8. CASE kind = "hap"
    <2>1. axes \in [iota : SUBSET V, rho : SUBSET V, population : SUBSET V, modes : SUBSET V,
                    caps : SUBSET V, seeds : SUBSET V]
        BY <1>8 DEF AxesOf
    <2>2. x = [axes EXCEPT !.modes = Spell(@, "elitist_top_k"), !.caps = Spell(@, 4)]
        BY <1>3, <1>8 DEF SpelledAxes
    <2>3. /\ x.modes = Spell(axes.modes, "elitist_top_k") /\ x.caps = Spell(axes.caps, 4)
          /\ x.iota = axes.iota /\ x.rho = axes.rho /\ x.population = axes.population
          /\ x.seeds = axes.seeds
        BY <2>1, <2>2
    <2>4. /\ pick_or_default(x.modes, "elitist_top_k") = pick_or_default(axes.modes, "elitist_top_k")
          /\ pick_or_default(x.caps, 4) = pick_or_default(axes.caps, 4)
        BY <1>5, <2>3
    <2>5. insert_hap_configs(x) = insert_hap_configs(axes)
        BY ONLY <2>3, <2>4 DEF insert_hap_configs
    <2> QED
        BY <1>2, <1>4, <1>8, <2>5 DEF Expand
<1> QED
    BY <1>6, <1>7, <1>8 DEF AlgorithmKinds

LEMMA DefaultsAreSpelled ==
    ASSUME About("sweep") => SpecIsRead(sample.spec)
    PROVE  DefaultsMayBeSpelled
<1> SUFFICES ASSUME About("sweep") PROVE DefaultsMayBeSpelled
    BY DEF DefaultsMayBeSpelled
<1>1. PICK spec, algorithms, other :
         /\ spec = sample.spec
         /\ algorithms = [j \in DOMAIN spec.algorithms |-> Spelled(spec.algorithms[j])]
         /\ other = [spec EXCEPT !.algorithms = algorithms]
    OBVIOUS
<1>2. SpecIsRead(spec)
    BY <1>1
<1>3. other.datasets = spec.datasets /\ other.algorithms = algorithms
    BY <1>1, <1>2 DEF SpecIsRead
<1>4. /\ DOMAIN algorithms = DOMAIN spec.algorithms
      /\ \A j \in DOMAIN algorithms : Expand(algorithms[j]) = Expand(spec.algorithms[j])
    BY <1>1, <1>2, SpelledFacts DEF SpecIsRead
<1>5. algorithms = <<>> <=> spec.algorithms = <<>>
    <2>1. /\ algorithms = <<>> <=> DOMAIN algorithms = {}
          /\ spec.algorithms = <<>> <=> DOMAIN spec.algorithms = {}
        BY <1>1, <1>2 DEF SpecIsRead, IsList
    <2> QED
        BY <1>4, <2>1
<1>6. AllCells(other) = AllCells(spec)
    <2>1. \A a : IsCell(other, a) <=> IsCell(spec, a)
        BY <1>3, <1>4 DEF IsCell
    <2> QED
        BY <2>1, CellFacts
<1>7. \A a : CellId(other, a) = CellId(spec, a)
    BY <1>3 DEF CellId
<1>8. resolve_cells(other) = resolve_cells(spec)
    BY <1>3, <1>4, <1>5, <1>6, <1>7 DEF resolve_cells
<1> QED
    BY <1>1, <1>8 DEF DefaultsMayBeSpelled

(* A sweep of any specification over any datasets runs what was asked for, *)
(* each thing once (cell.rs:66-282; config.rs:231-448).                    *)
THEOREM CellsAlwaysAsAsked ==
    ASSUME About("layout") => /\ sample.horizon \in [start : Int, end : Int]
                              /\ sample.horizon.start <= sample.horizon.end,
           About("sweep") => SpecIsRead(sample.spec) /\ AllCells(sample.spec) # Rejected
    PROVE  CellsAreWhatWasAsked
    BY LayoutsTile, SlugsTell, RejectionsHaveCauses, CellsAreDistinct, DefaultsAreSpelled
       DEF CellsAreWhatWasAsked
-----------------------------------------------------------------------------
(* What a registry answers *)

(* The rows of a registry: a key tells them apart, what their file is      *)
(* named after is a triple, and each metric that runs are compared by is a *)
(* number or unknown.                                                      *)
Measured(rows, metric) == \A r \in rows : r.metrics[metric] \in Int \cup {Unknown}
DefaultMetrics == {"priority_ratio", "task_ratio", "priority_density", "runtime_ms"}
RowsAreRead(rows) ==
    /\ IsFiniteSet(rows)
    /\ \A r \in rows : r.key \in Nat /\ r.exportable \in BOOLEAN
    /\ \A r, s \in rows : r.key = s.key => r = s
    /\ \E B : \A r \in rows : r.base \in [1 .. 3 -> B]
    /\ \A m \in DefaultMetrics : Measured(rows, m)

KeysAreRead(rows, keys) ==
    /\ \E n \in Nat : DOMAIN keys = 1 .. n
    /\ \A j \in DOMAIN keys : keys[j].desc \in BOOLEAN /\ Measured(rows, keys[j].metric)

(* What a registry is asked: a limit, the metrics to sort by, and weights. *)
RegistryIsRead ==
    /\ RowsAreRead(sample.rows) /\ RowsAreRead(sample.after)
    /\ \A o \in sample.options : o.limit \in Nat /\ KeysAreRead(sample.rows, o.sort)
    /\ \A weights \in sample.weights :
          /\ IsFiniteSet(DOMAIN weights)
          /\ \A m \in DOMAIN weights : weights[m] \in Int /\ Measured(sample.rows, m)

(* One sort key is a strict weak order of the rows.                        *)
LEMMA SqlOrder ==
    ASSUME NEW u \in Int \cup {Unknown}, NEW v \in Int \cup {Unknown}, NEW w \in Int \cup {Unknown}
    PROVE  /\ SqlLess(u, v) => ~ SqlLess(v, u)
           /\ SqlLess(u, w) => SqlLess(u, v) \/ SqlLess(v, w)
    BY UnknownIsNoNumber DEF SqlLess

LEMMA KeyOrder ==
    ASSUME NEW rows, NEW keys, KeysAreRead(rows, keys), NEW j \in DOMAIN keys,
           NEW a \in rows, NEW b \in rows, NEW c \in rows
    PROVE  /\ KeyLess(keys[j], a, b) => ~ KeyLess(keys[j], b, a)
           /\ KeyLess(keys[j], a, c) => KeyLess(keys[j], a, b) \/ KeyLess(keys[j], b, c)
<1> DEFINE x == a.metrics[keys[j].metric]
           y == b.metrics[keys[j].metric]
           z == c.metrics[keys[j].metric]
<1>1. /\ x \in Int \cup {Unknown} /\ y \in Int \cup {Unknown} /\ z \in Int \cup {Unknown}
      /\ keys[j].desc \in BOOLEAN
    BY DEF KeysAreRead, Measured
<1> HIDE DEF x, y, z
<1>2. /\ SqlLess(x, y) => ~ SqlLess(y, x)
      /\ SqlLess(x, z) => SqlLess(x, y) \/ SqlLess(y, z)
    BY <1>1, SqlOrder, Zenon
<1>3. /\ SqlLess(y, x) => ~ SqlLess(x, y)
      /\ SqlLess(z, x) => SqlLess(z, y) \/ SqlLess(y, x)
    BY <1>1, SqlOrder, Zenon
<1> QED
    BY <1>1, <1>2, <1>3 DEF KeyLess, x, y, z

(* Two rows differ first at one sort key, which decides, or at none.       *)
Differ(keys, j, a, b) == KeyLess(keys[j], a, b) \/ KeyLess(keys[j], b, a)
FirstDiffers(keys, k, a, b) ==
    /\ k \in DOMAIN keys /\ Differ(keys, k, a, b)
    /\ \A j \in DOMAIN keys : j < k => ~ Differ(keys, j, a, b)
SameByKeys(keys, a, b) == \A j \in DOMAIN keys : ~ Differ(keys, j, a, b)

LEMMA FirstDecides ==
    ASSUME NEW rows, NEW keys, KeysAreRead(rows, keys), NEW a \in rows, NEW b \in rows
    PROVE  /\ SameByKeys(keys, a, b) => (sort_expr(keys, a, b) <=> a.key < b.key)
           /\ \A k : FirstDiffers(keys, k, a, b) => (sort_expr(keys, a, b) <=> KeyLess(keys[k], a, b))
           /\ SameByKeys(keys, a, b) \/ \E k : FirstDiffers(keys, k, a, b)
<1> DEFINE differ == {i \in DOMAIN keys : Differ(keys, i, a, b)}
           IsFirst(i) == \A j \in differ : i <= j
           first == CHOOSE i \in differ : IsFirst(i)
<1>1. sort_expr(keys, a, b) <=> IF differ = {} THEN a.key < b.key ELSE KeyLess(keys[first], a, b)
    BY DEF sort_expr, Differ
<1>2. differ \subseteq Nat
    BY DEF KeysAreRead
<1>3. CASE differ = {}
    BY <1>1, <1>3 DEF SameByKeys, FirstDiffers
<1>4. CASE differ # {}
    <2>1. \E i \in differ : IsFirst(i)
        <3> HIDE DEF differ
        <3> QED
            BY <1>2, <1>4, LeastNumber
    <2>2. first \in differ /\ IsFirst(first)
        <3> HIDE DEF IsFirst, differ
        <3> QED
            BY <2>1
    <2>3. FirstDiffers(keys, first, a, b)
        <3>1. \A j \in differ : j \in Nat /\ first \in Nat /\ first <= j
            BY <1>2, <2>2
        <3> HIDE DEF first
        <3> QED
            BY <2>2, <3>1 DEF FirstDiffers
    <2>4. ~ SameByKeys(keys, a, b)
        BY <1>4 DEF SameByKeys
    <2>5. ASSUME NEW k, FirstDiffers(keys, k, a, b)
          PROVE  k = first
        <3>1. k \in differ /\ first \in differ /\ k \in Nat /\ first \in Nat
            BY <1>2, <2>2, <2>5 DEF FirstDiffers
        <3>2. first <= k
            BY <2>2, <3>1
        <3>3. ~ (first < k)
            BY <2>5, <3>1 DEF FirstDiffers
        <3> HIDE DEF first
        <3> QED
            BY <3>1, <3>2, <3>3
    <2> HIDE DEF first
    <2> QED
        BY <1>1, <1>4, <2>3, <2>4, <2>5
<1> QED
    BY <1>3, <1>4

(* ORDER BY the sort keys and then the key tells any two rows apart.       *)
SortOrder(rows, keys) == {p \in rows \X rows : sort_expr(keys, p[1], p[2])}

LEMMA SortIsOrder ==
    ASSUME NEW rows, NEW keys, RowsAreRead(rows), KeysAreRead(rows, keys)
    PROVE  StrictTotalOrder(rows, SortOrder(rows, keys))
<1>1. \A a, b \in rows : <<a, b>> \in SortOrder(rows, keys) <=> sort_expr(keys, a, b)
    BY DEF SortOrder
<1>2. DOMAIN keys \subseteq Nat
    BY DEF KeysAreRead
<1>3. ASSUME NEW a \in rows
      PROVE  ~ sort_expr(keys, a, a)
    <2>1. SameByKeys(keys, a, a)
        BY KeyOrder DEF SameByKeys, Differ
    <2>2. a.key \in Nat
        BY DEF RowsAreRead
    <2> QED
        BY <2>1, <2>2, FirstDecides
<1>4. ASSUME NEW a \in rows, NEW b \in rows, a # b
      PROVE  sort_expr(keys, a, b) \/ sort_expr(keys, b, a)
    <2>1. CASE SameByKeys(keys, a, b)
        <3>1. SameByKeys(keys, b, a)
            BY <2>1 DEF SameByKeys, Differ
        <3>2. a.key \in Nat /\ b.key \in Nat /\ a.key # b.key
            BY <1>4 DEF RowsAreRead
        <3> QED
            BY <2>1, <3>1, <3>2, FirstDecides
    <2>2. ASSUME NEW k, FirstDiffers(keys, k, a, b)
          PROVE  sort_expr(keys, a, b) \/ sort_expr(keys, b, a)
        <3>1. FirstDiffers(keys, k, b, a)
            BY <2>2 DEF FirstDiffers, Differ
        <3>2. KeyLess(keys[k], a, b) \/ KeyLess(keys[k], b, a)
            BY <2>2 DEF FirstDiffers, Differ
        <3> QED
            BY <2>2, <3>1, <3>2, FirstDecides
    <2> QED
        BY <2>1, <2>2, FirstDecides
<1>5. ASSUME NEW a \in rows, NEW b \in rows, NEW c \in rows,
             sort_expr(keys, a, b), sort_expr(keys, b, c)
      PROVE  sort_expr(keys, a, c)
    <2>1. \A j \in DOMAIN keys : ~ Differ(keys, j, a, b) /\ ~ Differ(keys, j, b, c) =>
                                    ~ Differ(keys, j, a, c)
        BY KeyOrder DEF Differ
    <2>2. CASE SameByKeys(keys, a, b) /\ SameByKeys(keys, b, c)
        <3>1. SameByKeys(keys, a, c)
            BY <2>1, <2>2 DEF SameByKeys
        <3>2. a.key \in Nat /\ b.key \in Nat /\ c.key \in Nat /\ a.key < b.key /\ b.key < c.key
            BY <1>5, <2>2, FirstDecides DEF RowsAreRead
        <3> QED
            BY <3>1, <3>2, FirstDecides
    (* The first key that tells a from b, or b from c, tells a from c.     *)
    <2>3. ASSUME NEW k \in DOMAIN keys,
                 \A j \in DOMAIN keys : j < k => ~ Differ(keys, j, a, b) /\ ~ Differ(keys, j, b, c),
                 \/ KeyLess(keys[k], a, b) /\ ~ KeyLess(keys[k], c, b)
                 \/ KeyLess(keys[k], b, c) /\ ~ KeyLess(keys[k], b, a)
          PROVE  sort_expr(keys, a, c)
        <3>1. KeyLess(keys[k], a, c)
            BY <2>3, KeyOrder
        <3>2. FirstDiffers(keys, k, a, c)
            BY <2>1, <2>3, <3>1 DEF FirstDiffers, Differ
        <3> QED
            BY <3>1, <3>2, FirstDecides
    <2>4. ASSUME NEW k, FirstDiffers(keys, k, a, b), SameByKeys(keys, b, c)
          PROVE  sort_expr(keys, a, c)
        <3>1. k \in DOMAIN keys /\ KeyLess(keys[k], a, b) /\ ~ KeyLess(keys[k], c, b)
            BY <1>5, <2>4, FirstDecides DEF FirstDiffers, SameByKeys, Differ
        <3>2. \A j \in DOMAIN keys : j < k => ~ Differ(keys, j, a, b) /\ ~ Differ(keys, j, b, c)
            BY <2>4 DEF FirstDiffers, SameByKeys
        <3> QED
            BY <2>3, <3>1, <3>2
    <2>5. ASSUME NEW l, FirstDiffers(keys, l, b, c), SameByKeys(keys, a, b)
          PROVE  sort_expr(keys, a, c)
        <3>1. l \in DOMAIN keys /\ KeyLess(keys[l], b, c) /\ ~ KeyLess(keys[l], b, a)
            BY <1>5, <2>5, FirstDecides DEF FirstDiffers, SameByKeys, Differ
        <3>2. \A j \in DOMAIN keys : j < l => ~ Differ(keys, j, a, b) /\ ~ Differ(keys, j, b, c)
            BY <2>5 DEF FirstDiffers, SameByKeys
        <3> QED
            BY <2>3, <3>1, <3>2
    <2>6. ASSUME NEW k, FirstDiffers(keys, k, a, b), NEW l, FirstDiffers(keys, l, b, c)
          PROVE  sort_expr(keys, a, c)
        <3>1. k \in DOMAIN keys /\ l \in DOMAIN keys /\ k \in Nat /\ l \in Nat
            BY <1>2, <2>6 DEF FirstDiffers
        <3>2. KeyLess(keys[k], a, b) /\ KeyLess(keys[l], b, c)
            BY <1>5, <2>6, FirstDecides
        <3>3. CASE k < l
            <4>1. ~ KeyLess(keys[k], c, b)
                BY <2>6, <3>1, <3>3 DEF FirstDiffers, Differ
            <4>2. \A j \in DOMAIN keys : j < k => ~ Differ(keys, j, a, b) /\ ~ Differ(keys, j, b, c)
                <5>1. \A j \in DOMAIN keys : j < k => j < l
                    BY <1>2, <3>1, <3>3
                <5> QED
                    BY <2>6, <5>1 DEF FirstDiffers
            <4> QED
                BY <2>3, <3>1, <3>2, <4>1, <4>2
        <3>4. CASE l <= k
            <4>1. ~ KeyLess(keys[l], b, a)
                <5>1. CASE l < k
                    BY <2>6, <3>1, <5>1 DEF FirstDiffers, Differ
                <5>2. CASE l = k
                    BY <3>1, <3>2, <5>2, KeyOrder
                <5> QED
                    BY <3>1, <3>4, <5>1, <5>2
            <4>2. \A j \in DOMAIN keys : j < l => ~ Differ(keys, j, a, b) /\ ~ Differ(keys, j, b, c)
                <5>1. \A j \in DOMAIN keys : j < l => j < k
                    BY <1>2, <3>1, <3>4
                <5> QED
                    BY <2>6, <5>1 DEF FirstDiffers
            <4> QED
                BY <2>3, <3>1, <3>2, <4>1, <4>2
        <3> QED
            BY <3>1, <3>3, <3>4
    <2>7. /\ SameByKeys(keys, a, b) \/ \E k : FirstDiffers(keys, k, a, b)
          /\ SameByKeys(keys, b, c) \/ \E k : FirstDiffers(keys, k, b, c)
        BY FirstDecides
    <2> QED
        BY <2>2, <2>4, <2>5, <2>6, <2>7
<1> HIDE DEF SortOrder
<1> QED
    BY <1>1, <1>3, <1>4, <1>5 DEF StrictTotalOrder

(* The rows in that order.                                                 *)
Sorted(keys, rows) == SortedBy(LAMBDA a, b : sort_expr(keys, a, b), rows)

LEMMA SortedInLine ==
    ASSUME NEW rows, NEW keys, RowsAreRead(rows), KeysAreRead(rows, keys)
    PROVE  InLine(rows, SortOrder(rows, keys), Sorted(keys, rows))
<1> DEFINE size == Cardinality(rows)
           IsNth(n, r) == Cardinality({s \in rows : sort_expr(keys, s, r)}) = n - 1
           L == Sorted(keys, rows)
<1>1. L = [n \in 1 .. size |-> CHOOSE r \in rows : IsNth(n, r)]
    BY DEF Sorted, SortedBy
<1>2. \A r \in rows : {s \in rows : sort_expr(keys, s, r)} = Preceding(rows, SortOrder(rows, keys), r)
    BY DEF Preceding, SortOrder
<1>3. ASSUME NEW n \in 1 .. size
      PROVE  \E r \in rows : IsNth(n, r)
    <2>1. size \in Nat
        BY FS_CardinalityType DEF RowsAreRead
    <2>2. n - 1 \in 0 .. size - 1
        BY <2>1
    <2>3. \E r \in rows : Cardinality(Preceding(rows, SortOrder(rows, keys), r)) = n - 1
        BY <2>2, SortIsOrder, RankIsTaken DEF RowsAreRead
    <2> QED
        BY <1>2, <2>3
<1>4. ASSUME NEW n \in 1 .. size
      PROVE  L[n] \in rows /\ IsNth(n, L[n])
    <2>1. L[n] = CHOOSE r \in rows : IsNth(n, r)
        BY <1>1
    <2> HIDE DEF IsNth, L
    <2> QED
        BY <1>3, <2>1
<1> HIDE DEF L
<1>5. L = [n \in 1 .. size |-> L[n]]
    <2> HIDE DEF IsNth, size
    <2> QED
        BY <1>1
<1>6. \A n \in 1 .. size :
          L[n] \in rows /\ Cardinality(Preceding(rows, SortOrder(rows, keys), L[n])) = n - 1
    BY <1>2, <1>4
<1>7. InLine(rows, SortOrder(rows, keys), L)
    BY <1>5, <1>6 DEF InLine
<1> QED
    BY <1>7 DEF L

(* Some rows of a registry are the rows of one.                            *)
LEMMA SomeRowsAreRead ==
    ASSUME NEW rows, RowsAreRead(rows), NEW S \in SUBSET rows
    PROVE  /\ RowsAreRead(S)
           /\ \A keys : KeysAreRead(rows, keys) => KeysAreRead(S, keys)
<1>1. IsFiniteSet(S)
    BY FS_Subset DEF RowsAreRead
<1>2. RowsAreRead(S)
    BY <1>1 DEF RowsAreRead, Measured
<1>3. ASSUME NEW keys, KeysAreRead(rows, keys)
      PROVE  KeysAreRead(S, keys)
    BY <1>3 DEF KeysAreRead, Measured
<1> QED
    BY <1>2, <1>3

LEMMA DefaultKeysAreRead ==
    ASSUME NEW rows, RowsAreRead(rows)
    PROVE  /\ KeysAreRead(rows, default_sort_keys)
           /\ DOMAIN default_sort_keys = 1 .. 4
<1>1. DOMAIN default_sort_keys = 1 .. 4
    BY DEF default_sort_keys
<1>2. /\ default_sort_keys[1].metric = "priority_ratio" /\ default_sort_keys[1].desc = TRUE
      /\ default_sort_keys[2].metric = "task_ratio" /\ default_sort_keys[2].desc = TRUE
      /\ default_sort_keys[3].metric = "priority_density" /\ default_sort_keys[3].desc = TRUE
      /\ default_sort_keys[4].metric = "runtime_ms" /\ default_sort_keys[4].desc = FALSE
    BY DEF default_sort_keys, SortKey, Ascending
<1>3. /\ Measured(rows, "priority_ratio") /\ Measured(rows, "task_ratio")
      /\ Measured(rows, "priority_density") /\ Measured(rows, "runtime_ms")
    BY DEF RowsAreRead, DefaultMetrics
<1>4. ASSUME NEW j \in 1 .. 4
      PROVE  default_sort_keys[j].desc \in BOOLEAN /\ Measured(rows, default_sort_keys[j].metric)
    <2>1. CASE j = 1
        BY <1>2, <1>3, <2>1
    <2>2. CASE j = 2
        BY <1>2, <1>3, <2>2
    <2>3. CASE j = 3
        BY <1>2, <1>3, <2>3
    <2>4. CASE j = 4
        BY <1>2, <1>3, <2>4
    <2> QED
        BY <2>1, <2>2, <2>3, <2>4
<1> QED
    BY <1>1, <1>4 DEF KeysAreRead

-----------------------------------------------------------------------------
(* A limit *)

LEMMA ListKeepsTheFirst ==
    ASSUME About("registry"), RegistryIsRead
    PROVE  LimitKeepsTheFirst
<1> SUFFICES ASSUME NEW o \in sample.options
             PROVE  LET listed == list(sample.rows, o)
                        keys == IF o.sort = <<>> THEN default_sort_keys ELSE o.sort
                    IN  /\ Len(listed) <= o.limit
                        /\ ToSet(listed) \subseteq Selected(sample.rows, o)
                        /\ \A r \in Selected(sample.rows, o) \ ToSet(listed), i \in DOMAIN listed :
                              \A j \in DOMAIN keys : KeyLess(keys[j], r, listed[i]) =>
                                 \E k \in DOMAIN keys : k < j /\ KeyLess(keys[k], listed[i], r)
    BY DEF LimitKeepsTheFirst
<1> DEFINE keys == IF o.sort = <<>> THEN default_sort_keys ELSE o.sort
           rows == Selected(sample.rows, o)
           full == Sorted(keys, rows)
           listed == list(sample.rows, o)
<1>5. RowsAreRead(rows) /\ KeysAreRead(rows, keys) /\ o.limit \in Nat
    <2>1. rows \in SUBSET sample.rows
        BY DEF Selected
    <2>2. KeysAreRead(sample.rows, keys)
        BY DefaultKeysAreRead DEF RegistryIsRead
    <2> HIDE DEF rows, keys
    <2> QED
        BY <2>1, <2>2, SomeRowsAreRead DEF RegistryIsRead
<1>6. listed = Take(o.limit, full)
    BY DEF list, Sorted, SortedBy
<1> HIDE DEF keys, rows, listed
<1>7. /\ full \in Seq(rows) /\ Len(full) = Cardinality(rows)
      /\ \A i, j \in DOMAIN full : i < j <=> <<full[i], full[j]>> \in SortOrder(rows, keys)
      /\ \A r \in rows : \E n \in DOMAIN full : full[n] = r
    <2>1. /\ InLine(rows, SortOrder(rows, keys), full) /\ IsFiniteSet(rows)
          /\ StrictTotalOrder(rows, SortOrder(rows, keys))
        BY <1>5, SortedInLine, SortIsOrder DEF RowsAreRead
    <2> HIDE DEF full
    <2> QED
        BY <2>1, InLineFacts
<1> HIDE DEF full
<1>a. Len(full) \in Nat /\ o.limit \in Nat /\ DOMAIN full = 1 .. Len(full)
    BY <1>5, <1>7
<1>8. /\ listed \in Seq(rows) /\ Len(listed) <= o.limit /\ Len(listed) <= Len(full)
      /\ \A i \in 1 .. Len(listed) : listed[i] = full[i]
      /\ Len(listed) = o.limit \/ Len(listed) = Len(full)
    <2>1. CASE Len(full) <= o.limit
        BY <1>5, <1>6, <1>7, <2>1 DEF Take
    <2>2. CASE Len(full) > o.limit
        <3>1. listed = SubSeq(full, 1, o.limit)
            BY <1>5, <1>6, <1>7, <2>2 DEF Take
        <3>2. listed \in Seq(rows) /\ Len(listed) = o.limit
            BY <1>a, <1>7, <2>2, <3>1
        <3>3. \A i \in 1 .. Len(listed) : listed[i] = full[i]
            BY <1>a, <1>7, <2>2, <3>1, <3>2
        <3> QED
            BY <1>a, <2>2, <3>2, <3>3
    <2> QED
        BY <1>a, <2>1, <2>2
<1>9. ToSet(listed) \subseteq rows
    BY <1>8 DEF ToSet
<1>10. ASSUME NEW r \in rows \ ToSet(listed), NEW i \in DOMAIN listed, NEW j \in DOMAIN keys,
              KeyLess(keys[j], r, listed[i])
       PROVE  \E k \in DOMAIN keys : k < j /\ KeyLess(keys[k], listed[i], r)
    <2>1. PICK n \in DOMAIN full : full[n] = r
        BY <1>7
    <2>2. i \in DOMAIN full /\ i < n /\ listed[i] = full[i]
        <3>1. /\ DOMAIN full = 1 .. Len(full) /\ DOMAIN listed = 1 .. Len(listed)
              /\ Len(full) \in Nat /\ Len(listed) \in Nat
            BY <1>7, <1>8
        <3>2. n \notin DOMAIN listed
            BY <1>8, <2>1, <3>1 DEF ToSet
        <3>3. /\ i \in 1 .. Len(listed) /\ n \in 1 .. Len(full) /\ n \notin 1 .. Len(listed)
              /\ Len(listed) <= Len(full)
            BY <1>8, <2>1, <3>1, <3>2
        <3>4. i \in 1 .. Len(full) /\ i < n
            BY ONLY <3>1, <3>3
        <3> QED
            BY <1>8, <3>1, <3>3, <3>4
    <2>3. listed[i] \in rows /\ sort_expr(keys, listed[i], r)
        BY <1>7, <2>1, <2>2 DEF SortOrder
    <2>4. \E k : FirstDiffers(keys, k, listed[i], r)
        <3>1. ~ SameByKeys(keys, listed[i], r)
            BY <1>10 DEF SameByKeys, Differ
        <3> QED
            BY <1>5, <2>3, <3>1, FirstDecides
    <2>5. PICK k : FirstDiffers(keys, k, listed[i], r)
        BY <2>4
    <2>6. KeyLess(keys[k], listed[i], r) /\ k \in DOMAIN keys
        BY <1>5, <2>3, <2>5, FirstDecides DEF FirstDiffers
    <2>7. k \in Nat /\ j \in Nat /\ k <= j
        <3>1. k \in Nat /\ j \in Nat
            BY <1>5, <2>6 DEF KeysAreRead
        <3>2. ~ (j < k)
            BY <1>10, <2>5 DEF FirstDiffers, Differ
        <3> QED
            BY <3>1, <3>2
    <2>8. k # j
        BY <1>5, <1>10, <2>3, <2>6, KeyOrder
    <2> QED
        BY <2>6, <2>7, <2>8
<1> QED
    BY <1>8, <1>9, <1>10 DEF keys, rows, listed

-----------------------------------------------------------------------------
(* Domination and the front *)

LEMMA ValuesAreNumbers ==
    ASSUME NEW rows, NEW m, Measured(rows, m), NEW r \in rows
    PROVE  metric_value(r, m) \in Int
    BY UnknownIsNoNumber DEF Measured, metric_value

LEMMA DominatesIsStrict ==
    ASSUME NEW rows, NEW objectives,
           \A o \in objectives : Measured(rows, o.metric)
    PROVE  /\ \A a \in rows : ~ dominates(a, a, objectives)
           /\ \A a, b, c \in rows :
                 dominates(a, b, objectives) /\ dominates(b, c, objectives) =>
                    dominates(a, c, objectives)
<1>1. \A a \in rows, o \in objectives : metric_value(a, o.metric) \in Int
    BY ValuesAreNumbers
<1>2. \A a, b, c \in rows, o \in objectives :
          /\ ~ Beats(a, a, o)
          /\ Beats(a, c, o) => Beats(a, b, o) \/ Beats(b, c, o)
          /\ Beats(a, b, o) => ~ Beats(b, a, o)
    BY <1>1 DEF Beats
<1> QED
    BY <1>2 DEF dominates

LEMMA FrontStandsForTheRest ==
    ASSUME About("registry"), RegistryIsRead
    PROVE  FrontDominatesTheRest
<1> DEFINE rows == sample.rows
           front == pareto(rows, default_objectives)
           R == {p \in rows \X rows : dominates(p[2], p[1], default_objectives)}
<1>1. RowsAreRead(rows)
    BY DEF RegistryIsRead
<1>2. \A o \in default_objectives : Measured(rows, o.metric)
    BY <1>1 DEF default_objectives, Objective, RowsAreRead, DefaultMetrics
<1>3. \A a, b \in rows : <<a, b>> \in R <=> dominates(b, a, default_objectives)
    OBVIOUS
<1> HIDE DEF R
<1>4. StrictOrder(rows, R)
    BY <1>2, <1>3, DominatesIsStrict DEF StrictOrder
<1>5. ASSUME NEW r \in rows \ front
      PROVE  \E s \in front : dominates(s, r, default_objectives)
    <2>1. PICK t \in rows : (t = r \/ <<r, t>> \in R) /\ \A s \in rows : <<t, s>> \notin R
        <3>1. IsFiniteSet(rows)
            BY <1>1 DEF RowsAreRead
        <3>2. r \in rows
            OBVIOUS
        <3> HIDE DEF rows, front
        <3> QED
            BY <1>4, <3>1, <3>2, SomethingOnTop
    <2>2. t \in front
        BY <1>3, <2>1 DEF pareto
    <2> QED
        BY <1>3, <2>1, <2>2
<1> QED
    BY <1>5 DEF FrontDominatesTheRest

-----------------------------------------------------------------------------
(* The two default orders *)

LEMMA DefaultValues ==
    ASSUME NEW rows, RowsAreRead(rows), NEW r \in rows
    PROVE  /\ metric_value(r, "priority_ratio") \in Int
           /\ metric_value(r, "task_ratio") \in Int
           /\ metric_value(r, "priority_density") \in Int
           /\ metric_value(r, "runtime_ms") \in Int
           /\ r.key \in Nat
<1>1. \A m \in DefaultMetrics : metric_value(r, m) \in Int
    BY ValuesAreNumbers DEF RowsAreRead
<1> QED
    BY <1>1 DEF RowsAreRead, DefaultMetrics

(* NULL is below a number where zero is, unless the number is not positive.*)
LEMMA NullsAreZeros ==
    ASSUME NEW rows, NEW m, Measured(rows, m), NEW a \in rows, NEW b \in rows,
           ~ Confused(a, b, m)
    PROVE  /\ SqlLess(a.metrics[m], b.metrics[m]) <=> metric_value(a, m) < metric_value(b, m)
           /\ SqlLess(b.metrics[m], a.metrics[m]) <=> metric_value(b, m) < metric_value(a, m)
<1> DEFINE x == a.metrics[m]
           y == b.metrics[m]
<1>1. x \in Int \cup {Unknown} /\ y \in Int \cup {Unknown}
    BY DEF Measured
<1>2. /\ ~ (x = Unknown /\ y # Unknown /\ y <= 0)
      /\ ~ (y = Unknown /\ x # Unknown /\ x <= 0)
    BY DEF Confused
<1>3. /\ metric_value(a, m) = IF x = Unknown THEN 0 ELSE x
      /\ metric_value(b, m) = IF y = Unknown THEN 0 ELSE y
    BY DEF metric_value
<1> HIDE DEF x, y
<1>4. /\ SqlLess(x, y) <=> metric_value(a, m) < metric_value(b, m)
      /\ SqlLess(y, x) <=> metric_value(b, m) < metric_value(a, m)
    BY <1>1, <1>2, <1>3, UnknownIsNoNumber DEF SqlLess
<1> QED
    BY <1>4 DEF x, y

LEMMA PoliciesAgree ==
    ASSUME NEW rows, RowsAreRead(rows), NEW a \in rows, NEW b \in rows, ToldAlike(a, b)
    PROVE  sort_expr(default_sort_keys, a, b) <=> compare_rows_by_default_policy(a, b)
<1> DEFINE keys == default_sort_keys
<1>1. KeysAreRead(rows, keys) /\ DOMAIN keys = 1 .. 4
    BY DefaultKeysAreRead
<1>a. /\ keys[1].metric = "priority_ratio" /\ keys[1].desc = TRUE
      /\ keys[2].metric = "task_ratio" /\ keys[2].desc = TRUE
      /\ keys[3].metric = "priority_density" /\ keys[3].desc = TRUE
      /\ keys[4].metric = "runtime_ms" /\ keys[4].desc = FALSE
    BY DEF default_sort_keys, SortKey, Ascending
<1>b. /\ ~ Confused(a, b, keys[1].metric) /\ ~ Confused(a, b, keys[2].metric)
      /\ ~ Confused(a, b, keys[3].metric) /\ ~ Confused(a, b, keys[4].metric)
    BY <1>1 DEF ToldAlike
<1>c. /\ Measured(rows, "priority_ratio") /\ Measured(rows, "task_ratio")
      /\ Measured(rows, "priority_density") /\ Measured(rows, "runtime_ms")
    BY DEF RowsAreRead, DefaultMetrics
<1> HIDE DEF keys
<1>3. /\ SameByKeys(keys, a, b) => (sort_expr(keys, a, b) <=> a.key < b.key)
      /\ \A k : FirstDiffers(keys, k, a, b) => (sort_expr(keys, a, b) <=> KeyLess(keys[k], a, b))
    BY <1>1, FirstDecides
<1>5. PICK va : va = [m \in {"priority_ratio", "task_ratio", "priority_density", "runtime_ms"} |->
                        metric_value(a, m)]
    OBVIOUS
<1>6. PICK vb : vb = [m \in {"priority_ratio", "task_ratio", "priority_density", "runtime_ms"} |->
                        metric_value(b, m)]
    OBVIOUS
<1>7. /\ va["priority_ratio"] \in Int /\ vb["priority_ratio"] \in Int
      /\ va["task_ratio"] \in Int /\ vb["task_ratio"] \in Int
      /\ va["priority_density"] \in Int /\ vb["priority_density"] \in Int
      /\ va["runtime_ms"] \in Int /\ vb["runtime_ms"] \in Int
      /\ a.key \in Int /\ b.key \in Int
    BY <1>5, <1>6, DefaultValues
<1>8. /\ KeyLess(keys[1], a, b) <=> va["priority_ratio"] > vb["priority_ratio"]
      /\ KeyLess(keys[1], b, a) <=> vb["priority_ratio"] > va["priority_ratio"]
      /\ KeyLess(keys[2], a, b) <=> va["task_ratio"] > vb["task_ratio"]
      /\ KeyLess(keys[2], b, a) <=> vb["task_ratio"] > va["task_ratio"]
      /\ KeyLess(keys[3], a, b) <=> va["priority_density"] > vb["priority_density"]
      /\ KeyLess(keys[3], b, a) <=> vb["priority_density"] > va["priority_density"]
      /\ KeyLess(keys[4], a, b) <=> va["runtime_ms"] < vb["runtime_ms"]
      /\ KeyLess(keys[4], b, a) <=> vb["runtime_ms"] < va["runtime_ms"]
    <2>1. /\ KeyLess(keys[1], a, b) <=> va["priority_ratio"] > vb["priority_ratio"]
          /\ KeyLess(keys[1], b, a) <=> vb["priority_ratio"] > va["priority_ratio"]
        BY <1>5, <1>6, <1>7, <1>a, <1>b, <1>c, NullsAreZeros DEF KeyLess
    <2>2. /\ KeyLess(keys[2], a, b) <=> va["task_ratio"] > vb["task_ratio"]
          /\ KeyLess(keys[2], b, a) <=> vb["task_ratio"] > va["task_ratio"]
        BY <1>5, <1>6, <1>7, <1>a, <1>b, <1>c, NullsAreZeros DEF KeyLess
    <2>3. /\ KeyLess(keys[3], a, b) <=> va["priority_density"] > vb["priority_density"]
          /\ KeyLess(keys[3], b, a) <=> vb["priority_density"] > va["priority_density"]
        BY <1>5, <1>6, <1>7, <1>a, <1>b, <1>c, NullsAreZeros DEF KeyLess
    <2>4. /\ KeyLess(keys[4], a, b) <=> va["runtime_ms"] < vb["runtime_ms"]
          /\ KeyLess(keys[4], b, a) <=> vb["runtime_ms"] < va["runtime_ms"]
        BY <1>5, <1>6, <1>a, <1>b, <1>c, NullsAreZeros DEF KeyLess
    <2> QED
        BY <2>1, <2>2, <2>3, <2>4
<1>9. compare_rows_by_default_policy(a, b) <=>
         \/ va["priority_ratio"] > vb["priority_ratio"]
         \/ va["priority_ratio"] = vb["priority_ratio"] /\ va["task_ratio"] > vb["task_ratio"]
         \/ /\ va["priority_ratio"] = vb["priority_ratio"] /\ va["task_ratio"] = vb["task_ratio"]
            /\ va["priority_density"] > vb["priority_density"]
         \/ /\ va["priority_ratio"] = vb["priority_ratio"] /\ va["task_ratio"] = vb["task_ratio"]
            /\ va["priority_density"] = vb["priority_density"]
            /\ \/ va["runtime_ms"] < vb["runtime_ms"]
               \/ va["runtime_ms"] = vb["runtime_ms"] /\ a.key < b.key
    BY <1>5, <1>6 DEF compare_rows_by_default_policy
<1>10. CASE va["priority_ratio"] # vb["priority_ratio"]
    <2>1. FirstDiffers(keys, 1, a, b)
        BY <1>1, <1>7, <1>8, <1>10 DEF FirstDiffers, Differ
    <2>2. sort_expr(keys, a, b) <=> KeyLess(keys[1], a, b)
        BY <1>3, <2>1
    <2>3. KeyLess(keys[1], a, b) <=> compare_rows_by_default_policy(a, b)
        BY ONLY <1>7, <1>8, <1>9, <1>10
    <2> QED
        BY <2>2, <2>3 DEF keys
<1>11. CASE va["priority_ratio"] = vb["priority_ratio"] /\ va["task_ratio"] # vb["task_ratio"]
    <2>1. FirstDiffers(keys, 2, a, b)
        <3>1. \A j \in DOMAIN keys : j < 2 => j = 1
            BY <1>1
        <3> QED
            BY <1>1, <1>7, <1>8, <1>11, <3>1 DEF FirstDiffers, Differ
    <2>2. sort_expr(keys, a, b) <=> KeyLess(keys[2], a, b)
        BY <1>3, <2>1
    <2>3. KeyLess(keys[2], a, b) <=> compare_rows_by_default_policy(a, b)
        BY ONLY <1>7, <1>8, <1>9, <1>11
    <2> QED
        BY <2>2, <2>3 DEF keys
<1>12. CASE /\ va["priority_ratio"] = vb["priority_ratio"] /\ va["task_ratio"] = vb["task_ratio"]
            /\ va["priority_density"] # vb["priority_density"]
    <2>1. FirstDiffers(keys, 3, a, b)
        <3>1. \A j \in DOMAIN keys : j < 3 => j = 1 \/ j = 2
            BY <1>1
        <3> QED
            BY <1>1, <1>7, <1>8, <1>12, <3>1 DEF FirstDiffers, Differ
    <2>2. sort_expr(keys, a, b) <=> KeyLess(keys[3], a, b)
        BY <1>3, <2>1
    <2>3. KeyLess(keys[3], a, b) <=> compare_rows_by_default_policy(a, b)
        BY ONLY <1>7, <1>8, <1>9, <1>12
    <2> QED
        BY <2>2, <2>3 DEF keys
<1>13. CASE /\ va["priority_ratio"] = vb["priority_ratio"] /\ va["task_ratio"] = vb["task_ratio"]
            /\ va["priority_density"] = vb["priority_density"] /\ va["runtime_ms"] # vb["runtime_ms"]
    <2>1. FirstDiffers(keys, 4, a, b)
        <3>1. \A j \in DOMAIN keys : j < 4 => j = 1 \/ j = 2 \/ j = 3
            BY <1>1
        <3> QED
            BY <1>1, <1>7, <1>8, <1>13, <3>1 DEF FirstDiffers, Differ
    <2>2. sort_expr(keys, a, b) <=> KeyLess(keys[4], a, b)
        BY <1>3, <2>1
    <2>3. KeyLess(keys[4], a, b) <=> compare_rows_by_default_policy(a, b)
        BY ONLY <1>7, <1>8, <1>9, <1>13
    <2> QED
        BY <2>2, <2>3 DEF keys
<1>14. CASE /\ va["priority_ratio"] = vb["priority_ratio"] /\ va["task_ratio"] = vb["task_ratio"]
            /\ va["priority_density"] = vb["priority_density"] /\ va["runtime_ms"] = vb["runtime_ms"]
    <2>1. SameByKeys(keys, a, b)
        <3>1. \A j \in DOMAIN keys : j = 1 \/ j = 2 \/ j = 3 \/ j = 4
            BY <1>1
        <3> QED
            BY <1>7, <1>8, <1>14, <3>1 DEF SameByKeys, Differ
    <2>2. sort_expr(keys, a, b) <=> a.key < b.key
        BY <1>3, <2>1
    <2>3. a.key < b.key <=> compare_rows_by_default_policy(a, b)
        BY ONLY <1>7, <1>9, <1>14
    <2> QED
        BY <2>2, <2>3 DEF keys
<1> QED
    BY <1>10, <1>11, <1>12, <1>13, <1>14 DEF keys

(* The default listing is the first hundred rows in the SQL ordering.      *)
LEMMA EverythingIsListed ==
    ASSUME NEW rows, RowsAreRead(rows)
    PROVE  /\ list(rows, Everything) = Take(Everything.limit, Sorted(default_sort_keys, rows))
           /\ list(rows, Everything) \in Seq(rows)
<1> DEFINE L == Sorted(default_sort_keys, rows)
<1>1. /\ Everything.sort = <<>> /\ Everything.limit = 100
      /\ Selected(rows, Everything) = rows
    BY DEF Everything, Selected, Within
<1>2. list(rows, Everything) = Take(100, L)
    <2>1. list(rows, Everything)
            = Take(100, SortedBy(LAMBDA a, b : sort_expr(default_sort_keys, a, b), rows))
        BY <1>1 DEF list, SortedBy
    <2> QED
        BY <2>1 DEF Sorted
<1>3. L \in Seq(rows)
    <2>1. /\ InLine(rows, SortOrder(rows, default_sort_keys), L) /\ IsFiniteSet(rows)
          /\ StrictTotalOrder(rows, SortOrder(rows, default_sort_keys))
        BY DefaultKeysAreRead, SortedInLine, SortIsOrder DEF RowsAreRead
    <2> HIDE DEF L
    <2> QED
        BY <2>1, InLineFacts
<1> HIDE DEF L
<1>4. Take(100, L) \in Seq(rows)
    <2>1. CASE Len(L) <= 100
        BY <1>3, <2>1 DEF Take
    <2>2. CASE ~ (Len(L) <= 100)
        <3>1. Len(L) \in Nat /\ Len(L) > 100
            BY <1>3, <2>2
        <3>2. \A i \in 1 .. 100 : L[i] \in rows
            BY <1>3, <3>1
        <3>3. SubSeq(L, 1, 100) = [i \in 1 .. 100 |-> L[i]]
            BY <1>3, <3>1
        <3>4. [i \in 1 .. 100 |-> L[i]] \in Seq(rows)
            BY <3>2
        <3> QED
            BY <2>2, <3>3, <3>4 DEF Take
    <2> QED
        BY <2>1, <2>2
<1> QED
    BY <1>1, <1>2, <1>4 DEF L

(* The program's order tells any two rows apart.                           *)
PolicyOrder(rows) == {p \in rows \X rows : compare_rows_by_default_policy(p[1], p[2])}

LEMMA PolicyIsOrder ==
    ASSUME NEW rows, RowsAreRead(rows)
    PROVE  StrictTotalOrder(rows, PolicyOrder(rows))
<1> DEFINE pr == [r \in rows |-> metric_value(r, "priority_ratio")]
           tr == [r \in rows |-> metric_value(r, "task_ratio")]
           pd == [r \in rows |-> metric_value(r, "priority_density")]
           rt == [r \in rows |-> metric_value(r, "runtime_ms")]
           key == [r \in rows |-> r.key]
           before(a, b) ==
              \/ pr[a] > pr[b]
              \/ pr[a] = pr[b] /\ tr[a] > tr[b]
              \/ pr[a] = pr[b] /\ tr[a] = tr[b] /\ pd[a] > pd[b]
              \/ pr[a] = pr[b] /\ tr[a] = tr[b] /\ pd[a] = pd[b] /\ rt[a] < rt[b]
              \/ /\ pr[a] = pr[b] /\ tr[a] = tr[b] /\ pd[a] = pd[b] /\ rt[a] = rt[b]
                 /\ key[a] < key[b]
<1>1. \A r \in rows : /\ pr[r] \in Int /\ tr[r] \in Int /\ pd[r] \in Int /\ rt[r] \in Int
                      /\ key[r] \in Int
    BY DefaultValues
<1>2. \A a, b \in rows : key[a] = key[b] => a = b
    BY DEF RowsAreRead
<1>3. \A a, b \in rows : <<a, b>> \in PolicyOrder(rows) <=> before(a, b)
    BY DEF PolicyOrder, compare_rows_by_default_policy
<1> HIDE DEF pr, tr, pd, rt, key
<1>4. \A a \in rows : ~ before(a, a)
    BY <1>1
<1>5. \A a, b \in rows : a # b => before(a, b) \/ before(b, a)
    BY <1>1, <1>2
<1>6. \A a, b, c \in rows : before(a, b) /\ before(b, c) => before(a, c)
    BY <1>1
<1> HIDE DEF before
<1> QED
    BY <1>3, <1>4, <1>5, <1>6 DEF StrictTotalOrder

Program(rows) == SortedBy(compare_rows_by_default_policy, rows)

LEMMA PolicyInLine ==
    ASSUME NEW rows, RowsAreRead(rows)
    PROVE  InLine(rows, PolicyOrder(rows), Program(rows))
<1> DEFINE size == Cardinality(rows)
           R == PolicyOrder(rows)
           IsNth(n, r) == Cardinality({s \in rows : compare_rows_by_default_policy(s, r)}) = n - 1
           L == Program(rows)
<1>1. L = [n \in 1 .. size |-> CHOOSE r \in rows : IsNth(n, r)]
    BY DEF Program, SortedBy
<1>2. \A r \in rows : {s \in rows : compare_rows_by_default_policy(s, r)} = Preceding(rows, R, r)
    BY DEF Preceding, PolicyOrder
<1> HIDE DEF R
<1>3. ASSUME NEW n \in 1 .. size
      PROVE  \E r \in rows : IsNth(n, r)
    <2>1. size \in Nat
        BY FS_CardinalityType DEF RowsAreRead
    <2>2. n - 1 \in 0 .. size - 1
        BY <2>1
    <2>3. \E r \in rows : Cardinality(Preceding(rows, R, r)) = n - 1
        BY <2>2, PolicyIsOrder, RankIsTaken DEF RowsAreRead, R
    <2> QED
        BY <1>2, <2>3
<1>4. ASSUME NEW n \in 1 .. size
      PROVE  L[n] \in rows /\ IsNth(n, L[n])
    <2>1. L[n] = CHOOSE r \in rows : IsNth(n, r)
        BY <1>1
    <2> HIDE DEF IsNth, L
    <2> QED
        BY <1>3, <2>1
<1> HIDE DEF L
<1>5. L = [n \in 1 .. size |-> L[n]]
    <2> HIDE DEF IsNth, size
    <2> QED
        BY <1>1
<1>6. \A n \in 1 .. size : L[n] \in rows /\ Cardinality(Preceding(rows, R, L[n])) = n - 1
    BY <1>2, <1>4
<1>7. InLine(rows, R, L)
    BY <1>5, <1>6 DEF InLine
<1> QED
    BY <1>7 DEF L, R

(* The first row in the program's order is dominated by none.              *)
LEMMA FirstIsOnFront ==
    ASSUME NEW rows, RowsAreRead(rows), rows # {}
    PROVE  Head(Program(rows)) \in pareto(rows, default_objectives)
<1> DEFINE L == Program(rows)
           R == PolicyOrder(rows)
           size == Cardinality(rows)
<1>1. StrictTotalOrder(rows, R) /\ InLine(rows, R, L) /\ IsFiniteSet(rows)
    BY PolicyIsOrder, PolicyInLine DEF RowsAreRead
<1> HIDE DEF L, R
<1>2. /\ L \in Seq(rows) /\ Len(L) = size /\ DOMAIN L = 1 .. size
      /\ \A i, j \in DOMAIN L : i < j <=> <<L[i], L[j]>> \in R
      /\ \A u \in rows : \E n \in DOMAIN L : L[n] = u
    BY <1>1, InLineFacts
<1>3. 1 \in DOMAIN L /\ Head(L) = L[1] /\ L[1] \in rows
    <2>1. size \in Nat /\ size # 0
        BY <1>1, FS_CardinalityType, FS_EmptySet
    <2>2. 1 \in 1 .. size
        BY <2>1
    <2> HIDE DEF size
    <2> QED
        BY <1>2, <2>2
<1>4. PICK h \in rows : h = L[1]
    BY <1>3
<1>5. ASSUME NEW other \in rows, dominates(other, h, default_objectives)
      PROVE  FALSE
    <2>1. \A m \in {"priority_ratio", "task_ratio", "priority_density"} :
             metric_value(other, m) >= metric_value(h, m)
        <3>1. \A m \in {"priority_ratio", "task_ratio", "priority_density"} :
                 Objective(m, TRUE) \in default_objectives
            BY DEF default_objectives
        <3>2. \A m \in {"priority_ratio", "task_ratio", "priority_density"} :
                 ~ (metric_value(h, m) > metric_value(other, m))
            BY <1>5, <3>1 DEF dominates, Beats, Objective
        <3> QED
            BY <3>2, DefaultValues
    <2>2. metric_value(other, "runtime_ms") <= metric_value(h, "runtime_ms")
        <3>1. Objective("runtime_ms", FALSE) \in default_objectives
            BY DEF default_objectives
        <3>2. ~ (metric_value(h, "runtime_ms") < metric_value(other, "runtime_ms"))
            BY <1>5, <3>1 DEF dominates, Beats, Objective
        <3> QED
            BY <3>2, DefaultValues
    <2>3. \/ \E m \in {"priority_ratio", "task_ratio", "priority_density"} :
                metric_value(other, m) > metric_value(h, m)
          \/ metric_value(other, "runtime_ms") < metric_value(h, "runtime_ms")
        BY <1>5 DEF dominates, Beats, Objective, default_objectives
    <2>4. compare_rows_by_default_policy(other, h)
        BY <2>1, <2>2, <2>3, DefaultValues DEF compare_rows_by_default_policy
    <2>5. <<other, h>> \in R
        BY <2>4 DEF R, PolicyOrder
    <2>6. PICK n \in DOMAIN L : L[n] = other
        BY <1>2
    <2>7. n < 1 /\ n \in 1 .. size
        BY <1>2, <1>3, <1>4, <2>5, <2>6
    <2> QED
        BY <2>7
<1> QED
    BY <1>3, <1>4, <1>5 DEF pareto, L

LEMMA ListingsAgree ==
    ASSUME About("registry"), RegistryIsRead
    PROVE  DefaultPoliciesAgree
<1> DEFINE rows == sample.rows
<1>1. RowsAreRead(rows) /\ IsFiniteSet(rows)
    BY DEF RegistryIsRead, RowsAreRead
<1> HIDE DEF rows
<1>2. ASSUME \A a, b \in rows : ToldAlike(a, b)
      PROVE  list(rows, Everything) = Take(Everything.limit, Program(rows))
    <2>1. SortOrder(rows, default_sort_keys) = PolicyOrder(rows)
        BY <1>1, <1>2, PoliciesAgree DEF SortOrder, PolicyOrder
    <2>2. /\ InLine(rows, PolicyOrder(rows), Sorted(default_sort_keys, rows))
          /\ InLine(rows, PolicyOrder(rows), Program(rows))
          /\ StrictTotalOrder(rows, PolicyOrder(rows))
        BY <1>1, <2>1, DefaultKeysAreRead, SortedInLine, PolicyInLine, PolicyIsOrder
    <2>3. Sorted(default_sort_keys, rows) = Program(rows)
        BY <1>1, <2>2, OneLine
    <2> QED
        BY <1>1, <2>3, EverythingIsListed
<1>3. rows # {} => Head(Program(rows)) \in pareto(rows, default_objectives)
    BY <1>1, FirstIsOnFront
<1>4. \A a, b \in rows : ToldAlike(a, b) =>
          (sort_expr(default_sort_keys, a, b) <=> compare_rows_by_default_policy(a, b))
    BY <1>1, PoliciesAgree
<1> QED
    BY <1>2, <1>3, <1>4 DEF DefaultPoliciesAgree, Program, rows

-----------------------------------------------------------------------------
(* A ranking by weights *)

LEMMA Products ==
    ASSUME NEW x \in Int, NEW y \in Int, NEW w \in Int
    PROVE  /\ x * w \in Int
           /\ w > 0 /\ x <= y => x * w <= y * w
           /\ w > 0 /\ x < y => x * w < y * w
           /\ w < 0 /\ y <= x => x * w <= y * w
           /\ w < 0 /\ y < x => x * w < y * w
           /\ w = 0 => x * w = 0
    OBVIOUS

WeightsAreRead(rows, weights) ==
    /\ IsFiniteSet(DOMAIN weights)
    /\ \A m \in DOMAIN weights : weights[m] \in Int /\ Measured(rows, m)

Gains(r, weights) == [m \in DOMAIN weights |-> metric_value(r, m) * weights[m]]

LEMMA GainsAreNumbers ==
    ASSUME NEW rows, NEW weights, WeightsAreRead(rows, weights), NEW r \in rows
    PROVE  Gains(r, weights) \in [DOMAIN weights -> Int]
<1>1. \A m \in DOMAIN weights : metric_value(r, m) \in Int /\ weights[m] \in Int
    BY ValuesAreNumbers DEF WeightsAreRead
<1> QED
    BY <1>1, Products DEF Gains

LEMMA ScoreIsSum ==
    ASSUME NEW rows, NEW weights, WeightsAreRead(rows, weights), NEW r \in rows
    PROVE  \E g : /\ Sums(DOMAIN weights, Gains(r, weights), g)
                  /\ Score(r, weights) = g[DOMAIN weights] /\ Score(r, weights) \in Int
<1> DEFINE S == DOMAIN weights
           f == Gains(r, weights)
           gain(m) == metric_value(r, m) * weights[m]
           total == CHOOSE g : Sums(S, f, g)
<1>1. f \in [S -> Int] /\ IsFiniteSet(S)
    BY GainsAreNumbers DEF WeightsAreRead
<1>2. Score(r, weights) = MapThenSumSet(gain, S)
    BY DEF Score
<1>a. \A m \in S : f[m] = gain(m)
    BY DEF Gains
<1>b. f = [m \in S |-> f[m]]
    BY DEF Gains
<1> HIDE DEF gain, f, S
<1>c. \A g : Sums(S, f, g) <=>
          g = [s \in SUBSET S |-> IF s = {} THEN 0 ELSE gain(Pick(s)) + g[s \ {Pick(s)}]]
    <2>1. \A s \in SUBSET S : s # {} => f[Pick(s)] = gain(Pick(s))
        BY <1>a DEF Pick
    <2> QED
        BY <2>1 DEF Sums
<1>3. Score(r, weights) = total[S]
    BY <1>2, <1>c DEF MapThenSumSet, MapThenFoldSet, Pick
<1>4. \E g : Sums(S, f, g)
    BY <1>1, SumsExist
<1>5. Sums(S, f, total)
    BY <1>4
<1> HIDE DEF total
<1>6. total[S] \in Int
    BY <1>1, <1>5, SumsAreNumbers
<1> QED
    BY <1>3, <1>5, <1>6 DEF f, S

(* A run that dominates another under the objectives that the weights      *)
(* reward scores more.                                                     *)
LEMMA DominatingScoresMore ==
    ASSUME NEW rows, NEW weights, WeightsAreRead(rows, weights), NEW a \in rows, NEW b \in rows,
           dominates(a, b, Rewarded(weights))
    PROVE  Score(a, weights) > Score(b, weights)
<1> DEFINE S == DOMAIN weights
           e == Gains(b, weights)
           f == Gains(a, weights)
<1>1. PICK g : Sums(S, e, g) /\ Score(b, weights) = g[S] /\ Score(b, weights) \in Int
    BY ScoreIsSum
<1>2. PICK h : Sums(S, f, h) /\ Score(a, weights) = h[S] /\ Score(a, weights) \in Int
    BY ScoreIsSum
<1>3. e \in [S -> Int] /\ f \in [S -> Int] /\ IsFiniteSet(S)
    BY GainsAreNumbers DEF WeightsAreRead
<1>4. /\ \A m \in S : weights[m] # 0 => ~ Beats(b, a, Objective(m, weights[m] > 0))
      /\ \E m \in S : weights[m] # 0 /\ Beats(a, b, Objective(m, weights[m] > 0))
    BY DEF dominates, Rewarded
<1>5. ASSUME NEW m \in S
      PROVE  /\ e[m] <= f[m]
             /\ weights[m] # 0 /\ Beats(a, b, Objective(m, weights[m] > 0)) => e[m] < f[m]
    <2>1. PICK x \in Int : x = metric_value(b, m)
        BY ValuesAreNumbers DEF WeightsAreRead
    <2>2. PICK y \in Int : y = metric_value(a, m)
        BY ValuesAreNumbers DEF WeightsAreRead
    <2>3. PICK w \in Int : w = weights[m]
        BY DEF WeightsAreRead
    <2>4. e[m] = x * w /\ f[m] = y * w
        BY <2>1, <2>2, <2>3 DEF Gains
    <2>5. /\ Beats(a, b, Objective(m, weights[m] > 0)) <=> IF w > 0 THEN y > x ELSE y < x
          /\ w # 0 => ~ (IF w > 0 THEN x > y ELSE x < y)
        BY <1>4, <2>1, <2>2, <2>3 DEF Beats, Objective
    <2> HIDE DEF e, f
    <2>6. CASE w > 0
        <3>1. x <= y /\ (Beats(a, b, Objective(m, weights[m] > 0)) => x < y)
            BY <2>5, <2>6
        <3>2. x * w <= y * w /\ (x < y => x * w < y * w)
            BY <2>6, <3>1, Products
        <3> QED
            BY <2>4, <3>1, <3>2
    <2>7. CASE w < 0
        <3>1. y <= x /\ (Beats(a, b, Objective(m, weights[m] > 0)) => y < x)
            BY <2>5, <2>7
        <3>2. x * w <= y * w /\ (y < x => x * w < y * w)
            BY <2>7, <3>1, Products
        <3> QED
            BY <2>4, <3>1, <3>2
    <2>8. CASE w = 0
        <3>1. x * w = 0 /\ y * w = 0
            BY <2>8, Products
        <3> QED
            BY <2>3, <2>4, <2>8, <3>1
    <2> QED
        BY <2>3, <2>6, <2>7, <2>8
<1>6. \E m \in S : e[m] < f[m]
    BY <1>4, <1>5
<1> HIDE DEF S, e, f
<1>7. g[S] < h[S]
    BY <1>1, <1>2, <1>3, <1>5, <1>6, SumsCompare
<1> QED
    BY <1>1, <1>2, <1>7

RankOrder(rows, weights) ==
    {p \in rows \X rows : \/ Score(p[1], weights) > Score(p[2], weights)
                          \/ Score(p[1], weights) = Score(p[2], weights) /\ p[1].key < p[2].key}

LEMMA RankInLine ==
    ASSUME NEW rows, NEW weights, RowsAreRead(rows), WeightsAreRead(rows, weights)
    PROVE  /\ StrictTotalOrder(rows, RankOrder(rows, weights))
           /\ InLine(rows, RankOrder(rows, weights), rank(rows, weights))
<1> DEFINE size == Cardinality(rows)
           R == RankOrder(rows, weights)
           before(a, b) == \/ Score(a, weights) > Score(b, weights)
                           \/ Score(a, weights) = Score(b, weights) /\ a.key < b.key
           IsNth(n, r) == Cardinality({s \in rows : before(s, r)}) = n - 1
           L == rank(rows, weights)
<1>1. \A r \in rows : Score(r, weights) \in Int /\ r.key \in Nat
    BY ScoreIsSum DEF RowsAreRead
<1>2. \A a, b \in rows : <<a, b>> \in R <=> before(a, b)
    BY DEF RankOrder
<1>3. StrictTotalOrder(rows, R)
    <2>1. \A r, s \in rows : r.key = s.key => r = s
        BY DEF RowsAreRead
    <2> HIDE DEF R
    <2> QED
        BY <1>1, <1>2, <2>1 DEF StrictTotalOrder
<1>4. L = [n \in 1 .. size |-> CHOOSE r \in rows : IsNth(n, r)]
    BY DEF rank, SortedBy
<1>5. \A r \in rows : {s \in rows : before(s, r)} = Preceding(rows, R, r)
    <2> HIDE DEF R, before
    <2> QED
        BY <1>2 DEF Preceding
<1> HIDE DEF R, before
<1>6. ASSUME NEW n \in 1 .. size
      PROVE  \E r \in rows : IsNth(n, r)
    <2>1. size \in Nat
        BY FS_CardinalityType DEF RowsAreRead
    <2>2. n - 1 \in 0 .. size - 1
        BY <2>1
    <2>3. \E r \in rows : Cardinality(Preceding(rows, R, r)) = n - 1
        BY <1>3, <2>2, RankIsTaken DEF RowsAreRead
    <2> QED
        BY <1>5, <2>3
<1>7. ASSUME NEW n \in 1 .. size
      PROVE  L[n] \in rows /\ IsNth(n, L[n])
    <2>1. L[n] = CHOOSE r \in rows : IsNth(n, r)
        BY <1>4
    <2> HIDE DEF IsNth, L
    <2> QED
        BY <1>6, <2>1
<1> HIDE DEF L
<1>8. L = [n \in 1 .. size |-> L[n]]
    <2> HIDE DEF IsNth, size
    <2> QED
        BY <1>4
<1>9. \A n \in 1 .. size : L[n] \in rows /\ Cardinality(Preceding(rows, R, L[n])) = n - 1
    BY <1>5, <1>7
<1>10. InLine(rows, R, L)
    BY <1>8, <1>9 DEF InLine
<1> QED
    BY <1>3, <1>10 DEF L, R

LEMMA RankingsFollow ==
    ASSUME About("registry"), RegistryIsRead
    PROVE  RankRespectsDominance
<1> DEFINE rows == sample.rows
<1> SUFFICES ASSUME NEW weights \in sample.weights
             PROVE  \A i, j \in DOMAIN rank(rows, weights) :
                       dominates(rank(rows, weights)[i], rank(rows, weights)[j],
                                 Rewarded(weights)) => i < j
    BY DEF RankRespectsDominance
<1>1. RowsAreRead(rows) /\ IsFiniteSet(rows) /\ WeightsAreRead(rows, weights)
    BY DEF RegistryIsRead, RowsAreRead, WeightsAreRead
<1> DEFINE L == rank(rows, weights)
           R == RankOrder(rows, weights)
<1>2. StrictTotalOrder(rows, R) /\ InLine(rows, R, L)
    BY <1>1, RankInLine
<1> HIDE DEF rows, L, R
<1>3. /\ L \in Seq(rows) /\ \A i, j \in DOMAIN L : i < j <=> <<L[i], L[j]>> \in R
    BY <1>1, <1>2, InLineFacts
<1>4. ASSUME NEW i \in DOMAIN L, NEW j \in DOMAIN L,
             dominates(L[i], L[j], Rewarded(weights))
      PROVE  i < j
    <2>1. L[i] \in rows /\ L[j] \in rows
        BY <1>3
    <2>2. Score(L[i], weights) > Score(L[j], weights)
        BY <1>1, <1>4, <2>1, DominatingScoresMore
    <2>3. <<L[i], L[j]>> \in R
        BY <2>1, <2>2 DEF R, RankOrder
    <2> QED
        BY <1>3, <2>3
<1> QED
    BY <1>4 DEF L

-----------------------------------------------------------------------------
(* An export *)

LEMMA MaxOfPlaces ==
    ASSUME NEW n \in Nat
    PROVE  /\ \A s \in SUBSET (1 .. n) : s # {} => Max(s) \in s
           /\ \A i \in 1 .. n : Max(1 .. i) = i
<1>1. ASSUME NEW s \in SUBSET (1 .. n), s # {}
      PROVE  Max(s) \in s /\ \A x \in s : Max(s) >= x
    <2>1. s \in SUBSET Int /\ \A x \in s : x <= n
        OBVIOUS
    <2>a. \E m \in s : \A x \in s : x <= m
        <3>1. n \in Int
            OBVIOUS
        <3> QED
            BY <1>1, <2>1, <3>1, LargestNumber
    <2>2. PICK m \in s : \A x \in s : x <= m
        BY <2>a
    <2>3. \A x \in s : m >= x
        BY <2>1, <2>2
    <2> QED
        BY <2>3 DEF Max
<1>2. ASSUME NEW i \in 1 .. n
      PROVE  Max(1 .. i) = i
    <2>1. 1 .. i \in SUBSET (1 .. n) /\ 1 .. i # {} /\ i \in 1 .. i
        OBVIOUS
    <2>2. Max(1 .. i) \in 1 .. i /\ Max(1 .. i) >= i
        BY <1>1, <2>1
    <2> QED
        BY <2>2
<1> QED
    BY <1>1, <1>2

(* The names that an export gives, and the states it goes through.         *)
NamesFor(rows) == UNION {{r.base, Append(r.base, KeyPrefix(r.key))} : r \in rows}
ExportStates(rows, dir) ==
    [used : SUBSET NamesFor(rows),
     dir : SUBSET (dir \cup {[name |-> nm, run |-> r.key] : nm \in NamesFor(rows), r \in rows})]
Begun(dir) == [used |-> {}, dir |-> dir]
Folding(L, force, dir) == FoldLeft(LAMBDA s, r : ExportRun(r, force, s), Begun(dir), L)

LEMMA ExportStays ==
    ASSUME NEW rows, NEW dir, NEW force, NEW r \in rows, NEW s \in ExportStates(rows, dir)
    PROVE  ExportRun(r, force, s) \in ExportStates(rows, dir)
<1> DEFINE name == IF r.base \in s.used THEN Append(r.base, KeyPrefix(r.key)) ELSE r.base
           E == dir \cup {[name |-> nm, run |-> q.key] : nm \in NamesFor(rows), q \in rows}
<1>1. name \in NamesFor(rows) /\ r.base \in NamesFor(rows)
    BY DEF NamesFor
<1>2. s.used \in SUBSET NamesFor(rows) /\ s.dir \in SUBSET E
    BY DEF ExportStates
<1>3. [name |-> name, run |-> r.key] \in E
    <2> DEFINE File(nm, q) == [name |-> nm, run |-> q.key]
               Offered == {File(nm, q) : nm \in NamesFor(rows), q \in rows}
    <2>1. E = dir \cup Offered
        OBVIOUS
    <2> HIDE DEF E, name, File
    <2>2. File(name, r) \in Offered
        BY <1>1
    <2>3. File(name, r) \in E
        BY <2>1, <2>2
    <2> QED
        BY <2>3 DEF File
<1>4. ExportRun(r, force, s) =
          IF ~ r.exportable THEN s
          ELSE [used |-> s.used \cup {name, r.base}, dir |-> Write(s.dir, name, r, force)]
    BY DEF ExportRun
<1> HIDE DEF name
<1>5. Write(s.dir, name, r, force) \in SUBSET E
    <2> HIDE DEF E
    <2> QED
        BY <1>2, <1>3 DEF Write
<1>6. s.used \cup {name, r.base} \in SUBSET NamesFor(rows)
    BY <1>1, <1>2
<1> HIDE DEF E
<1>7. [used |-> s.used \cup {name, r.base}, dir |-> Write(s.dir, name, r, force)]
         \in [used : SUBSET NamesFor(rows), dir : SUBSET E]
    BY <1>5, <1>6
<1> QED
    BY <1>4, <1>7 DEF ExportStates, E

(* An export takes the listed runs one after another.                      *)
Exporting(L, force, dir, t) ==
    /\ t[0] = Begun(dir)
    /\ \A i \in 1 .. Len(L) : t[i] = ExportRun(L[i], force, t[i - 1])

LEMMA ExportSteps ==
    ASSUME NEW rows, NEW L \in Seq(rows), NEW force, NEW dir
    PROVE  \E t : /\ Exporting(L, force, dir, t)
                  /\ Folding(L, force, dir) = t[Len(L)]
<1> DEFINE n == Len(L)
           D == 1 .. n
           G == ExportStates(rows, dir)
           pick == [s \in SUBSET D |-> Max(s)]
           step == [p \in D \X G |-> ExportRun(L[p[1]], force, p[2])]
           IsFold(g) == g = [s \in SUBSET D |->
                               IF s = {} THEN Begun(dir)
                               ELSE ExportRun(L[Max(s)], force, g[s \ {Max(s)}])]
           fold == CHOOSE g : IsFold(g)
<1>1. n \in Nat /\ DOMAIN L = D /\ \A i \in D : L[i] \in rows
    OBVIOUS
<1>2. Picks(D, pick) /\ IsFiniteSet(D)
    <2>1. \A s \in SUBSET D : s # {} => Max(s) \in s
        BY <1>1, MaxOfPlaces
    <2>2. IsFiniteSet(D)
        BY <1>1, FS_Interval
    <2> HIDE DEF D
    <2> QED
        BY <2>1, <2>2 DEF Picks
<1>3. Begun(dir) \in G
    BY DEF Begun, ExportStates
<1>4. step \in [D \X G -> G]
    <2> HIDE DEF G
    <2>1. \A i \in D, s \in G : ExportRun(L[i], force, s) \in G
        BY <1>1, ExportStays DEF G
    <2> QED
        BY <2>1
<1>5. Folded(D, pick, G, Begun(dir), step)
    <2> HIDE DEF D, pick, G, step
    <2> QED
        BY <1>2, <1>3, <1>4, FoldExists
<1>6. PICK h \in [SUBSET D -> G] : \A s \in SUBSET D :
          h[s] = IF s = {} THEN Begun(dir) ELSE step[pick[s], h[s \ {pick[s]}]]
    <2> HIDE DEF D, pick, G, step
    <2> QED
        BY <1>5, Zenon DEF Folded
<1>7. ASSUME NEW s \in SUBSET D, s # {}
      PROVE  step[pick[s], h[s \ {pick[s]}]] = ExportRun(L[Max(s)], force, h[s \ {Max(s)}])
    <2>1. pick[s] = Max(s) /\ Max(s) \in D /\ s \ {Max(s)} \in SUBSET D
        BY <1>1, <1>7, MaxOfPlaces
    <2>2. h[s \ {Max(s)}] \in G
        BY <1>6, <2>1
    <2> HIDE DEF D, G, pick
    <2> QED
        BY <2>1, <2>2
<1> HIDE DEF step, pick, G
<1>8. IsFold(h)
    <2> HIDE DEF D
    <2> QED
        BY <1>6, <1>7
<1>9. IsFold(fold)
    <2> HIDE DEF IsFold
    <2> QED
        BY <1>8
<1>10. Folding(L, force, dir) = fold[D]
    BY <1>1 DEF Folding, FoldLeft, MapThenFoldSet
<1> HIDE DEF fold
<1> DEFINE t == [i \in 0 .. n |-> fold[1 .. i]]
<1>11. t[0] = Begun(dir)
    <2>1. {} \in SUBSET D /\ 1 .. 0 = {} /\ 0 \in 0 .. n
        BY <1>1
    <2> HIDE DEF D, n
    <2> QED
        BY <1>9, <2>1
<1>12. ASSUME NEW i \in 1 .. n
       PROVE  t[i] = ExportRun(L[i], force, t[i - 1])
    <2>1. /\ i \in 0 .. n /\ i - 1 \in 0 .. n /\ 1 .. i \in SUBSET D /\ 1 .. i # {}
          /\ (1 .. i) \ {i} = 1 .. (i - 1)
        BY <1>1
    <2>2. Max(1 .. i) = i
        BY <1>1, MaxOfPlaces
    <2>3. fold[1 .. i] = ExportRun(L[i], force, fold[1 .. (i - 1)])
        <3> HIDE DEF D, n
        <3> QED
            BY <1>9, <2>1, <2>2
    <2> HIDE DEF n, D
    <2> QED
        BY <2>1, <2>3
<1>13. t[n] = fold[D] /\ Exporting(L, force, dir, t)
    <2>1. n \in 0 .. n
        BY <1>1
    <2> HIDE DEF t
    <2>2. t[n] = fold[D]
        BY <2>1 DEF t
    <2> QED
        BY <1>11, <1>12, <2>2 DEF Exporting
<1> HIDE DEF t
<1> QED
    BY <1>10, <1>13

(* Names are triples, with the start of a key behind them or not.          *)
LEMMA NamesDiffer ==
    ASSUME NEW B, NEW b \in [1 .. 3 -> B], NEW c \in [1 .. 3 -> B], NEW k, NEW l
    PROVE  Append(b, k) # c /\ (Append(b, k) = Append(c, l) => k = l /\ b = c)
<1>1. PICK A : A = B \cup {k, l}
    OBVIOUS
<1>2. k \in A /\ l \in A /\ b \in [1 .. 3 -> A] /\ c \in [1 .. 3 -> A]
    BY <1>1
<1>3. b = [i \in 1 .. 3 |-> b[i]] /\ c = [i \in 1 .. 3 |-> c[i]] /\ 3 \in Nat
    BY <1>2
<1>4. \A i \in 1 .. 3 : b[i] \in A /\ c[i] \in A
    BY <1>2
<1>5. b \in Seq(A) /\ c \in Seq(A)
    BY ONLY <1>3, <1>4
<1>6. Len(b) = 3 /\ Len(c) = 3
    BY ONLY <1>3, <1>4
<1>7. /\ Len(Append(b, k)) = Len(b) + 1 /\ Append(b, k)[Len(b) + 1] = k
      /\ Append(c, l)[Len(c) + 1] = l
    BY ONLY <1>2, <1>5
<1>a. Len(b) + 1 = 4 /\ Len(c) + 1 = 4
    BY ONLY <1>6
<1>8. Append(b, k) # c
    <2>1. Len(Append(b, k)) = 4 /\ Len(c) = 3
        BY ONLY <1>6, <1>7, <1>a, Zenon
    <2> QED
        BY <2>1
<1>9. Append(b, k)[4] = k /\ Append(c, l)[4] = l
    BY ONLY <1>7, <1>a, Zenon
<1>10. \A i \in 1 .. 3 : Append(b, k)[i] = b[i] /\ Append(c, l)[i] = c[i]
    <2>1. \A i \in 1 .. Len(b) : Append(b, k)[i] = b[i]
        BY ONLY <1>2, <1>5
    <2>2. \A i \in 1 .. Len(c) : Append(c, l)[i] = c[i]
        BY ONLY <1>2, <1>5
    <2> QED
        BY ONLY <1>6, <2>1, <2>2, Zenon
<1>11. Append(b, k) = Append(c, l) => b = c
    <2>1. Append(b, k) = Append(c, l) => \A i \in 1 .. 3 : b[i] = c[i]
        BY ONLY <1>10
    <2> QED
        BY ONLY <1>3, <2>1
<1> QED
    BY ONLY <1>8, <1>9, <1>11, Zenon

(* A name that an export gives a run, and the file it writes.              *)
Fits(nm, r) == nm = r.base \/ nm = Append(r.base, KeyPrefix(r.key))
File(nm, r) == [name |-> nm, run |-> r.key]

LEMMA LongNamesAreAlike ==
    ASSUME NEW rows, RowsAreRead(rows), NEW r \in rows, NEW q \in rows,
           Fits(Append(r.base, KeyPrefix(r.key)), q)
    PROVE  Alike(r, q) /\ Alike(q, r)
<1>1. PICK B : \A u \in rows : u.base \in [1 .. 3 -> B]
    BY DEF RowsAreRead
<1>2. r.base \in [1 .. 3 -> B] /\ q.base \in [1 .. 3 -> B]
    BY <1>1
<1>3. KeyPrefix(r.key) = KeyPrefix(q.key) /\ r.base = q.base
    BY <1>2, NamesDiffer DEF Fits
<1> QED
    BY <1>3 DEF Alike

(* The file of that name, which this export has used, is of run k, one of  *)
(* the first i.                                                            *)
Holds(L, i, s, nm, k) ==
    /\ nm \in s.used /\ k \in 1 .. i /\ L[k].exportable
    /\ Fits(nm, L[k]) /\ File(nm, L[k]) \in s.dir

(* After i of the listed runs: for each of them that can be exported there *)
(* is a file, of that run or of one like it, and unless files of before    *)
(* may be there, each file is one of this export.                          *)
ExportInv(L, force, i, s) ==
    /\ \A j \in 1 .. i : L[j].exportable =>
          \E nm, k : Holds(L, i, s, nm, k) /\ Alike(L[j], L[k])
    /\ force \/ \A e \in s.dir : \E nm, k : Holds(L, i, s, nm, k) /\ e = File(nm, L[k])

LEMMA ExportInvKept ==
    ASSUME NEW rows, RowsAreRead(rows), NEW L \in Seq(rows), NEW force \in BOOLEAN,
           NEW i \in 1 .. Len(L), NEW s, ExportInv(L, force, i - 1, s)
    PROVE  ExportInv(L, force, i, ExportRun(L[i], force, s))
<1> DEFINE r == L[i]
           long == Append(r.base, KeyPrefix(r.key))
           name == IF r.base \in s.used THEN long ELSE r.base
           next == [used |-> s.used \cup {name, r.base}, dir |-> Write(s.dir, name, r, force)]
<1>1. /\ \A j \in 1 .. i : L[j] \in rows /\ (j = i \/ j \in 1 .. (i - 1))
      /\ \A j \in 1 .. (i - 1) : j \in 1 .. i
      /\ i \in 1 .. i
    <2>1. /\ \A j \in 1 .. i : j \in 1 .. Len(L) /\ (j = i \/ j \in 1 .. (i - 1))
          /\ \A j \in 1 .. (i - 1) : j \in 1 .. i
          /\ i \in 1 .. i
        OBVIOUS
    <2>2. \A j \in 1 .. Len(L) : L[j] \in rows
        OBVIOUS
    <2> QED
        BY <2>1, <2>2
<1>2. /\ \A j \in 1 .. (i - 1) : L[j].exportable =>
            \E nm, k : Holds(L, i - 1, s, nm, k) /\ Alike(L[j], L[k])
      /\ force \/ \A e \in s.dir : \E nm, k : Holds(L, i - 1, s, nm, k) /\ e = File(nm, L[k])
    BY DEF ExportInv
<1>3. ExportRun(r, force, s) = IF ~ r.exportable THEN s ELSE next
    BY DEF ExportRun
<1>4. /\ name \in s.used => name = long
      /\ Fits(name, r)
    BY DEF Fits
(* Whoever has a name that this run gets once more is like this run.       *)
<1>5. ASSUME NEW k, Holds(L, i - 1, s, name, k)
      PROVE  Alike(r, L[k]) /\ Alike(L[k], r)
    <2>1. name = long /\ Fits(long, L[k])
        BY <1>4, <1>5 DEF Holds
    <2>2. r \in rows /\ L[k] \in rows
        BY <1>1, <1>5 DEF Holds
    <2> HIDE DEF r
    <2> QED
        BY <2>1, <2>2, LongNamesAreAlike
<1> HIDE DEF name, long
<1>6. CASE ~ r.exportable
    <2>1. \A nm, k : Holds(L, i - 1, s, nm, k) => Holds(L, i, s, nm, k)
        BY <1>1 DEF Holds
    <2>2. ExportInv(L, force, i, s)
        <3>1. \A j \in 1 .. i : L[j].exportable => j \in 1 .. (i - 1)
            BY <1>1, <1>6
        <3> HIDE DEF r
        <3> QED
            BY <1>2, <2>1, <3>1 DEF ExportInv
    <2> QED
        BY <1>3, <1>6, <2>2
<1>7. CASE r.exportable
    <2>1. next.used = s.used \cup {name, r.base} /\ next.dir = Write(s.dir, name, r, force)
        OBVIOUS
    <2> HIDE DEF next
    <2>2. \A nm, k : Holds(L, i - 1, s, nm, k) /\ File(nm, L[k]) \in next.dir =>
             Holds(L, i, next, nm, k)
        BY <1>1, <2>1 DEF Holds
    <2>3. ASSUME Named(s.dir, name) # {} /\ ~ force
          PROVE  ExportInv(L, force, i, next)
        <3>1. next.dir = s.dir
            BY <2>1, <2>3 DEF Write
        <3>2. \A nm, k : Holds(L, i - 1, s, nm, k) => Holds(L, i, next, nm, k)
            BY <2>2, <3>1 DEF Holds
        <3>3. PICK e \in s.dir : e.name = name
            BY <2>3 DEF Named
        <3>4. PICK nm, k : Holds(L, i - 1, s, nm, k) /\ e = File(nm, L[k])
            BY <1>2, <2>3
        <3>5. Holds(L, i - 1, s, name, k)
            BY <3>3, <3>4 DEF File
        <3>6. ASSUME NEW j \in 1 .. i, L[j].exportable
              PROVE  \E nn, l : Holds(L, i, next, nn, l) /\ Alike(L[j], L[l])
            <4>1. CASE j = i
                BY <1>5, <3>2, <3>5, <4>1
            <4>2. CASE j \in 1 .. (i - 1)
                BY <1>2, <3>2, <3>6, <4>2
            <4> QED
                BY <1>1, <4>1, <4>2
        <3>7. \A f \in next.dir : \E nn, l : Holds(L, i, next, nn, l) /\ f = File(nn, L[l])
            BY <1>2, <2>3, <3>1, <3>2
        <3> QED
            BY <3>6, <3>7 DEF ExportInv
    <2>4. ASSUME ~ (Named(s.dir, name) # {} /\ ~ force)
          PROVE  ExportInv(L, force, i, next)
        <3>1. next.dir = (s.dir \ Named(s.dir, name)) \cup {File(name, r)}
            BY <2>1, <2>4 DEF Write, File
        <3>2. Holds(L, i, next, name, i)
            BY <1>1, <1>4, <1>7, <2>1, <3>1 DEF Holds
        <3>3. ASSUME NEW nm, NEW k, Holds(L, i - 1, s, nm, k), nm # name
              PROVE  Holds(L, i, next, nm, k)
            <4>1. File(nm, L[k]) \in s.dir /\ File(nm, L[k]).name = nm
                BY <3>3 DEF Holds, File
            <4>2. File(nm, L[k]) \in next.dir
                BY <3>1, <3>3, <4>1 DEF Named
            <4> QED
                BY <2>2, <3>3, <4>2
        <3>4. ASSUME NEW j \in 1 .. i, L[j].exportable
              PROVE  \E nm, k : Holds(L, i, next, nm, k) /\ Alike(L[j], L[k])
            <4>1. CASE j = i
                <5>1. Alike(L[j], L[i])
                    BY <4>1 DEF Alike
                <5> QED
                    BY <3>2, <5>1
            <4>2. CASE j \in 1 .. (i - 1)
                <5>1. PICK nm, k : Holds(L, i - 1, s, nm, k) /\ Alike(L[j], L[k])
                    BY <1>2, <3>4, <4>2
                <5>2. CASE nm = name
                    <6>1. Alike(L[k], r)
                        BY <1>5, <5>1, <5>2
                    <6>2. Alike(L[j], L[i])
                        BY <5>1, <6>1 DEF Alike
                    <6> QED
                        BY <3>2, <6>2
                <5>3. CASE nm # name
                    BY <3>3, <5>1, <5>3
                <5> QED
                    BY <5>2, <5>3
            <4> QED
                BY <1>1, <4>1, <4>2
        <3>5. ASSUME ~ force, NEW f \in next.dir
              PROVE  \E nm, k : Holds(L, i, next, nm, k) /\ f = File(nm, L[k])
            <4>1. CASE f = File(name, r)
                BY <3>2, <4>1
            <4>2. CASE f # File(name, r)
                <5>1. f \in s.dir /\ f \notin Named(s.dir, name)
                    BY <3>1, <3>5, <4>2
                <5>2. PICK nm, k : Holds(L, i - 1, s, nm, k) /\ f = File(nm, L[k])
                    BY <1>2, <3>5, <5>1
                <5>3. nm # name
                    BY <5>1, <5>2 DEF Named, File
                <5> QED
                    BY <3>3, <5>2, <5>3
            <4> QED
                BY <4>1, <4>2
        <3> QED
            BY <3>4, <3>5 DEF ExportInv
    <2>5. ExportInv(L, force, i, next)
        BY <2>3, <2>4
    <2> HIDE DEF r
    <2> QED
        BY <1>3, <1>7, <2>5 DEF r
<1> QED
    BY <1>6, <1>7

(* A run that is written without force leaves every file as it was.        *)
LEMMA UnforcedKeeps ==
    ASSUME NEW r, NEW s
    PROVE  s.dir \subseteq ExportRun(r, FALSE, s).dir
    BY DEF ExportRun, Write

LEMMA ExportFacts ==
    ASSUME NEW rows, RowsAreRead(rows), NEW force \in BOOLEAN, NEW dir
    PROVE  /\ force \/ dir = {} => Exported(rows, export(rows, Everything, force, dir))
           /\ ~ force => dir \subseteq export(rows, Everything, force, dir)
<1> DEFINE L == list(rows, Everything)
           n == Len(L)
<1>2. L \in Seq(rows) /\ DOMAIN L = 1 .. n
    <2>1. L \in Seq(rows)
        BY EverythingIsListed
    <2> HIDE DEF L
    <2> QED
        BY <2>1
<1> HIDE DEF L
<1>4. PICK t : /\ Exporting(L, force, dir, t)
               /\ Folding(L, force, dir) = t[n]
    BY <1>2, ExportSteps
<1>5. export(rows, Everything, force, dir) = t[n].dir
    BY <1>4 DEF export, Folding, Begun, L
<1>6. n \in Nat /\ t[0] = Begun(dir) /\ \A i \in 1 .. n : t[i] = ExportRun(L[i], force, t[i - 1])
    BY <1>2, <1>4 DEF Exporting
<1>7. ASSUME force \/ dir = {}
      PROVE  Exported(rows, t[n].dir)
    <2> DEFINE P == {i \in Nat : i <= n => ExportInv(L, force, i, t[i])}
    <2>1. 0 \in P
        <3>1. t[0].used = {} /\ t[0].dir = dir
            BY <1>6 DEF Begun
        <3>2. ExportInv(L, force, 0, t[0])
            BY <1>7, <3>1 DEF ExportInv
        <3> QED
            BY <3>2
    <2>2. ASSUME NEW m \in Nat, m \in P
          PROVE  m + 1 \in P
        <3> SUFFICES ASSUME m + 1 <= n
                     PROVE  ExportInv(L, force, m + 1, t[m + 1])
            OBVIOUS
        <3>1. PICK i \in 1 .. n : i = m + 1
            BY <1>6
        <3>2. i - 1 = m /\ m <= n
            BY <1>6, <3>1
        <3>3. ExportInv(L, force, i - 1, t[i - 1])
            BY <2>2, <3>2
        <3>4. ExportInv(L, force, i, ExportRun(L[i], force, t[i - 1]))
            BY <1>2, <3>3, ExportInvKept, SMTT(60)
        <3> QED
            BY <1>6, <3>1, <3>4
    <2>3. n \in P
        <3> HIDE DEF P
        <3> QED
            BY <1>6, <2>1, <2>2, CountingUp
    <2>4. ExportInv(L, force, n, t[n])
        BY <1>6, <2>3
    <2>5. ASSUME NEW r \in ToSet(L), r.exportable
          PROVE  \E e \in t[n].dir, q \in rows : q.exportable /\ e.run = q.key /\ Alike(r, q)
        <3>1. PICK j \in 1 .. n : L[j] = r
            BY <1>2 DEF ToSet
        <3>2. PICK nm, k : Holds(L, n, t[n], nm, k) /\ Alike(L[j], L[k])
            BY <2>4, <2>5, <3>1 DEF ExportInv
        <3>3. L[k] \in rows /\ L[k].exportable /\ File(nm, L[k]) \in t[n].dir
            BY <1>2, <3>2 DEF Holds
        <3>4. File(nm, L[k]).run = L[k].key
            BY DEF File
        <3> QED
            BY <3>1, <3>2, <3>3, <3>4
    <2> QED
        BY <2>5 DEF Exported, L
<1>8. ASSUME ~ force
      PROVE  dir \subseteq t[n].dir
    <2> DEFINE P == {i \in Nat : i <= n => dir \subseteq t[i].dir}
    <2>1. 0 \in P
        BY <1>6 DEF Begun
    <2>2. ASSUME NEW m \in Nat, m \in P
          PROVE  m + 1 \in P
        <3> SUFFICES ASSUME m + 1 <= n
                     PROVE  dir \subseteq t[m + 1].dir
            OBVIOUS
        <3>1. PICK i \in 1 .. n : i = m + 1
            BY <1>6
        <3>2. i - 1 = m /\ m <= n
            BY <1>6, <3>1
        <3>3. dir \subseteq t[i - 1].dir
            BY <2>2, <3>2
        <3>4. t[i - 1].dir \subseteq ExportRun(L[i], force, t[i - 1]).dir
            <4>1. force = FALSE
                BY <1>8
            <4> QED
                BY <4>1, UnforcedKeeps
        <3> QED
            BY <1>6, <3>1, <3>3, <3>4
    <2>3. n \in P
        <3> HIDE DEF P
        <3> QED
            BY <1>6, <2>1, <2>2, CountingUp
    <2> QED
        BY <1>6, <2>3
<1> QED
    BY <1>5, <1>7, <1>8

LEMMA ExportsMissNothing ==
    ASSUME About("registry"), RegistryIsRead
    PROVE  ExportsAreComplete
    BY ExportFacts DEF RegistryIsRead, ExportsAreComplete

(* Listings, rankings, fronts and exports of one registry do not           *)
(* contradict each other, whatever it holds and whichever metrics are      *)
(* missing, whatever it is asked and however the metrics are weighted: a   *)
(* metric is a number or unknown, keys are unique, base names are triples, *)
(* limits and weights are numbers (read.rs:69-290; scoring.rs:93-116).     *)
THEOREM RankingsStayConsistent ==
    ASSUME About("registry") => RegistryIsRead
    PROVE  RankingsAreConsistent
<1>1. CASE About("registry")
    BY <1>1, FrontStandsForTheRest, ListingsAgree, RankingsFollow, ListKeepsTheFirst,
       ExportsMissNothing DEF RankingsAreConsistent
<1>2. CASE ~ About("registry")
    BY <1>2 DEF RankingsAreConsistent, FrontDominatesTheRest, DefaultPoliciesAgree,
                RankRespectsDominance, LimitKeepsTheFirst, ExportsAreComplete
<1> QED
    BY <1>1, <1>2

-----------------------------------------------------------------------------
(* The laboratory *)

Working == {"running", "storing", "committing"}

SweepRecords(s) ==
    [phase : {"idle", "classify", "prepare", "run"}, override : BOOLEAN,
     again : {s.again}, prepared : [Datasets -> Contents \cup {Absent}],
     poisoned : BOOLEAN, summary : {s.summary}, starts : {s.starts}]

(* What cell i of sweep p computes once its dataset is prepared. *)
Result(s, p, i) == s.prepared[DatasetOf(p, i)]
ResultHash(s, p, i, found) == found[Result(s, p, i)][CellsOf[p][i].config]

(* A cell that works has a prepared dataset; one that stores a result has  *)
(* a schedule and an identity, and holds the mutex exactly while its       *)
(* transaction is open.                                                    *)
CellOK(p, i, s, stage, at, holder, found) ==
    /\ stage \in Stages
    /\ at \in Contents \cup {Absent}
    /\ stage \in Working => s.phase = "run"
    /\ s.phase = "run" /\ stage \in Working \cup {"pending"} => Result(s, p, i) \in Contents
    /\ stage \in {"storing", "committing"} =>
          at \in Contents /\ ResultHash(s, p, i, found) \in Hashes
    /\ (stage = "committing") = (holder = i)

SweepOK(p, s, stages, at, holder, found) ==
    /\ s \in SweepRecords(s)
    /\ stages \in [Cells(p) -> Stages]
    /\ at \in [Cells(p) -> Contents \cup {Absent}]
    /\ holder \in Cells(p) \cup {0}
    /\ \A i \in Cells(p) : CellOK(p, i, s, stages[i], at[i], holder, found)

SweepsOK ==
    /\ sweep \in [Sweeps -> {sweep[p] : p \in Sweeps}]
    /\ cell \in [Sweeps -> {cell[p] : p \in Sweeps}]
    /\ hashed \in [Sweeps -> {hashed[p] : p \in Sweeps}]
    /\ lock \in [Sweeps -> {lock[p] : p \in Sweeps}]
    /\ stale \in [Sweeps -> BOOLEAN]
    /\ \A p \in Sweeps : SweepOK(p, sweep[p], cell[p], hashed[p], lock[p], outcome)

TablesOK ==
    /\ outcome \in [Contents -> [Configs -> Hashes \cup {NoSchedule}]]
    /\ file \in [Datasets -> Contents \cup {Missing}]
    /\ runs \in [Keys -> Rows \cup {Absent}]
    /\ schedules \in [Hashes -> Bodies \cup {Absent}]

(* The migration works on rows that are there and on bodies that are there *)
(* as it took them, or stripped.                                           *)
MigrationRecords ==
    [at : {"idle", "backfill", "strip"}, rows : SUBSET Keys, row : Keys \cup {Null},
     taken : [Hashes -> Bodies \cup {Absent}], ended : BOOLEAN]
Stripped(body) == [body EXCEPT !.embedded = Null]
MigrationOK ==
    /\ migration \in MigrationRecords
    /\ \A k \in migration.rows \cup {migration.row} : k # Null => runs[k] # Absent
    /\ \A h \in Hashes : migration.taken[h] # Absent =>
          schedules[h] \in {migration.taken[h], Stripped(migration.taken[h])}

(* The schedule that an open transaction has looked for has no body, or    *)
(* one of the same dataset, unless somebody else has committed since.      *)
NoCollision(s, p, i, at, table, found) ==
    LET body == table[ResultHash(s, p, i, found)] IN body # Absent => body.owner = at
SnapshotsOK ==
    \A p \in Sweeps : \A i \in Cells(p) :
       cell[p][i] = "committing" /\ ~ stale[p] =>
          NoCollision(sweep[p], p, i, hashed[p][i], schedules, outcome)

(* The inductive invariant. *)
LabInv == TablesOK /\ SweepsOK /\ MigrationOK /\ SnapshotsOK /\ LinkedRunsHaveOwnBody

-----------------------------------------------------------------------------
(* The dataset and the config of a cell. *)
LEMMA StageFacts ==
    ASSUME NEW p \in Sweeps, NEW i \in Cells(p)
    PROVE  /\ DatasetOf(p, i) \in Datasets /\ CellsOf[p][i].config \in Configs
           /\ i \in Nat /\ i # 0
<1>1. CellsOf[p] \in Seq([dataset : Datasets, config : Configs])
    BY LabConstants
<1>2. i \in 1 .. Len(CellsOf[p]) /\ Len(CellsOf[p]) \in Nat
    BY <1>1 DEF Cells
<1>3. CellsOf[p][i] \in [dataset : Datasets, config : Configs]
    <2>1. \A S : \A s \in Seq(S) : \A j \in 1 .. Len(s) : s[j] \in S
        OBVIOUS
    <2> QED
        BY <1>1, <1>2, <2>1
<1>4. i \in Nat /\ i # 0
    BY <1>2
<1> QED
    BY <1>3, <1>4 DEF DatasetOf

(* The invariant implies the type invariant. *)
LEMMA InvIsTyped ==
    ASSUME LabInv
    PROVE  LabTypeOK
<1>1. Absent \notin Contents
    BY AbsentIsNothing
<1>2. ASSUME NEW p \in Sweeps
      PROVE  /\ cell[p] \in [Cells(p) -> Stages]
             /\ hashed[p] \in [Cells(p) -> Contents \cup {Absent}]
             /\ lock[p] \in Cells(p) \cup {0}
             /\ \A i \in Cells(p) :
                  /\ cell[p][i] \in {"storing", "committing"} => hashed[p][i] # Absent
                  /\ (cell[p][i] = "committing") = (lock[p] = i)
    <2>1. SweepOK(p, sweep[p], cell[p], hashed[p], lock[p], outcome)
        BY DEF LabInv, SweepsOK
    <2>2. /\ cell[p] \in [Cells(p) -> Stages]
          /\ hashed[p] \in [Cells(p) -> Contents \cup {Absent}]
          /\ lock[p] \in Cells(p) \cup {0}
        BY <2>1 DEF SweepOK
    <2>3. ASSUME NEW i \in Cells(p)
          PROVE  /\ cell[p][i] \in {"storing", "committing"} => hashed[p][i] # Absent
                 /\ (cell[p][i] = "committing") = (lock[p] = i)
        <3>1. CellOK(p, i, sweep[p], cell[p][i], hashed[p][i], lock[p], outcome)
            BY <2>1 DEF SweepOK
        <3> QED
            BY <1>1, <3>1 DEF CellOK
    <2> QED
        BY <2>2, <2>3
<1> QED
    BY <1>2 DEF LabInv, TablesOK, LabTypeOK

-----------------------------------------------------------------------------
(* Initially *)

(* A registry written by an older version links runs to bodies of their    *)
(* own datasets.                                                           *)
LEMMA OldRegistryOK ==
    ASSUME LabInit
    PROVE  TablesOK /\ LinkedRunsHaveOwnBody
<1>1. /\ outcome \in [Contents -> [Configs -> Hashes \cup {NoSchedule}]]
      /\ file \in [Datasets -> Contents \cup {Missing}]
    BY InputsAreTyped DEF LabInit
<1>2. PICK K \in SUBSET Legacy, linked \in SUBSET Legacy :
          /\ linked \subseteq K
          /\ \A k \in K : outcome[k.content][k.config] # NoSchedule
          /\ OldRegistry(K, linked)
    BY DEF LabInit
<1>3. K \subseteq Keys /\ linked \subseteq K
    BY <1>2, InputsAreTyped
<1>4. \A k \in K : /\ k.content \in Contents /\ k.config \in Configs
                   /\ outcome[k.content][k.config] \in Hashes
    <2> SUFFICES ASSUME NEW k \in K
                 PROVE  /\ k.content \in Contents /\ k.config \in Configs
                        /\ outcome[k.content][k.config] \in Hashes
        OBVIOUS
    <2>1. k.content \in Contents /\ k.config \in Configs
        BY <1>3 DEF Keys
    <2>2. outcome[k.content][k.config] \in Hashes \cup {NoSchedule}
        BY <1>1, <2>1
    <2> QED
        BY <1>2, <2>1, <2>2
<1>5. runs = [k \in Keys |->
         IF k \notin K THEN Absent
         ELSE [hash |-> IF k \in linked THEN outcome[k.content][k.config] ELSE Null,
               metadata |-> Null, metrics |-> k]]
    BY <1>2 DEF OldRegistry
<1>6. PICK first \in [Hashes -> linked \cup {Absent}] :
         /\ \A h \in Hashes :
              LET same == {k \in linked : outcome[k.content][k.config] = h} IN
              /\ (first[h] = Absent) = (same = {})
              /\ first[h] # Absent => first[h] \in same
              /\ \A k \in same : k.content = first[h].content
         /\ schedules = [h \in Hashes |->
              IF first[h] = Absent THEN Absent
              ELSE [owner |-> first[h].content, raw |-> first[h].content,
                    embedded |-> first[h]]]
    BY <1>2 DEF OldRegistry
<1>7. runs \in [Keys -> Rows \cup {Absent}]
    <2>1. ASSUME NEW k \in Keys, k \in K
          PROVE  [hash |-> IF k \in linked THEN outcome[k.content][k.config] ELSE Null,
                  metadata |-> Null, metrics |-> k] \in Rows
        BY <1>4, <2>1 DEF Rows
    <2> QED
        BY <1>5, <2>1
<1>8. ASSUME NEW h \in Hashes, first[h] # Absent
      PROVE  schedules[h] \in Bodies /\ schedules[h].owner = first[h].content
    <2>1. first[h] \in linked
        BY <1>8
    <2>2. first[h] \in Keys /\ first[h].content \in Contents
        BY <1>3, <1>4, <2>1
    <2>3. schedules[h] = [owner |-> first[h].content, raw |-> first[h].content,
                          embedded |-> first[h]]
        BY <1>6, <1>8
    <2> QED
        BY <2>2, <2>3 DEF Bodies
<1>9. schedules \in [Hashes -> Bodies \cup {Absent}]
    BY <1>6, <1>8
<1>10. ASSUME NEW k \in Keys, runs[k] # Absent, runs[k].hash # Null
      PROVE  /\ schedules[runs[k].hash] # Absent
             /\ schedules[runs[k].hash].owner = k.content
    <2>1. k \in K
        BY <1>5, <1>10
    <2>2. runs[k] = [hash |-> IF k \in linked THEN outcome[k.content][k.config] ELSE Null,
                     metadata |-> Null, metrics |-> k]
        BY <1>5, <2>1
    <2>3. k \in linked /\ runs[k].hash = outcome[k.content][k.config]
        BY <1>10, <2>2
    <2> DEFINE h == outcome[k.content][k.config]
               same == {l \in linked : outcome[l.content][l.config] = h}
    <2>4. h \in Hashes /\ k \in same
        BY <1>4, <2>1, <2>3
    <2> HIDE DEF h
    <2>5. first[h] # Absent /\ k.content = first[h].content
        BY <1>6, <2>4
    <2>6. schedules[h] \in Bodies /\ schedules[h].owner = first[h].content
        BY <1>8, <2>4, <2>5
    <2> QED
        BY <2>3, <2>5, <2>6, AbsentIsNothing DEF h
<1> QED
    BY <1>1, <1>7, <1>9, <1>10 DEF TablesOK, LinkedRunsHaveOwnBody

-----------------------------------------------------------------------------
(* Frames *)

(* What a step gives a sweep; the others keep what they have. *)
Sets(p, s, stages, at, holder) ==
    /\ sweep' = [sweep EXCEPT ![p] = s]
    /\ cell' = [cell EXCEPT ![p] = stages]
    /\ hashed' = [hashed EXCEPT ![p] = at]
    /\ lock' = [lock EXCEPT ![p] = holder]

LEMMA SweepsFrame ==
    ASSUME SweepsOK, NEW p \in Sweeps, NEW s, NEW stages, NEW at, NEW holder,
           Sets(p, s, stages, at, holder), outcome' = outcome,
           stale' \in [Sweeps -> BOOLEAN],
           SweepOK(p, s, stages, at, holder, outcome)
    PROVE  /\ SweepsOK'
           /\ sweep'[p] = s /\ cell'[p] = stages /\ hashed'[p] = at /\ lock'[p] = holder
           /\ \A q \in Sweeps \ {p} : /\ sweep'[q] = sweep[q] /\ cell'[q] = cell[q]
                                      /\ hashed'[q] = hashed[q]
<1>1. /\ DOMAIN sweep = Sweeps /\ DOMAIN cell = Sweeps /\ DOMAIN hashed = Sweeps
      /\ DOMAIN lock = Sweeps
    BY DEF SweepsOK
<1>2. /\ sweep' \in [Sweeps -> {sweep'[q] : q \in Sweeps}]
      /\ cell' \in [Sweeps -> {cell'[q] : q \in Sweeps}]
      /\ hashed' \in [Sweeps -> {hashed'[q] : q \in Sweeps}]
      /\ lock' \in [Sweeps -> {lock'[q] : q \in Sweeps}]
    BY <1>1 DEF Sets
<1>3. sweep'[p] = s /\ cell'[p] = stages /\ hashed'[p] = at /\ lock'[p] = holder
    BY <1>1 DEF Sets
<1>4. \A q \in Sweeps \ {p} : /\ sweep'[q] = sweep[q] /\ cell'[q] = cell[q]
                              /\ hashed'[q] = hashed[q] /\ lock'[q] = lock[q]
    BY <1>1 DEF Sets
<1>5. \A q \in Sweeps : SweepOK(q, sweep'[q], cell'[q], hashed'[q], lock'[q], outcome')
    BY <1>3, <1>4 DEF SweepsOK
<1> QED
    BY <1>2, <1>3, <1>4, <1>5 DEF SweepsOK

(* What a sweep has in hand before a step. *)
LEMMA SweepFacts ==
    ASSUME SweepsOK, NEW p \in Sweeps
    PROVE  /\ sweep = [sweep EXCEPT ![p] = sweep[p]]
           /\ cell = [cell EXCEPT ![p] = cell[p]]
           /\ hashed = [hashed EXCEPT ![p] = hashed[p]]
           /\ lock = [lock EXCEPT ![p] = lock[p]]
           /\ stale \in [Sweeps -> BOOLEAN]
           /\ SweepOK(p, sweep[p], cell[p], hashed[p], lock[p], outcome)
    BY DEF SweepsOK

LEMMA CellsFacts ==
    ASSUME SweepsOK, NEW p \in Sweeps, NEW i \in Cells(p)
    PROVE  /\ CellOK(p, i, sweep[p], cell[p][i], hashed[p][i], lock[p], outcome)
           /\ cell[p] = [cell[p] EXCEPT ![i] = cell[p][i]]
           /\ hashed[p] = [hashed[p] EXCEPT ![i] = hashed[p][i]]
           /\ lock[p] \in Cells(p) \cup {0}
           /\ sweep[p] \in SweepRecords(sweep[p])
    BY SweepFacts DEF SweepOK

(* A step of a sweep that leaves the tables and the migration alone, and   *)
(* brings no open transaction but one that has looked.                     *)
LEMMA SweepKeeps ==
    ASSUME LabInv, NEW p \in Sweeps, NEW s, NEW stages, NEW at, NEW holder,
           Sets(p, s, stages, at, holder), SweepOK(p, s, stages, at, holder, outcome),
           outcome' = outcome, file' = file, runs' = runs, schedules' = schedules,
           migration' = migration, stale' \in [Sweeps -> BOOLEAN],
           \A q \in Sweeps \ {p} : stale'[q] = stale[q],
           \A i \in Cells(p) : stages[i] = "committing" /\ ~ stale'[p] =>
              NoCollision(s, p, i, at[i], schedules, outcome)
    PROVE  LabInv'
<1>1. /\ SweepsOK'
      /\ sweep'[p] = s /\ cell'[p] = stages /\ hashed'[p] = at
      /\ \A q \in Sweeps \ {p} : /\ sweep'[q] = sweep[q] /\ cell'[q] = cell[q]
                                 /\ hashed'[q] = hashed[q]
    BY SweepsFrame DEF LabInv
<1>2. TablesOK' /\ LinkedRunsHaveOwnBody'
    BY DEF LabInv, TablesOK, LinkedRunsHaveOwnBody
<1>3. MigrationOK'
    BY DEF LabInv, MigrationOK
<1>4. ASSUME NEW q \in Sweeps, NEW i \in Cells(q), cell'[q][i] = "committing", ~ stale'[q]
      PROVE  NoCollision(sweep'[q], q, i, hashed'[q][i], schedules, outcome)
    <2>1. CASE q = p
        BY <1>1, <1>4, <2>1
    <2>2. CASE q # p
        BY <1>1, <1>4, <2>2 DEF LabInv, SnapshotsOK
    <2> QED
        BY <2>1, <2>2
<1>5. SnapshotsOK'
    BY <1>4 DEF SnapshotsOK
<1> QED
    BY <1>1, <1>2, <1>3, <1>5 DEF LabInv

(* A step of one cell: another cell neither takes nor loses the mutex. *)
LEMMA CellFrame ==
    ASSUME SweepsOK, NEW p \in Sweeps, NEW i \in Cells(p), NEW s, NEW stage, NEW c, NEW holder,
           s \in SweepRecords(s), s.phase = sweep[p].phase, s.prepared = sweep[p].prepared,
           CellOK(p, i, s, stage, c, holder, outcome), holder \in Cells(p) \cup {0},
           \A j \in Cells(p) \ {i} : (lock[p] = j) = (holder = j)
    PROVE  SweepOK(p, s, [cell[p] EXCEPT ![i] = stage], [hashed[p] EXCEPT ![i] = c],
                   holder, outcome)
<1> DEFINE stages == [cell[p] EXCEPT ![i] = stage]
           at == [hashed[p] EXCEPT ![i] = c]
<1>1. /\ cell[p] \in [Cells(p) -> Stages]
      /\ hashed[p] \in [Cells(p) -> Contents \cup {Absent}]
    BY SweepFacts DEF SweepOK
<1>2. stage \in Stages /\ c \in Contents \cup {Absent}
    BY DEF CellOK
<1>3. /\ stages \in [Cells(p) -> Stages] /\ stages[i] = stage
      /\ at \in [Cells(p) -> Contents \cup {Absent}] /\ at[i] = c
      /\ \A j \in Cells(p) \ {i} : stages[j] = cell[p][j] /\ at[j] = hashed[p][j]
    BY <1>1, <1>2
<1> HIDE DEF stages, at
<1>4. ASSUME NEW j \in Cells(p)
      PROVE  CellOK(p, j, s, stages[j], at[j], holder, outcome)
    <2>1. CASE j = i
        BY <1>3, <2>1
    <2>2. CASE j # i
        <3>1. CellOK(p, j, sweep[p], cell[p][j], hashed[p][j], lock[p], outcome)
            BY CellsFacts
        <3>2. stages[j] = cell[p][j] /\ at[j] = hashed[p][j] /\ (lock[p] = j) = (holder = j)
            BY <1>3, <2>2
        <3> QED
            BY <3>1, <3>2 DEF CellOK, Result, ResultHash
    <2> QED
        BY <2>1, <2>2
<1>5. SweepOK(p, s, stages, at, holder, outcome)
    BY <1>3, <1>4 DEF SweepOK
<1> QED
    BY <1>5 DEF stages, at

LEMMA CellKeeps ==
    ASSUME LabInv, NEW p \in Sweeps, NEW i \in Cells(p), NEW s, NEW stage, NEW c, NEW holder,
           Sets(p, s, [cell[p] EXCEPT ![i] = stage], [hashed[p] EXCEPT ![i] = c], holder),
           s \in SweepRecords(s), s.phase = sweep[p].phase, s.prepared = sweep[p].prepared,
           CellOK(p, i, s, stage, c, holder, outcome), holder \in Cells(p) \cup {0},
           \A j \in Cells(p) \ {i} : (lock[p] = j) = (holder = j),
           outcome' = outcome, file' = file, runs' = runs, schedules' = schedules,
           migration' = migration, stale' \in [Sweeps -> BOOLEAN],
           \A q \in Sweeps \ {p} : stale'[q] = stale[q],
           stale'[p] = stale[p] \/ holder = i,
           stage = "committing" => NoCollision(s, p, i, c, schedules, outcome)
    PROVE  LabInv'
<1> DEFINE stages == [cell[p] EXCEPT ![i] = stage]
           at == [hashed[p] EXCEPT ![i] = c]
<1>1. SweepsOK /\ SnapshotsOK
    BY DEF LabInv
<1>2. Sets(p, s, stages, at, holder)
    OBVIOUS
<1>3. SweepOK(p, s, stages, at, holder, outcome)
    BY <1>1, CellFrame
<1>4. /\ stages[i] = stage /\ at[i] = c
      /\ \A j \in Cells(p) \ {i} : stages[j] = cell[p][j] /\ at[j] = hashed[p][j]
    BY <1>1, SweepFacts DEF SweepOK
<1> HIDE DEF stages, at
<1>5. ASSUME NEW j \in Cells(p), stages[j] = "committing", ~ stale'[p]
      PROVE  NoCollision(s, p, j, at[j], schedules, outcome)
    <2>1. CASE j = i
        BY <1>4, <1>5, <2>1
    <2>2. CASE j # i
        <3>1. stages[j] = cell[p][j] /\ at[j] = hashed[p][j]
            BY <1>4, <2>2
        <3>2. holder = j
            BY <1>3, <1>5 DEF SweepOK, CellOK
        <3>3. ~ stale[p]
            BY <1>5, <2>2, <3>2
        <3>4. NoCollision(sweep[p], p, j, hashed[p][j], schedules, outcome)
            BY <1>1, <1>5, <3>1, <3>3 DEF SnapshotsOK
        <3> QED
            BY <3>1, <3>4 DEF NoCollision, ResultHash, Result
    <2> QED
        BY <2>1, <2>2
<1> QED
    BY <1>2, <1>3, <1>5, SweepKeeps

-----------------------------------------------------------------------------
(* Steps of execute *)

(* Before and after its cells work, a sweep has no transaction open. *)
LEMMA NoCellWorks ==
    ASSUME SweepsOK, NEW p \in Sweeps, sweep[p].phase # "run"
    PROVE  /\ \A i \in Cells(p) : cell[p][i] \notin Working /\ cell[p][i] \in Stages
           /\ lock[p] = 0
<1>1. \A i \in Cells(p) : CellOK(p, i, sweep[p], cell[p][i], hashed[p][i], lock[p], outcome)
    BY CellsFacts
<1>2. lock[p] \in Cells(p) \cup {0}
    BY SweepFacts DEF SweepOK
<1> QED
    BY <1>1, <1>2 DEF CellOK, Working

LEMMA StartKeeps ==
    ASSUME LabInv, NEW p \in Sweeps, NEW o \in BOOLEAN, Start(p, o)
    PROVE  LabInv'
<1> DEFINE s == [NotStarted EXCEPT !.phase = "classify", !.override = o,
                                   !.starts = sweep[p].starts + 1]
           stages == [i \in Cells(p) |-> "unseen"]
           at == [i \in Cells(p) |-> Absent]
<1>1. SweepsOK /\ sweep[p].phase = "idle"
    BY DEF LabInv, Start, Phase
<1>2. Sets(p, s, stages, at, lock[p]) /\ stale' = stale
    BY <1>1, SweepFacts DEF Start, Sets
<1>3. SweepOK(p, s, stages, at, lock[p], outcome)
    <2>1. s \in SweepRecords(s) /\ s.phase = "classify"
        BY DEF SweepRecords, NotStarted
    <2>2. lock[p] = 0 /\ \A i \in Cells(p) : lock[p] # i
        BY <1>1, NoCellWorks, StageFacts
    <2> HIDE DEF s
    <2> QED
        BY <2>1, <2>2 DEF SweepOK, CellOK, Stages, Working
<1>4. \A i \in Cells(p) : stages[i] # "committing"
    OBVIOUS
<1>5. /\ outcome' = outcome /\ file' = file /\ runs' = runs /\ schedules' = schedules
      /\ migration' = migration
    BY DEF Start, outside, tables
<1> HIDE DEF s, stages, at
<1> QED
    BY <1>1, <1>2, <1>3, <1>4, <1>5, SweepFacts, SweepKeeps

(* A step that only changes the record of a sweep whose cells do not work. *)
LEMMA RecordKeeps ==
    ASSUME LabInv, NEW p \in Sweeps, NEW s,
           sweep' = [sweep EXCEPT ![p] = s], s \in SweepRecords(s),
           UNCHANGED <<cell, hashed, lock, stale, tables, outside>>,
           \A i \in Cells(p) : cell[p][i] \notin Working,
           s.phase = "run" =>
              \A i \in Cells(p) : cell[p][i] = "pending" => Result(s, p, i) \in Contents
    PROVE  LabInv'
<1>1. SweepsOK
    BY DEF LabInv
<1>2. Sets(p, s, cell[p], hashed[p], lock[p]) /\ stale' = stale
    BY <1>1, SweepFacts DEF Sets
<1>3. SweepOK(p, s, cell[p], hashed[p], lock[p], outcome)
    <2>1. SweepOK(p, sweep[p], cell[p], hashed[p], lock[p], outcome)
        BY <1>1, SweepFacts
    <2>2. ASSUME NEW i \in Cells(p)
          PROVE  CellOK(p, i, s, cell[p][i], hashed[p][i], lock[p], outcome)
        <3>1. CellOK(p, i, sweep[p], cell[p][i], hashed[p][i], lock[p], outcome)
            BY <1>1, CellsFacts
        <3>2. cell[p][i] \notin Working
            OBVIOUS
        <3> QED
            BY <3>1, <3>2 DEF CellOK, Working
    <2> QED
        BY <2>1, <2>2 DEF SweepOK
<1>4. \A i \in Cells(p) : cell[p][i] # "committing"
    BY DEF Working
<1>5. /\ outcome' = outcome /\ file' = file /\ runs' = runs /\ schedules' = schedules
      /\ migration' = migration
    BY DEF outside, tables
<1> QED
    BY <1>1, <1>2, <1>3, <1>4, <1>5, SweepFacts, SweepKeeps

LEMMA ClassifyKeeps ==
    ASSUME LabInv, NEW p \in Sweeps, Classify(p)
    PROVE  LabInv'
<1>1. PICK i \in Cells(p) :
         /\ hashed' = [hashed EXCEPT ![p][i] =
                          IF file[DatasetOf(p, i)] = Missing THEN Absent ELSE file[DatasetOf(p, i)]]
         /\ Move(p, i, IF Hit(p, i) /\ ~ sweep[p].override THEN "skipped" ELSE "pending")
         /\ sweep' = IF Hit(p, i) /\ sweep[p].override
                       THEN [sweep EXCEPT ![p].again = @ \cup {i}] ELSE sweep
    BY DEF Classify, First, With
<1> DEFINE c == IF file[DatasetOf(p, i)] = Missing THEN Absent ELSE file[DatasetOf(p, i)]
           stage == IF Hit(p, i) /\ ~ sweep[p].override THEN "skipped" ELSE "pending"
           s == IF Hit(p, i) /\ sweep[p].override
                  THEN [sweep[p] EXCEPT !.again = @ \cup {i}] ELSE sweep[p]
<1>2. SweepsOK /\ sweep[p].phase = "classify" /\ TablesOK
    BY DEF LabInv, Classify, Phase
<1>3. c \in Contents \cup {Absent} /\ stage \in {"skipped", "pending"}
    BY <1>2, StageFacts DEF TablesOK
<1>4. s \in SweepRecords(s) /\ s.phase = sweep[p].phase /\ s.prepared = sweep[p].prepared
    <2>1. sweep[p] \in SweepRecords(sweep[p])
        BY <1>2, CellsFacts
    <2>2. CASE Hit(p, i) /\ sweep[p].override
        BY <2>1, <2>2 DEF SweepRecords
    <2>3. CASE ~ (Hit(p, i) /\ sweep[p].override)
        BY <2>1, <2>3
    <2> QED
        BY <2>2, <2>3
<1>5. sweep' = [sweep EXCEPT ![p] = s]
    <2>1. CASE Hit(p, i) /\ sweep[p].override
        BY <1>1, <2>1
    <2>2. CASE ~ (Hit(p, i) /\ sweep[p].override)
        BY <1>1, <1>2, <2>2, SweepFacts
    <2> QED
        BY <2>1, <2>2
<1>6. Sets(p, s, [cell[p] EXCEPT ![i] = stage], [hashed[p] EXCEPT ![i] = c], lock[p])
    <2>1. lock' = lock
        BY DEF Classify
    <2> HIDE DEF s
    <2> QED
        BY <1>1, <1>2, <1>5, <2>1, SweepFacts DEF Sets, Move
<1>7. lock[p] = 0 /\ i # 0 /\ stale' = stale /\ lock[p] \in Cells(p) \cup {0}
    BY <1>2, NoCellWorks, StageFacts DEF Classify
<1> HIDE DEF s, c, stage
<1>8. CellOK(p, i, s, stage, c, lock[p], outcome)
    BY <1>2, <1>3, <1>4, <1>7 DEF CellOK, Stages, Working
<1>9. /\ outcome' = outcome /\ file' = file /\ runs' = runs /\ schedules' = schedules
      /\ migration' = migration /\ stage # "committing" /\ stale \in [Sweeps -> BOOLEAN]
    BY <1>2, <1>3, SweepFacts DEF Classify, outside, tables
<1> QED
    BY <1>4, <1>6, <1>7, <1>8, <1>9, CellKeeps

LEMMA LookupFailsKeeps ==
    ASSUME LabInv, NEW p \in Sweeps, LookupFails(p)
    PROVE  LabInv'
<1>1. PICK i \in Cells(p) : Move(p, i, "pending")
    BY DEF LookupFails, First, With
<1>2. SweepsOK /\ sweep[p].phase = "classify"
    BY DEF LabInv, LookupFails, Phase
<1>3. Sets(p, sweep[p], [cell[p] EXCEPT ![i] = "pending"],
           [hashed[p] EXCEPT ![i] = hashed[p][i]], lock[p])
    BY <1>1, <1>2, SweepFacts, CellsFacts DEF LookupFails, Sets, Move
<1>4. /\ lock[p] = 0 /\ i # 0 /\ stale' = stale /\ lock[p] \in Cells(p) \cup {0}
      /\ hashed[p][i] \in Contents \cup {Absent} /\ sweep[p] \in SweepRecords(sweep[p])
    <2>1. CellOK(p, i, sweep[p], cell[p][i], hashed[p][i], lock[p], outcome)
        BY <1>2, CellsFacts
    <2>2. hashed[p][i] \in Contents \cup {Absent}
        BY <2>1 DEF CellOK
    <2> QED
        BY <1>2, <2>2, NoCellWorks, StageFacts, CellsFacts DEF LookupFails
<1>5. CellOK(p, i, sweep[p], "pending", hashed[p][i], lock[p], outcome)
    BY <1>2, <1>4 DEF CellOK, Stages, Working
<1>6. /\ outcome' = outcome /\ file' = file /\ runs' = runs /\ schedules' = schedules
      /\ migration' = migration /\ stale \in [Sweeps -> BOOLEAN]
    BY <1>2, SweepFacts DEF LookupFails, tables
<1> QED
    BY <1>3, <1>4, <1>5, <1>6, CellKeeps

(* What Prepared finds prepared is what its cells compute from. *)
LEMMA RecordStepsKeep ==
    ASSUME LabInv, NEW p \in Sweeps, Classified(p) \/ Prepare(p) \/ Prepared(p) \/ Return(p)
    PROVE  LabInv'
<1>1. SweepsOK /\ TablesOK /\ sweep[p] \in SweepRecords(sweep[p])
    BY SweepFacts DEF LabInv, SweepOK
<1>2. CASE Classified(p)
    <2> DEFINE s == [sweep[p] EXCEPT !.phase = "prepare"]
    <2>1. sweep[p].phase # "run" /\ sweep' = [sweep EXCEPT ![p] = s]
          /\ UNCHANGED <<cell, hashed, lock, stale, tables, outside>>
        BY <1>2 DEF Classified, Phase, Goto
    <2>2. s \in SweepRecords(s) /\ s.phase # "run"
        BY <1>1 DEF SweepRecords
    <2> HIDE DEF s
    <2> QED
        BY <1>1, <2>1, <2>2, NoCellWorks, RecordKeeps
<1>3. CASE Prepare(p)
    <2>1. PICK i \in Cells(p) :
            IF CanPrepare(file[DatasetOf(p, i)])
              THEN sweep' = [sweep EXCEPT ![p].prepared[DatasetOf(p, i)] = file[DatasetOf(p, i)]]
              ELSE Goto(p, "idle")
        BY <1>3 DEF Prepare, First, Unprepared, With
    <2> DEFINE d == DatasetOf(p, i)
               s == IF CanPrepare(file[d]) THEN [sweep[p] EXCEPT !.prepared[d] = file[d]]
                                           ELSE [sweep[p] EXCEPT !.phase = "idle"]
    <2>2. d \in Datasets /\ (CanPrepare(file[d]) => file[d] \in Contents)
        BY <1>1, StageFacts DEF TablesOK, CanPrepare
    <2>3. sweep[p].phase = "prepare" /\ sweep' = [sweep EXCEPT ![p] = s]
          /\ UNCHANGED <<cell, hashed, lock, stale, tables, outside>>
        BY <1>3, <2>1 DEF Prepare, Phase, Goto
    <2> HIDE DEF d
    <2>4. s \in SweepRecords(s) /\ s.phase # "run"
        <3>1. CASE CanPrepare(file[d])
            BY <1>1, <2>2, <2>3, <3>1 DEF SweepRecords
        <3>2. CASE ~ CanPrepare(file[d])
            BY <1>1, <3>2 DEF SweepRecords
        <3> QED
            BY <3>1, <3>2
    <2> HIDE DEF s
    <2> QED
        BY <1>1, <2>3, <2>4, NoCellWorks, RecordKeeps
<1>4. CASE Prepared(p)
    <2> DEFINE s == [sweep[p] EXCEPT !.phase = "run"]
    <2>1. sweep[p].phase # "run" /\ sweep' = [sweep EXCEPT ![p] = s] /\ Unprepared(p) = {}
          /\ UNCHANGED <<cell, hashed, lock, stale, tables, outside>>
        BY <1>4 DEF Prepared, Phase, Goto
    <2>2. s \in SweepRecords(s) /\ s.prepared = sweep[p].prepared
        BY <1>1 DEF SweepRecords
    <2>3. ASSUME NEW i \in Cells(p), cell[p][i] = "pending"
          PROVE  Result(s, p, i) \in Contents
        <3>1. sweep[p].prepared[DatasetOf(p, i)] # Absent
            BY <2>1, <2>3 DEF Unprepared, With
        <3>2. sweep[p].prepared[DatasetOf(p, i)] \in Contents \cup {Absent}
            BY <1>1, StageFacts DEF SweepRecords
        <3> QED
            BY <2>2, <3>1, <3>2 DEF Result
    <2> HIDE DEF s
    <2> QED
        BY <1>1, <2>1, <2>2, <2>3, NoCellWorks, RecordKeeps
<1>5. CASE Return(p)
    <2> DEFINE s == [sweep[p] EXCEPT !.phase = "idle", !.summary =
                        IF With(p, "panicked") # {} THEN Null ELSE Summary(p)]
    <2>1. sweep' = [sweep EXCEPT ![p] = s] /\ AllEnded(p)
          /\ UNCHANGED <<cell, hashed, lock, stale, tables, outside>>
        BY <1>5 DEF Return
    <2>2. s \in SweepRecords(s) /\ s.phase # "run"
        BY <1>1 DEF SweepRecords
    <2>3. \A i \in Cells(p) : cell[p][i] \notin Working
        BY <2>1 DEF AllEnded, Ended, Working
    <2> HIDE DEF s
    <2> QED
        BY <2>1, <2>2, <2>3, RecordKeeps
<1> QED
    BY <1>2, <1>3, <1>4, <1>5

(* A killed sweep leaves no transaction open. *)
LEMMA KillKeeps ==
    ASSUME LabInv, NEW p \in Sweeps, Kill(p)
    PROVE  LabInv'
<1> DEFINE s == [sweep[p] EXCEPT !.phase = "idle"]
           stages == [i \in Cells(p) |-> IF cell[p][i] \in Ended THEN cell[p][i] ELSE "failed"]
<1>1. SweepsOK /\ sweep[p] \in SweepRecords(sweep[p])
    BY SweepFacts DEF LabInv, SweepOK
<1>2. Sets(p, s, stages, hashed[p], 0) /\ stale' = stale
    BY <1>1, SweepFacts DEF Kill, Goto, Release, Sets
<1>3. s \in SweepRecords(s) /\ s.phase = "idle"
    BY <1>1 DEF SweepRecords
<1>4. /\ stages \in [Cells(p) -> Ended]
      /\ hashed[p] \in [Cells(p) -> Contents \cup {Absent}]
    BY <1>1, SweepFacts DEF SweepOK, Ended
<1> HIDE DEF s, stages
<1>5. SweepOK(p, s, stages, hashed[p], 0, outcome)
    <2>1. ASSUME NEW i \in Cells(p)
          PROVE  CellOK(p, i, s, stages[i], hashed[p][i], 0, outcome)
        <3>1. stages[i] \in Ended /\ hashed[p][i] \in Contents \cup {Absent} /\ i # 0
            BY <1>4, StageFacts
        <3> QED
            BY <1>3, <3>1 DEF CellOK, Working, Ended, Stages
    <2> QED
        BY <1>3, <1>4, <2>1 DEF SweepOK, Ended, Stages
<1>6. \A i \in Cells(p) : stages[i] # "committing"
    BY <1>4 DEF Ended
<1>7. /\ outcome' = outcome /\ file' = file /\ runs' = runs /\ schedules' = schedules
      /\ migration' = migration /\ stale \in [Sweeps -> BOOLEAN]
    BY <1>1, SweepFacts DEF Kill, tables
<1> QED
    BY <1>2, <1>5, <1>6, <1>7, SweepKeeps

-----------------------------------------------------------------------------
(* Steps of a cell *)

(* A cell moves on, and what it has hashed stays. *)
LEMMA MoveSets ==
    ASSUME SweepsOK, NEW p \in Sweeps, NEW i \in Cells(p), NEW stage, Move(p, i, stage),
           NEW s, sweep' = [sweep EXCEPT ![p] = s], hashed' = hashed,
           NEW holder, lock' = [lock EXCEPT ![p] = holder]
    PROVE  Sets(p, s, [cell[p] EXCEPT ![i] = stage],
                [hashed[p] EXCEPT ![i] = hashed[p][i]], holder)
<1>1. cell' = [cell EXCEPT ![p] = [cell[p] EXCEPT ![i] = stage]]
    BY DEF Move
<1>2. hashed = [hashed EXCEPT ![p] = hashed[p]]
    BY SweepFacts
<1>3. hashed[p] = [hashed[p] EXCEPT ![i] = hashed[p][i]]
    BY CellsFacts
<1>4. hashed' = [hashed EXCEPT ![p] = [hashed[p] EXCEPT ![i] = hashed[p][i]]]
    BY <1>2, <1>3
<1> QED
    BY <1>1, <1>4 DEF Sets

(* A cell that ends gives back the mutex if it holds it. *)
LEMMA EndKeeps ==
    ASSUME LabInv, NEW p \in Sweeps, NEW i \in Cells(p), NEW s,
           s \in SweepRecords(s), s.phase = sweep[p].phase, s.prepared = sweep[p].prepared,
           sweep' = [sweep EXCEPT ![p] = s],
           NEW stage \in {"done", "failed", "panicked"}, Move(p, i, stage),
           lock' = [lock EXCEPT ![p] = IF lock[p] = i THEN 0 ELSE lock[p]],
           UNCHANGED <<tables, hashed, stale, outcome, file, migration>>
    PROVE  LabInv'
<1> DEFINE holder == IF lock[p] = i THEN 0 ELSE lock[p]
<1>1. SweepsOK
    BY DEF LabInv
<1>2. Sets(p, s, [cell[p] EXCEPT ![i] = stage], [hashed[p] EXCEPT ![i] = hashed[p][i]], holder)
    BY <1>1, MoveSets
<1>3. CellOK(p, i, sweep[p], cell[p][i], hashed[p][i], lock[p], outcome)
    BY <1>1, CellsFacts
<1>4. /\ i # 0 /\ lock[p] \in Cells(p) \cup {0} /\ stale \in [Sweeps -> BOOLEAN]
      /\ \A j \in Cells(p) : j # 0
    BY <1>1, CellsFacts, StageFacts, SweepFacts
<1>5. /\ holder \in Cells(p) \cup {0} /\ holder # i
      /\ \A j \in Cells(p) \ {i} : (lock[p] = j) = (holder = j)
    BY <1>4
<1> HIDE DEF holder
<1>6. CellOK(p, i, s, stage, hashed[p][i], holder, outcome)
    BY <1>3, <1>5 DEF CellOK, Stages, Working
<1>7. /\ outcome' = outcome /\ file' = file /\ runs' = runs /\ schedules' = schedules
      /\ migration' = migration /\ stale' = stale
    BY DEF tables
<1> QED
    BY <1>2, <1>4, <1>5, <1>6, <1>7, CellKeeps

(* What a cell that works computes. *)
LEMMA ResultFacts ==
    ASSUME LabInv, NEW p \in Sweeps, NEW i \in Cells(p), cell[p][i] \in Working
    PROVE  /\ sweep[p].phase = "run" /\ Result(sweep[p], p, i) \in Contents
           /\ HashOf(p, i) = ResultHash(sweep[p], p, i, outcome)
           /\ HashOf(p, i) \in Hashes \cup {NoSchedule}
           /\ ResultOf(p, i) \in Keys
           /\ ResultOf(p, i).content = Result(sweep[p], p, i)
           /\ ResultOf(p, i).dataset = DatasetOf(p, i)
           /\ hashed[p][i] \in Contents \cup {Absent}
           /\ cell[p][i] \in {"storing", "committing"} =>
                 hashed[p][i] \in Contents /\ HashOf(p, i) \in Hashes
<1>1. CellOK(p, i, sweep[p], cell[p][i], hashed[p][i], lock[p], outcome)
    BY CellsFacts DEF LabInv
<1>2. sweep[p].phase = "run" /\ Result(sweep[p], p, i) \in Contents
    BY <1>1 DEF CellOK
<1>3. /\ ResultOf(p, i).content = Result(sweep[p], p, i)
      /\ ResultOf(p, i).config = CellsOf[p][i].config
      /\ ResultOf(p, i).dataset = DatasetOf(p, i)
    BY DEF ResultOf, Run, Result
<1>4. HashOf(p, i) = ResultHash(sweep[p], p, i, outcome)
    BY <1>3 DEF HashOf, ResultHash
<1>5. HashOf(p, i) \in Hashes \cup {NoSchedule}
    BY <1>2, <1>4, StageFacts DEF ResultHash, LabInv, TablesOK
<1>6. ResultOf(p, i) \in Keys
    BY <1>2, StageFacts DEF ResultOf, Run, Result, Keys
<1>7. cell[p][i] \in {"storing", "committing"} =>
         hashed[p][i] \in Contents /\ HashOf(p, i) \in Hashes
    BY <1>1, <1>4 DEF CellOK
<1>8. hashed[p][i] \in Contents \cup {Absent}
    BY <1>1 DEF CellOK
<1> QED
    BY <1>2, <1>3, <1>4, <1>5, <1>6, <1>7, <1>8

LEMMA BeginCellKeeps ==
    ASSUME LabInv, NEW p \in Sweeps, NEW i \in Cells(p), BeginCell(p, i)
    PROVE  LabInv'
<1>1. SweepsOK
    BY DEF LabInv
<1>2. Sets(p, sweep[p], [cell[p] EXCEPT ![i] = "running"],
           [hashed[p] EXCEPT ![i] = hashed[p][i]], lock[p])
    <2>1. sweep = [sweep EXCEPT ![p] = sweep[p]] /\ lock = [lock EXCEPT ![p] = lock[p]]
        BY <1>1, SweepFacts
    <2>2. Move(p, i, "running") /\ sweep' = sweep /\ lock' = lock /\ hashed' = hashed
        BY DEF BeginCell
    <2> QED
        BY <1>1, <2>1, <2>2, MoveSets
<1>3. CellOK(p, i, sweep[p], cell[p][i], hashed[p][i], lock[p], outcome)
    BY <1>1, CellsFacts
<1>4. CellOK(p, i, sweep[p], "running", hashed[p][i], lock[p], outcome)
    BY <1>3 DEF BeginCell, Phase, CellOK, Stages, Working
<1>5. /\ sweep[p] \in SweepRecords(sweep[p]) /\ lock[p] \in Cells(p) \cup {0}
      /\ stale \in [Sweeps -> BOOLEAN]
    BY <1>1, CellsFacts, SweepFacts
<1>6. /\ outcome' = outcome /\ file' = file /\ runs' = runs /\ schedules' = schedules
      /\ migration' = migration /\ stale' = stale
    BY DEF BeginCell, tables, outside
<1> QED
    BY <1>2, <1>4, <1>5, <1>6, CellKeeps

LEMMA IdentifyKeeps ==
    ASSUME LabInv, NEW p \in Sweeps, NEW i \in Cells(p), Identify(p, i)
    PROVE  LabInv'
<1> DEFINE at == file[DatasetOf(p, i)]
<1>1. /\ SweepsOK /\ cell[p][i] = "running"
      /\ sweep' = sweep /\ lock' = lock /\ stale' = stale
      /\ outcome' = outcome /\ file' = file /\ runs' = runs /\ schedules' = schedules
      /\ migration' = migration
    BY DEF LabInv, Identify, tables, outside
<1>2. CellOK(p, i, sweep[p], cell[p][i], hashed[p][i], lock[p], outcome)
    BY <1>1, CellsFacts
<1>3. lock[p] # i
    BY <1>1, <1>2 DEF CellOK
<1>4. /\ sweep[p] \in SweepRecords(sweep[p]) /\ lock[p] \in Cells(p) \cup {0}
      /\ stale \in [Sweeps -> BOOLEAN]
    BY <1>1, CellsFacts, SweepFacts
<1>5. CASE HashOf(p, i) = NoSchedule \/ at = Missing
    <2>1. Move(p, i, "failed") /\ hashed' = hashed
        BY <1>5 DEF Identify
    <2>2. sweep' = [sweep EXCEPT ![p] = sweep[p]]
          /\ lock' = [lock EXCEPT ![p] = IF lock[p] = i THEN 0 ELSE lock[p]]
        BY <1>1, <1>3, SweepFacts
    <2>3. UNCHANGED <<tables, hashed, stale, outcome, file, migration>>
        BY <1>1, <2>1 DEF tables
    <2> QED
        BY <1>4, <2>1, <2>2, <2>3, EndKeeps
<1>6. CASE ~ (HashOf(p, i) = NoSchedule \/ at = Missing)
    <2>1. Move(p, i, "storing") /\ hashed' = [hashed EXCEPT ![p][i] = at]
        BY <1>6 DEF Identify
    <2>2. Sets(p, sweep[p], [cell[p] EXCEPT ![i] = "storing"],
               [hashed[p] EXCEPT ![i] = at], lock[p])
        BY <1>1, <2>1, SweepFacts DEF Sets, Move
    <2>3. at \in Contents
        BY <1>6, StageFacts DEF LabInv, TablesOK
    <2>4. /\ sweep[p].phase = "run" /\ Result(sweep[p], p, i) \in Contents
          /\ ResultHash(sweep[p], p, i, outcome) \in Hashes
        BY <1>1, <1>6, ResultFacts DEF Working
    <2> HIDE DEF at
    <2>5. CellOK(p, i, sweep[p], "storing", at, lock[p], outcome)
        BY <1>3, <2>3, <2>4 DEF CellOK, Stages, Working
    <2> QED
        BY <1>1, <1>4, <2>2, <2>5, CellKeeps
<1> QED
    BY <1>5, <1>6

LEMMA LookupKeeps ==
    ASSUME LabInv, NEW p \in Sweeps, NEW i \in Cells(p), Lookup(p, i)
    PROVE  LabInv'
<1>1. /\ SweepsOK /\ cell[p][i] = "storing" /\ lock[p] = 0
      /\ sweep' = sweep /\ hashed' = hashed
      /\ outcome' = outcome /\ file' = file /\ runs' = runs /\ schedules' = schedules
      /\ migration' = migration
    BY DEF LabInv, Lookup, tables, outside
<1>2. /\ sweep[p] \in SweepRecords(sweep[p]) /\ stale \in [Sweeps -> BOOLEAN]
      /\ \A j \in Cells(p) : j # 0
    BY <1>1, CellsFacts, StageFacts, SweepFacts
<1>3. CASE \E stage \in {"done", "failed"} : Move(p, i, stage) /\ UNCHANGED <<lock, stale>>
    <2>1. PICK stage \in {"done", "failed"} : Move(p, i, stage) /\ UNCHANGED <<lock, stale>>
        BY <1>3
    <2>2. sweep' = [sweep EXCEPT ![p] = sweep[p]]
          /\ lock' = [lock EXCEPT ![p] = IF lock[p] = i THEN 0 ELSE lock[p]]
        BY <1>1, <2>1, SweepFacts
    <2>3. UNCHANGED <<tables, hashed, stale, outcome, file, migration>>
        BY <1>1, <2>1 DEF tables
    <2> QED
        BY <1>2, <2>1, <2>2, <2>3, EndKeeps
<1>4. CASE /\ ~ Collides(p, i) /\ Move(p, i, "committing")
           /\ lock' = [lock EXCEPT ![p] = i] /\ stale' = [stale EXCEPT ![p] = FALSE]
    <2>1. Sets(p, sweep[p], [cell[p] EXCEPT ![i] = "committing"],
               [hashed[p] EXCEPT ![i] = hashed[p][i]], i)
        <3>1. sweep' = [sweep EXCEPT ![p] = sweep[p]]
            BY <1>1, SweepFacts
        <3> QED
            BY <1>1, <1>4, <3>1, MoveSets
    <2>2. /\ sweep[p].phase = "run" /\ Result(sweep[p], p, i) \in Contents
          /\ hashed[p][i] \in Contents /\ ResultHash(sweep[p], p, i, outcome) \in Hashes
          /\ HashOf(p, i) = ResultHash(sweep[p], p, i, outcome)
        BY <1>1, ResultFacts DEF Working
    <2>3. CellOK(p, i, sweep[p], "committing", hashed[p][i], i, outcome)
        BY <2>2 DEF CellOK, Stages, Working
    <2>4. NoCollision(sweep[p], p, i, hashed[p][i], schedules, outcome)
        BY <1>4, <2>2 DEF Collides, NoCollision
    <2>5. \A j \in Cells(p) \ {i} : (lock[p] = j) = (i = j)
        BY <1>1, <1>2
    <2>6. stale' \in [Sweeps -> BOOLEAN] /\ \A q \in Sweeps \ {p} : stale'[q] = stale[q]
        BY <1>2, <1>4
    <2> QED
        BY <1>1, <1>2, <2>1, <2>3, <2>4, <2>5, <2>6, CellKeeps
<1> QED
    BY <1>3, <1>4 DEF Lookup

LEMMA StoreFailsKeeps ==
    ASSUME LabInv, NEW p \in Sweeps, NEW i \in Cells(p), StoreFails(p, i)
    PROVE  LabInv'
<1>1. SweepsOK /\ cell[p][i] = "committing" /\ Move(p, i, "failed")
    BY DEF LabInv, StoreFails
<1>2. CellOK(p, i, sweep[p], cell[p][i], hashed[p][i], lock[p], outcome)
    BY <1>1, CellsFacts
<1>3. lock[p] = i
    BY <1>1, <1>2 DEF CellOK
<1>4. /\ sweep' = [sweep EXCEPT ![p] = sweep[p]] /\ sweep[p] \in SweepRecords(sweep[p])
      /\ lock' = [lock EXCEPT ![p] = IF lock[p] = i THEN 0 ELSE lock[p]]
      /\ UNCHANGED <<tables, hashed, stale, outcome, file, migration>>
    BY <1>1, <1>3, SweepFacts, CellsFacts DEF StoreFails, Release
<1> QED
    BY <1>1, <1>4, EndKeeps

LEMMA PanicKeeps ==
    ASSUME LabInv, NEW p \in Sweeps, NEW i \in Cells(p), Panic(p, i)
    PROVE  LabInv'
<1> DEFINE s == [sweep[p] EXCEPT !.poisoned = @ \/ lock[p] = i]
<1>1. SweepsOK /\ sweep[p] \in SweepRecords(sweep[p])
    BY CellsFacts DEF LabInv
<1>2. /\ s \in SweepRecords(s) /\ s.phase = sweep[p].phase /\ s.prepared = sweep[p].prepared
    BY <1>1 DEF SweepRecords
<1>3. /\ sweep' = [sweep EXCEPT ![p] = s] /\ Move(p, i, "panicked")
      /\ lock' = [lock EXCEPT ![p] = IF lock[p] = i THEN 0 ELSE lock[p]]
      /\ UNCHANGED <<tables, hashed, stale, outcome, file, migration>>
    BY DEF Panic
<1> HIDE DEF s
<1> QED
    BY <1>2, <1>3, EndKeeps

(* The metadata and the hash of a row are a key and a hash, never Null. *)
LEMMA NothingLostWhenSame ==
    ASSUME runs' = runs, schedules' = schedules
    PROVE  NothingIsLost
BY DEF NothingIsLost

(* A commit that adds a row and at most the body the row points to: what   *)
(* other rows point to stays. *)
LEMMA CommitTables ==
    ASSUME LabInv, NEW p \in Sweeps, NEW i \in Cells(p), cell[p][i] = "committing",
           NoCollision(sweep[p], p, i, hashed[p][i], schedules, outcome),
           outcome' = outcome, file' = file,
           schedules' = InsertSchedule(p, i), runs' = UpsertRow(p, i), migration' = migration
    PROVE  TablesOK' /\ LinkedRunsHaveOwnBody' /\ MigrationOK' /\ NothingIsLost
<1> DEFINE h == HashOf(p, i)
           k == KeyOf(p, i)
           row == NewRow(p, i)
           body == Body(p, i)
<1>1. /\ h \in Hashes /\ hashed[p][i] \in Contents /\ ResultOf(p, i) \in Keys
      /\ h = ResultHash(sweep[p], p, i, outcome)
      /\ ResultOf(p, i).content \in Contents
    BY ResultFacts DEF Working
<1>2. k \in Keys /\ k.content = hashed[p][i]
    BY <1>1, StageFacts DEF KeyOf, Run, Keys
<1>3. row \in Rows /\ row.hash = h /\ row.metadata \in Keys
    BY <1>1 DEF NewRow, Rows
<1>4. body \in Bodies /\ body.owner = hashed[p][i]
    BY <1>1 DEF Body, Bodies
<1>5. h # Null /\ Null \notin Keys /\ Absent \notin Rows /\ Absent \notin Bodies
    BY <1>1, LabConstants, AbsentIsNothing
<1>6. /\ schedules' = IF schedules[h] = Absent THEN [schedules EXCEPT ![h] = body] ELSE schedules
      /\ runs' = [runs EXCEPT ![k] = row]
    BY DEF InsertSchedule, UpsertRow
<1>7. schedules[h] # Absent => schedules[h].owner = hashed[p][i]
    BY <1>1 DEF NoCollision
<1>8. runs \in [Keys -> Rows \cup {Absent}] /\ schedules \in [Hashes -> Bodies \cup {Absent}]
    BY DEF LabInv, TablesOK
<1> HIDE DEF h, k, row, body
<1>9. /\ runs' \in [Keys -> Rows \cup {Absent}] /\ runs'[k] = row
      /\ \A l \in Keys \ {k} : runs'[l] = runs[l]
    BY <1>2, <1>3, <1>6, <1>8
<1>10. /\ schedules' \in [Hashes -> Bodies \cup {Absent}]
       /\ \A g \in Hashes : schedules[g] # Absent => schedules'[g] = schedules[g]
       /\ schedules'[h] # Absent /\ schedules'[h].owner = hashed[p][i]
    <2>1. CASE schedules[h] = Absent
        BY <1>1, <1>4, <1>5, <1>6, <1>8, <2>1
    <2>2. CASE schedules[h] # Absent
        BY <1>6, <1>7, <1>8, <2>2
    <2> QED
        BY <2>1, <2>2
<1>11. TablesOK'
    BY <1>9, <1>10 DEF LabInv, TablesOK
<1>12. LinkedRunsHaveOwnBody'
    <2> SUFFICES ASSUME NEW l \in Keys, runs'[l] # Absent, runs'[l].hash # Null
                 PROVE  /\ schedules'[runs'[l].hash] # Absent
                        /\ schedules'[runs'[l].hash].owner = l.content
        BY DEF LinkedRunsHaveOwnBody
    <2>1. CASE l = k
        BY <1>2, <1>3, <1>9, <1>10, <2>1
    <2>2. CASE l # k
        <3>1. runs'[l] = runs[l] /\ runs[l] \in Rows
            BY <1>8, <1>9, <2>2
        <3>2. runs[l].hash \in Hashes
            BY <3>1 DEF Rows
        <3>3. schedules[runs[l].hash] # Absent /\ schedules[runs[l].hash].owner = l.content
            BY <3>1 DEF LabInv, LinkedRunsHaveOwnBody
        <3> QED
            BY <1>10, <3>1, <3>2, <3>3
    <2> QED
        BY <2>1, <2>2
<1>13. MigrationOK'
    <2>1. \A l \in migration.rows \cup {migration.row} : l # Null => l \in Keys
        BY DEF LabInv, MigrationOK, MigrationRecords
    <2>2. \A l \in migration.rows \cup {migration.row} : l # Null => runs'[l] # Absent
        BY <1>3, <1>5, <1>9, <2>1 DEF LabInv, MigrationOK
    <2>3. ASSUME NEW g \in Hashes, migration.taken[g] # Absent
          PROVE  schedules'[g] \in {migration.taken[g], Stripped(migration.taken[g])}
        <3>1. schedules[g] \in {migration.taken[g], Stripped(migration.taken[g])}
            BY <2>3 DEF LabInv, MigrationOK
        <3>2. migration.taken[g] \in Bodies
            BY <2>3 DEF LabInv, MigrationOK, MigrationRecords
        <3>3. Stripped(migration.taken[g]) \in Bodies
            BY <3>2 DEF Bodies, Stripped
        <3> QED
            BY <1>5, <1>10, <3>1, <3>2, <3>3
    <2> QED
        BY <2>2, <2>3 DEF LabInv, MigrationOK
<1>14. NothingIsLost
    <2>1. \A l \in Keys : runs[l] # Absent =>
            /\ runs'[l] # Absent
            /\ runs[l].hash # Null => runs'[l].hash # Null
            /\ runs[l].metadata # Null => runs'[l].metadata # Null
        BY <1>3, <1>5, <1>9
    <2> QED
        BY <1>10, <2>1 DEF NothingIsLost
<1> QED
    BY <1>11, <1>12, <1>13, <1>14

LEMMA CommitKeeps ==
    ASSUME LabInv, NEW p \in Sweeps, NEW i \in Cells(p), Commit(p, i)
    PROVE  LabInv' /\ NothingIsLost
<1>1. /\ SweepsOK /\ cell[p][i] = "committing" /\ lock[p] = i
      /\ lock' = [lock EXCEPT ![p] = 0] /\ sweep' = sweep /\ hashed' = hashed
      /\ outcome' = outcome /\ file' = file /\ migration' = migration
    BY DEF LabInv, Commit, Release, outside
<1>2. /\ sweep[p] \in SweepRecords(sweep[p]) /\ stale \in [Sweeps -> BOOLEAN]
      /\ sweep' = [sweep EXCEPT ![p] = sweep[p]]
      /\ \A j \in Cells(p) : j # 0
    BY <1>1, CellsFacts, StageFacts, SweepFacts
<1>3. CASE Move(p, i, "failed") /\ UNCHANGED <<tables, stale>>
    <2>1. lock' = [lock EXCEPT ![p] = IF lock[p] = i THEN 0 ELSE lock[p]]
          /\ UNCHANGED <<tables, hashed, stale, outcome, file, migration>>
        BY <1>1, <1>3
    <2>2. LabInv'
        BY <1>2, <1>3, <2>1, EndKeeps
    <2>3. NothingIsLost
        BY <1>3, NothingLostWhenSame DEF tables
    <2> QED
        BY <2>2, <2>3
<1>4. CASE /\ ~ stale[p] /\ schedules' = InsertSchedule(p, i) /\ runs' = UpsertRow(p, i)
           /\ OthersStale(p) /\ Move(p, i, "done")
    <2>1. NoCollision(sweep[p], p, i, hashed[p][i], schedules, outcome)
        BY <1>1, <1>4 DEF LabInv, SnapshotsOK
    <2>2. TablesOK' /\ LinkedRunsHaveOwnBody' /\ MigrationOK' /\ NothingIsLost
        BY <1>1, <1>4, <2>1, CommitTables
    <2>3. Sets(p, sweep[p], [cell[p] EXCEPT ![i] = "done"],
               [hashed[p] EXCEPT ![i] = hashed[p][i]], 0)
        BY <1>1, <1>2, <1>4, SweepFacts, CellsFacts DEF Sets, Move
    <2>4. CellOK(p, i, sweep[p], cell[p][i], hashed[p][i], lock[p], outcome)
        BY <1>1, CellsFacts
    <2>5. CellOK(p, i, sweep[p], "done", hashed[p][i], 0, outcome)
        BY <1>2, <2>4 DEF CellOK, Stages, Working
    <2>6. SweepOK(p, sweep[p], [cell[p] EXCEPT ![i] = "done"],
                  [hashed[p] EXCEPT ![i] = hashed[p][i]], 0, outcome)
        BY <1>1, <1>2, <2>5, CellFrame
    <2>7. stale' \in [Sweeps -> BOOLEAN] /\ \A q \in Sweeps \ {p} : stale'[q]
        BY <1>2, <1>4 DEF OthersStale
    <2>8. SweepsOK' /\ lock'[p] = 0
        BY <1>1, <2>3, <2>6, <2>7, SweepsFrame
    <2>9. ASSUME NEW j \in Cells(p)
          PROVE  cell'[p][j] # "committing"
        <3>1. SweepOK(p, sweep'[p], cell'[p], hashed'[p], lock'[p], outcome')
            BY <2>8 DEF SweepsOK
        <3>2. CellOK(p, j, sweep'[p], cell'[p][j], hashed'[p][j], 0, outcome')
            BY <2>8, <3>1 DEF SweepOK
        <3> QED
            BY <1>2, <3>2 DEF CellOK
    <2>10. SnapshotsOK'
        BY <2>7, <2>9 DEF SnapshotsOK
    <2> QED
        BY <2>2, <2>8, <2>10 DEF LabInv
<1> QED
    BY <1>3, <1>4 DEF Commit

-----------------------------------------------------------------------------
(* Steps of the migration, and edits *)

(* A commit of the migration makes every open transaction fail. *)
LEMMA MigrationFrame ==
    ASSUME LabInv, UNCHANGED <<outcome, sweep, cell, hashed, lock>>,
           TablesOK', MigrationOK', LinkedRunsHaveOwnBody',
           (schedules' = schedules /\ stale' = stale) \/ AllStale
    PROVE  LabInv'
<1>1. stale' \in [Sweeps -> BOOLEAN]
    BY DEF AllStale, LabInv, SweepsOK
<1>2. SweepsOK'
    BY <1>1 DEF LabInv, SweepsOK
<1>3. SnapshotsOK'
    <2>1. CASE schedules' = schedules /\ stale' = stale
        BY <2>1 DEF LabInv, SnapshotsOK
    <2>2. CASE AllStale
        BY <2>2 DEF SnapshotsOK, AllStale
    <2> QED
        BY <2>1, <2>2
<1> QED
    BY <1>2, <1>3 DEF LabInv

(* A step that leaves the tables alone. *)
LEMMA QuietKeeps ==
    ASSUME LabInv, UNCHANGED <<outcome, sweep, cell, hashed, lock, stale, tables>>,
           file' \in [Datasets -> Contents \cup {Missing}], MigrationOK'
    PROVE  LabInv'
<1>1. TablesOK' /\ LinkedRunsHaveOwnBody'
    BY DEF LabInv, TablesOK, LinkedRunsHaveOwnBody, tables
<1> QED
    BY <1>1, MigrationFrame DEF tables

LEMMA MigrationFacts ==
    ASSUME MigrationOK
    PROVE  /\ migration.at \in {"idle", "backfill", "strip"} /\ migration.rows \subseteq Keys
           /\ migration.row \in Keys \cup {Null}
           /\ migration.taken \in [Hashes -> Bodies \cup {Absent}] /\ migration.ended \in BOOLEAN
           /\ \A k \in migration.rows : k # Null /\ runs[k] # Absent
BY AbsentIsNothing DEF MigrationOK, MigrationRecords

LEMMA MigrationQuietKeeps ==
    ASSUME LabInv,
           \/ StartMigration \/ TakeBodies \/ EndMigration \/ KillMigration
           \/ \E k \in Keys : CheckRow(k)
    PROVE  LabInv'
<1>1. /\ UNCHANGED <<outcome, sweep, cell, hashed, lock, stale, tables>>
      /\ runs' = runs /\ schedules' = schedules
      /\ file' \in [Datasets -> Contents \cup {Missing}]
    BY DEF StartMigration, TakeBodies, EndMigration, KillMigration, CheckRow, untouched,
           tables, LabInv, TablesOK
<1>2. MigrationOK
    BY DEF LabInv
<1>3. [NotMigrating EXCEPT !.ended = TRUE] \in MigrationRecords /\ NotMigrating \in MigrationRecords
    BY DEF NotMigrating, MigrationRecords
<1>4. MigrationOK'
    <2>1. CASE StartMigration
        <3> DEFINE m == [NotMigrating EXCEPT !.at = "backfill", !.rows = Unlabelled]
        <3>1. migration' = m
            BY <2>1 DEF StartMigration
        <3>2. Unlabelled \subseteq Keys /\ \A k \in Unlabelled : runs[k] # Absent
            BY DEF Unlabelled
        <3>3. /\ m.rows = Unlabelled /\ m.row = Null
              /\ \A h \in Hashes : m.taken[h] = Absent
            BY DEF NotMigrating
        <3>4. m \in MigrationRecords
            BY <3>2 DEF NotMigrating, MigrationRecords
        <3> HIDE DEF m
        <3> QED
            BY <1>1, <3>1, <3>2, <3>3, <3>4 DEF MigrationOK
    <2>2. CASE TakeBodies
        <3> DEFINE m == [migration EXCEPT !.at = "strip", !.taken = schedules]
        <3>1. migration' = m
            BY <2>2 DEF TakeBodies
        <3>2. m \in MigrationRecords
            BY <1>2 DEF MigrationOK, MigrationRecords, LabInv, TablesOK
        <3>3. m.rows = migration.rows /\ m.row = migration.row /\ m.taken = schedules
            BY <1>2 DEF MigrationOK, MigrationRecords
        <3> HIDE DEF m
        <3> QED
            BY <1>1, <1>2, <3>1, <3>2, <3>3 DEF MigrationOK
    <2>3. CASE EndMigration \/ KillMigration
        <3>1. migration' = [NotMigrating EXCEPT !.ended = TRUE] \/ migration' = NotMigrating
            BY <2>3 DEF EndMigration, KillMigration
        <3>2. /\ migration'.rows = {} /\ migration'.row = Null
              /\ \A h \in Hashes : migration'.taken[h] = Absent
            BY <3>1 DEF NotMigrating
        <3> QED
            BY <1>3, <3>1, <3>2 DEF MigrationOK
    <2>4. CASE \E k \in Keys : CheckRow(k)
        <3>1. PICK k \in Keys : CheckRow(k)
            BY <2>4
        <3>2. runs[k] # Absent
            BY <1>2, <3>1, MigrationFacts DEF CheckRow
        <3>3. CASE migration' = [migration EXCEPT !.row = k]
            <4>1. migration' \in MigrationRecords
                BY <1>2, <3>3 DEF MigrationOK, MigrationRecords
            <4>2. /\ migration'.rows = migration.rows /\ migration'.row = k
                  /\ migration'.taken = migration.taken
                BY <1>2, <3>3 DEF MigrationOK, MigrationRecords
            <4> QED
                BY <1>1, <1>2, <3>2, <4>1, <4>2 DEF MigrationOK
        <3>4. CASE migration' = [migration EXCEPT !.rows = @ \ {k}]
            <4>1. migration' \in MigrationRecords
                BY <1>2, <3>4 DEF MigrationOK, MigrationRecords
            <4>2. /\ migration'.rows \subseteq migration.rows /\ migration'.row = migration.row
                  /\ migration'.taken = migration.taken
                BY <1>2, <3>4 DEF MigrationOK, MigrationRecords
            <4> QED
                BY <1>1, <1>2, <4>1, <4>2 DEF MigrationOK
        <3> QED
            BY <3>1, <3>3, <3>4 DEF CheckRow
    <2> QED
        BY <2>1, <2>2, <2>3, <2>4
<1> QED
    BY <1>1, <1>4, QuietKeeps

LEMMA EditKeeps ==
    ASSUME LabInv, NEW d \in Datasets, NEW c \in Contents \cup {Missing}, Edit(d, c)
    PROVE  LabInv'
<1>1. /\ UNCHANGED <<outcome, sweep, cell, hashed, lock, stale, tables>>
      /\ runs' = runs /\ schedules' = schedules /\ migration' = migration
      /\ file' \in [Datasets -> Contents \cup {Missing}]
    BY DEF Edit, tables, LabInv, TablesOK
<1>2. MigrationOK'
    BY <1>1 DEF LabInv, MigrationOK
<1> QED
    BY <1>1, <1>2, QuietKeeps

(* What is filled into a row keeps its hash. *)
LEMMA FillRowKeeps ==
    ASSUME LabInv, FillRow
    PROVE  LabInv' /\ NothingIsLost
<1> DEFINE k == migration.row
           c == file[k.dataset]
           m == [migration EXCEPT !.rows = @ \ {k}, !.row = Null]
<1>1. MigrationOK /\ TablesOK /\ LinkedRunsHaveOwnBody
    BY DEF LabInv
<1>2. /\ k \in Keys /\ migration' = m /\ schedules' = schedules /\ file' = file
      /\ UNCHANGED <<outcome, sweep, cell, hashed, lock>>
    BY <1>1, MigrationFacts DEF FillRow, untouched
<1>3. runs[k] # Absent /\ runs[k] \in Rows
    BY <1>1, <1>2 DEF MigrationOK, TablesOK, FillRow
<1>4. /\ m \in MigrationRecords /\ m.rows \subseteq migration.rows /\ m.row = Null
      /\ m.taken = migration.taken
    BY <1>1 DEF MigrationOK, MigrationRecords
<1>5. CASE /\ CanPrepare(c) /\ AllStale
           /\ runs' = [runs EXCEPT ![k].metadata = [k EXCEPT !.content = c]]
    <2> DEFINE row == [runs[k] EXCEPT !.metadata = [k EXCEPT !.content = c]]
    <2>1. k.dataset \in Datasets
        BY <1>2 DEF Keys
    <2>2. c \in Contents
        BY <1>1, <1>5, <2>1 DEF TablesOK, CanPrepare
    <2>3. [k EXCEPT !.content = c] \in Keys
        BY <1>2, <2>2 DEF Keys
    <2>4. row \in Rows /\ row.hash = runs[k].hash /\ row.metadata \in Keys
        BY <1>3, <2>3 DEF Rows
    <2>5. runs' = [runs EXCEPT ![k] = row]
        BY <1>5
    <2> HIDE DEF row, c, k, m
    <2>6. /\ runs' \in [Keys -> Rows \cup {Absent}] /\ runs'[k] = row
          /\ \A l \in Keys \ {k} : runs'[l] = runs[l]
        BY <1>1, <1>2, <2>4, <2>5 DEF TablesOK
    <2>7. row # Absent /\ row.metadata # Null
        BY <2>4, AbsentIsNothing
    <2>8. \A l \in Keys : /\ (runs'[l] # Absent) = (runs[l] # Absent)
                          /\ runs[l] # Absent => runs'[l].hash = runs[l].hash
        BY <1>3, <2>4, <2>6, <2>7
    <2>9. TablesOK'
        BY <1>1, <1>2, <2>6 DEF TablesOK
    <2>10. LinkedRunsHaveOwnBody'
        BY <1>1, <1>2, <2>8 DEF LinkedRunsHaveOwnBody
    <2>11. MigrationOK'
        <3>1. \A l \in migration'.rows \cup {migration'.row} : l # Null => runs'[l] # Absent
            BY <1>1, <1>2, <1>4, <2>8, MigrationFacts
        <3>2. \A h \in Hashes : migration'.taken[h] # Absent =>
                schedules'[h] \in {migration'.taken[h], Stripped(migration'.taken[h])}
            BY <1>1, <1>2, <1>4 DEF MigrationOK
        <3> QED
            BY <1>2, <1>4, <3>1, <3>2 DEF MigrationOK
    <2>12. LabInv'
        BY <1>2, <1>5, <2>9, <2>10, <2>11, MigrationFrame
    <2>13. NothingIsLost
        BY <1>2, <2>6, <2>7, <2>8 DEF NothingIsLost
    <2> QED
        BY <2>12, <2>13
<1>6. CASE ~ CanPrepare(c) /\ UNCHANGED <<runs, stale>>
    <2> HIDE DEF k, c, m
    <2>1. MigrationOK'
        BY <1>1, <1>2, <1>4, <1>6 DEF MigrationOK
    <2>2. LabInv'
        BY <1>1, <1>2, <1>6, <2>1, QuietKeeps DEF TablesOK, tables
    <2>3. NothingIsLost
        BY <1>2, <1>6, NothingLostWhenSame
    <2> QED
        BY <2>2, <2>3
<1> QED
    BY <1>5, <1>6 DEF FillRow

(* A body is replaced by itself, without what an older version embedded. *)
LEMMA StripBodyKeeps ==
    ASSUME LabInv, NEW h \in Hashes, StripBody(h)
    PROVE  LabInv' /\ NothingIsLost
<1> DEFINE body == migration.taken[h]
           m == [migration EXCEPT !.taken[h] = Absent]
<1>1. MigrationOK /\ TablesOK /\ LinkedRunsHaveOwnBody
    BY DEF LabInv
<1>2. /\ body \in Bodies /\ body # Absent /\ migration' = m /\ runs' = runs /\ file' = file
      /\ UNCHANGED <<outcome, sweep, cell, hashed, lock>>
    BY <1>1, MigrationFacts DEF StripBody, untouched
<1>3. /\ m \in MigrationRecords /\ m.rows = migration.rows /\ m.row = migration.row
      /\ m.taken = [migration.taken EXCEPT ![h] = Absent]
    BY <1>1 DEF MigrationOK, MigrationRecords
<1>4. /\ m.taken[h] = Absent
      /\ \A g \in Hashes \ {h} : m.taken[g] = migration.taken[g]
    BY <1>1, <1>3, MigrationFacts
<1>5. schedules[h] \in {body, Stripped(body)}
    BY <1>1, <1>2 DEF MigrationOK
<1>6. CASE /\ schedules' = [schedules EXCEPT ![h] = [body EXCEPT !.embedded = Null]]
           /\ AllStale
    <2>1. Stripped(body) \in Bodies /\ Stripped(body).owner = body.owner
          /\ [Stripped(body) EXCEPT !.embedded = Null] = Stripped(body)
        BY <1>2 DEF Stripped, Bodies
    <2>2. schedules' = [schedules EXCEPT ![h] = Stripped(body)]
        BY <1>6 DEF Stripped
    <2>3. /\ schedules' \in [Hashes -> Bodies \cup {Absent}] /\ schedules'[h] = Stripped(body)
          /\ \A g \in Hashes \ {h} : schedules'[g] = schedules[g]
        BY <1>1, <2>1, <2>2 DEF TablesOK
    <2>4. /\ schedules[h].owner = body.owner /\ schedules'[h] # Absent
          /\ schedules'[h] = [schedules[h] EXCEPT !.embedded = Null]
        BY <1>5, <2>1, <2>3, AbsentIsNothing DEF Stripped
    <2> HIDE DEF body, m
    <2>5. TablesOK'
        BY <1>1, <1>2, <2>3 DEF TablesOK
    <2>6. LinkedRunsHaveOwnBody'
        <3> SUFFICES ASSUME NEW k \in Keys, runs[k] # Absent, runs[k].hash # Null
                     PROVE  /\ schedules'[runs[k].hash] # Absent
                            /\ schedules'[runs[k].hash].owner = k.content
            BY <1>2 DEF LinkedRunsHaveOwnBody
        <3>1. runs[k].hash \in Hashes
            BY <1>1 DEF TablesOK, Rows
        <3>2. schedules[runs[k].hash] # Absent /\ schedules[runs[k].hash].owner = k.content
            BY <1>1 DEF LinkedRunsHaveOwnBody
        <3>3. CASE runs[k].hash = h
            BY <2>1, <2>3, <2>4, <3>2, <3>3
        <3>4. CASE runs[k].hash # h
            BY <2>3, <3>1, <3>2, <3>4
        <3> QED
            BY <3>3, <3>4
    <2>7. MigrationOK'
        <3>1. \A l \in migration'.rows \cup {migration'.row} : l # Null => runs'[l] # Absent
            BY <1>1, <1>2, <1>3 DEF MigrationOK
        <3>2. \A g \in Hashes : migration'.taken[g] # Absent =>
                schedules'[g] \in {migration'.taken[g], Stripped(migration'.taken[g])}
            BY <1>1, <1>2, <1>4, <2>3 DEF MigrationOK
        <3> QED
            BY <1>2, <1>3, <3>1, <3>2 DEF MigrationOK
    <2>8. LabInv'
        BY <1>2, <1>6, <2>5, <2>6, <2>7, MigrationFrame
    <2>9. NothingIsLost
        BY <1>2, <2>3, <2>4 DEF NothingIsLost
    <2> QED
        BY <2>8, <2>9
<1>7. CASE UNCHANGED <<schedules, stale>>
    <2> HIDE DEF body, m
    <2>1. MigrationOK'
        BY <1>1, <1>2, <1>3, <1>4, <1>7 DEF MigrationOK
    <2>2. LabInv'
        BY <1>1, <1>2, <1>7, <2>1, QuietKeeps DEF TablesOK, tables
    <2>3. NothingIsLost
        BY <1>2, <1>7, NothingLostWhenSame
    <2> QED
        BY <2>2, <2>3
<1> QED
    BY <1>6, <1>7 DEF StripBody

-----------------------------------------------------------------------------
(* The theorems *)

LEMMA InitIsOK ==
    ASSUME LabInit
    PROVE  LabInv
<1>1. TablesOK /\ LinkedRunsHaveOwnBody
    BY OldRegistryOK
<1>2. /\ sweep = [p \in Sweeps |-> NotStarted]
      /\ cell = [p \in Sweeps |-> [i \in Cells(p) |-> "unseen"]]
      /\ hashed = [p \in Sweeps |-> [i \in Cells(p) |-> Absent]]
      /\ lock = [p \in Sweeps |-> 0] /\ stale = [p \in Sweeps |-> FALSE]
      /\ migration = NotMigrating
    BY DEF LabInit, NobodyWorks
<1>3. NotStarted \in SweepRecords(NotStarted) /\ NotStarted.phase = "idle"
    BY DEF NotStarted, SweepRecords
<1>4. ASSUME NEW p \in Sweeps
      PROVE  SweepOK(p, NotStarted, [i \in Cells(p) |-> "unseen"], [i \in Cells(p) |-> Absent],
                     0, outcome)
    BY <1>3, StageFacts DEF SweepOK, CellOK, Stages, Working
<1>5. SweepsOK
    <2>1. /\ sweep \in [Sweeps -> {sweep[p] : p \in Sweeps}]
          /\ cell \in [Sweeps -> {cell[p] : p \in Sweeps}]
          /\ hashed \in [Sweeps -> {hashed[p] : p \in Sweeps}]
          /\ lock \in [Sweeps -> {lock[p] : p \in Sweeps}]
          /\ stale \in [Sweeps -> BOOLEAN]
        BY <1>2
    <2>2. \A p \in Sweeps : SweepOK(p, sweep[p], cell[p], hashed[p], lock[p], outcome)
        BY <1>2, <1>4
    <2> QED
        BY <2>1, <2>2 DEF SweepsOK
<1>6. MigrationOK
    BY <1>2 DEF MigrationOK, MigrationRecords, NotMigrating
<1>7. SnapshotsOK
    BY <1>2 DEF SnapshotsOK
<1> QED
    BY <1>1, <1>5, <1>6, <1>7 DEF LabInv

LEMMA NextKeeps ==
    ASSUME LabInv, [LabNext]_labVars
    PROVE  LabInv' /\ [NothingIsLost]_tables
<1>1. ASSUME NEW p \in Sweeps, NEW i \in Cells(p),
             CellSteps(p, i) \/ StoreFails(p, i) \/ Panic(p, i)
      PROVE  LabInv' /\ [NothingIsLost]_tables
    <2>1. CASE Commit(p, i)
        BY <2>1, CommitKeeps
    <2>2. CASE BeginCell(p, i) \/ Identify(p, i) \/ Lookup(p, i) \/ StoreFails(p, i) \/ Panic(p, i)
        <3>1. LabInv'
            BY <2>2, BeginCellKeeps, IdentifyKeeps, LookupKeeps, StoreFailsKeeps, PanicKeeps
        <3>2. UNCHANGED tables
            BY <2>2 DEF BeginCell, Identify, Lookup, StoreFails, Panic, tables
        <3> QED
            BY <3>1, <3>2
    <2> QED
        BY <1>1, <2>1, <2>2 DEF CellSteps
<1>2. ASSUME NEW p \in Sweeps,
             \/ Classify(p) \/ Classified(p) \/ Prepare(p) \/ Prepared(p) \/ Return(p)
             \/ LookupFails(p) \/ Kill(p) \/ \E o \in BOOLEAN : Start(p, o)
      PROVE  LabInv' /\ [NothingIsLost]_tables
    <2>1. LabInv'
        BY <1>2, ClassifyKeeps, RecordStepsKeep, LookupFailsKeeps, KillKeeps, StartKeeps
    <2>2. UNCHANGED tables
        BY <1>2 DEF Classify, Classified, Prepare, Prepared, Return, LookupFails, Kill, Start,
                    tables
    <2> QED
        BY <2>1, <2>2
<1>3. ASSUME FillRow \/ \E h \in Hashes : StripBody(h)
      PROVE  LabInv' /\ [NothingIsLost]_tables
    BY <1>3, FillRowKeeps, StripBodyKeeps
<1>4. ASSUME \/ StartMigration \/ TakeBodies \/ EndMigration \/ KillMigration
             \/ \E k \in Keys : CheckRow(k)
      PROVE  LabInv' /\ [NothingIsLost]_tables
    <2>1. LabInv'
        BY <1>4, MigrationQuietKeeps
    <2>2. UNCHANGED tables
        BY <1>4 DEF StartMigration, TakeBodies, EndMigration, KillMigration, CheckRow, tables
    <2> QED
        BY <2>1, <2>2
<1>5. ASSUME NEW d \in Datasets, NEW c \in Contents \cup {Missing}, Edit(d, c)
      PROVE  LabInv' /\ [NothingIsLost]_tables
    BY <1>5, EditKeeps DEF Edit, tables
<1>6. CASE UNCHANGED labVars
    <2>1. /\ UNCHANGED <<outcome, sweep, cell, hashed, lock, stale, tables>>
          /\ file' = file /\ migration' = migration /\ UNCHANGED tables
          /\ runs' = runs /\ schedules' = schedules
        BY <1>6 DEF labVars, tables
    <2>2. MigrationOK' /\ file' \in [Datasets -> Contents \cup {Missing}]
        BY <2>1 DEF LabInv, MigrationOK, TablesOK
    <2> QED
        BY <2>1, <2>2, QuietKeeps
<1>7. CASE LabNext
    <2>1. CASE \E p \in Sweeps :
                 \/ SweepSteps(p) \/ LookupFails(p) \/ Kill(p)
                 \/ \E o \in BOOLEAN : Start(p, o)
                 \/ \E i \in Cells(p) : StoreFails(p, i) \/ Panic(p, i)
        BY <1>1, <1>2, <2>1 DEF SweepSteps
    <2>2. CASE StartMigration \/ MigrationSteps \/ KillMigration
        BY <1>3, <1>4, <2>2 DEF MigrationSteps
    <2>3. CASE \E d \in Datasets, c \in Contents \cup {Missing} : Edit(d, c)
        BY <1>5, <2>3
    <2> QED
        BY <1>7, <2>1, <2>2, <2>3 DEF LabNext
<1> QED
    BY <1>6, <1>7

LEMMA InvHolds == LabSpec => []LabInv
<1>1. LabInit => LabInv
    BY InitIsOK
<1>2. LabInv /\ [LabNext]_labVars => LabInv'
    BY NextKeeps
<1> QED
    BY <1>1, <1>2, PTL DEF LabSpec

(* Both tables hold the rows their readers expect, and at most one cell of *)
(* a process, the one that holds the registry's mutex, has a transaction   *)
(* open. *)
THEOREM LabTypeCorrect == LabSpec => []LabTypeOK
<1>1. LabInv => LabTypeOK
    BY InvIsTyped
<1> QED
    BY <1>1, InvHolds, PTL

(* Whatever sweeps, migrations, edits and faults come together, a run that *)
(* is linked to a schedule finds a body of its own dataset under it. *)
THEOREM LinkedBodiesAreOwn == LabSpec => []LinkedRunsHaveOwnBody
<1>1. LabInv => LinkedRunsHaveOwnBody
    BY DEF LabInv
<1> QED
    BY <1>1, InvHolds, PTL

(* No step loses a row, the schedule or the metadata of one, or a body. *)
THEOREM NothingIsEverLost == LabSpec => StoredStays
<1>1. LabInv /\ [LabNext]_labVars => [NothingIsLost]_tables
    BY NextKeeps
<1> QED
    BY <1>1, InvHolds, PTL DEF LabSpec, StoredStays
-----------------------------------------------------------------------------
(* What the records tell *)

(* As long as nobody edits a file, what a sweep has prepared or hashed and *)
(* what the migration has checked are what the files hold.                 *)
FilesAreSeen ==
    /\ edits \in Nat /\ faults \in Nat
    /\ edits = 0 =>
         /\ \A p \in Sweeps : /\ \A d \in Datasets : sweep[p].prepared[d] \in {Absent, file[d]}
                              /\ \A i \in Cells(p) : hashed[p][i] \in {Absent, file[DatasetOf(p, i)]}
         /\ migration.row # Null => file[migration.row.dataset] = migration.row.content

(* As long as nobody edits a file, a body was found from the dataset it    *)
(* belongs to, and belongs to a row.                                       *)
BodiesAreOfRows ==
    edits = 0 =>
       /\ \A h \in Hashes : schedules[h] # Absent => schedules[h].raw = schedules[h].owner
       /\ OrphanBodies = {}

(* What a cell stores stays in the registry; a poisoned mutex is one under *)
(* which a cell panicked; a summary is one of cells that have all ended.   *)
Stored(k, table) == table[k] # Absent /\ table[k].hash # Null /\ table[k].metadata # Null
EndingIn(p, stages, stage) == {i \in Cells(p) : stages[i] = stage}
Counts(p, s, stages) ==
    [total |-> Len(CellsOf[p]), skipped |-> Cardinality(EndingIn(p, stages, "skipped")),
     overridden |-> Cardinality(s.again),
     completed |-> Cardinality(EndingIn(p, stages, "done")),
     failed |-> Cardinality(EndingIn(p, stages, "failed"))]
Accounted(p, s, stages) ==
    /\ s.again \subseteq Cells(p) /\ (s.override \/ s.again = {})
    /\ s.override => \A i \in Cells(p) : stages[i] # "skipped"
    /\ s.poisoned => \E i \in Cells(p) : stages[i] = "panicked"
    /\ s.summary # Null =>
         /\ s.phase = "idle" /\ s.summary = Counts(p, s, stages)
         /\ \A i \in Cells(p) : stages[i] \in {"skipped", "done", "failed"}
CellsAreStored(p, s, stages, at, table) ==
    \A i \in Cells(p) :
       /\ stages[i] = "skipped" => at[i] \in Contents /\ table[Run(p, i, at[i])] # Absent
       /\ stages[i] = "done" /\ ~ s.poisoned => at[i] \in Contents /\ Stored(Run(p, i, at[i]), table)
SweepsAreAccounted ==
    \A p \in Sweeps : /\ Accounted(p, sweep[p], cell[p])
                      /\ CellsAreStored(p, sweep[p], cell[p], hashed[p], runs)

(* What the migration has come past needs no migration any more.           *)
Hopeless(k) == file[k.dataset] # k.content \/ k.content \in Broken
MigrationIsOnItsWay ==
    /\ migration.row # Null => migration.at = "backfill" /\ migration.row \in migration.rows
    /\ migration.at = "strip" =>
          \A h \in Hashes : schedules[h] # Absent /\ migration.taken[h] = Absent =>
             schedules[h].embedded = Null
    /\ migration.ended =>
          /\ migration.at = "idle"
          /\ \A h \in Hashes : schedules[h] # Absent => schedules[h].embedded = Null
    /\ edits = 0 =>
         /\ migration.at = "backfill" =>
               \A k \in Unlabelled : k \in migration.rows \/ Hopeless(k)
         /\ migration.at = "strip" \/ migration.ended => \A k \in Unlabelled : Hopeless(k)

TruthInv == /\ FilesAreSeen /\ RowIsOfOneRun /\ BodiesAreOfRows /\ SweepsAreAccounted
            /\ MigrationIsOnItsWay

-----------------------------------------------------------------------------
(* What a sweep has in hand, and what it has accounted for *)

LEMMA SetsFacts ==
    ASSUME SweepsOK, NEW p \in Sweeps, NEW s, NEW stages, NEW at, NEW holder,
           Sets(p, s, stages, at, holder)
    PROVE  /\ sweep'[p] = s /\ cell'[p] = stages /\ hashed'[p] = at
           /\ \A q \in Sweeps \ {p} : /\ sweep'[q] = sweep[q] /\ cell'[q] = cell[q]
                                      /\ hashed'[q] = hashed[q]
BY DEF SweepsOK, Sets

(* Rows stay, with what they have. *)
Grows(table) ==
    \A k \in Keys : /\ runs[k] # Absent => table[k] # Absent
                    /\ Stored(k, runs) => Stored(k, table)
LEMMA TablesGrow ==
    ASSUME [NothingIsLost]_tables, NEW table, table = runs'
    PROVE  Grows(table)
BY DEF NothingIsLost, tables, Grows, Stored

LEMMA RunIsKey ==
    ASSUME NEW p \in Sweeps, NEW i \in Cells(p), NEW c \in Contents
    PROVE  Run(p, i, c) \in Keys /\ Run(p, i, c).content = c
BY StageFacts DEF Run, Keys

LEMMA StoredStay ==
    ASSUME NEW p \in Sweeps, NEW s, NEW stages, NEW at, NEW table,
           CellsAreStored(p, s, stages, at, runs), Grows(table)
    PROVE  CellsAreStored(p, s, stages, at, table)
BY RunIsKey DEF CellsAreStored, Grows

(* A step of one sweep: the others have what they had. *)
LEMMA SweepTells ==
    ASSUME LabInv, FilesAreSeen, SweepsAreAccounted,
           NEW p \in Sweeps, NEW s, NEW stages, NEW at, NEW holder,
           Sets(p, s, stages, at, holder),
           edits' = edits, file' = file, faults' \in {faults, faults + 1}, migration' = migration,
           \A d \in Datasets : s.prepared[d] \in {Absent, file[d], sweep[p].prepared[d]},
           \A i \in Cells(p) : at[i] \in {Absent, file[DatasetOf(p, i)], hashed[p][i]},
           NEW table, table = runs', Grows(table),
           Accounted(p, s, stages), CellsAreStored(p, s, stages, at, table)
    PROVE  FilesAreSeen' /\ SweepsAreAccounted'
<1>1. /\ sweep'[p] = s /\ cell'[p] = stages /\ hashed'[p] = at
      /\ \A q \in Sweeps \ {p} : /\ sweep'[q] = sweep[q] /\ cell'[q] = cell[q]
                                 /\ hashed'[q] = hashed[q]
    BY SetsFacts DEF LabInv
<1>2. FilesAreSeen'
    <2>1. edits' \in Nat /\ faults' \in Nat
        BY DEF FilesAreSeen
    <2>2. ASSUME edits = 0, NEW q \in Sweeps
          PROVE  /\ \A d \in Datasets : sweep'[q].prepared[d] \in {Absent, file[d]}
                 /\ \A i \in Cells(q) : hashed'[q][i] \in {Absent, file[DatasetOf(q, i)]}
        <3>1. /\ \A d \in Datasets : sweep[q].prepared[d] \in {Absent, file[d]}
              /\ \A i \in Cells(q) : hashed[q][i] \in {Absent, file[DatasetOf(q, i)]}
            BY <2>2 DEF FilesAreSeen
        <3>2. CASE q = p
            BY <1>1, <3>1, <3>2
        <3>3. CASE q # p
            BY <1>1, <3>1, <3>3
        <3> QED
            BY <3>2, <3>3
    <2>3. edits = 0 /\ migration.row # Null => file[migration.row.dataset] = migration.row.content
        BY DEF FilesAreSeen
    <2> QED
        BY <2>1, <2>2, <2>3 DEF FilesAreSeen
<1>3. ASSUME NEW q \in Sweeps
      PROVE  /\ Accounted(q, sweep'[q], cell'[q])
             /\ CellsAreStored(q, sweep'[q], cell'[q], hashed'[q], table)
    <2>1. CASE q = p
        BY <1>1, <2>1
    <2>2. CASE q # p
        <3>1. /\ Accounted(q, sweep[q], cell[q])
              /\ CellsAreStored(q, sweep[q], cell[q], hashed[q], runs)
            BY DEF SweepsAreAccounted
        <3>2. CellsAreStored(q, sweep[q], cell[q], hashed[q], table)
            BY <3>1, StoredStay
        <3> QED
            BY <1>1, <2>2, <3>1, <3>2
    <2> QED
        BY <2>1, <2>2
<1> QED
    BY <1>2, <1>3 DEF SweepsAreAccounted

(* A step that leaves the sweeps alone. *)
LEMMA QuietTells ==
    ASSUME LabInv, SweepsAreAccounted, UNCHANGED <<sweep, cell, hashed>>, [NothingIsLost]_tables
    PROVE  SweepsAreAccounted'
<1> DEFINE table == runs'
<1>1. Grows(table)
    BY TablesGrow
<1> HIDE DEF table
<1>2. ASSUME NEW q \in Sweeps
      PROVE  /\ Accounted(q, sweep[q], cell[q])
             /\ CellsAreStored(q, sweep[q], cell[q], hashed[q], table)
    BY <1>1, StoredStay DEF SweepsAreAccounted
<1> QED
    BY <1>2 DEF SweepsAreAccounted, table

(* A cell of a sweep that runs moves on. *)
LEMMA CellAccounted ==
    ASSUME NEW p \in Sweeps, NEW s, NEW stages \in [Cells(p) -> Stages],
           NEW at \in [Cells(p) -> Contents \cup {Absent}],
           Accounted(p, s, stages), CellsAreStored(p, s, stages, at, runs),
           s.phase # "idle", NEW i \in Cells(p), stages[i] \notin Ended,
           NEW t, t.override = s.override, t.summary = s.summary,
           t.again \subseteq Cells(p), t.override \/ t.again = {},
           NEW stage, NEW c, NEW table, Grows(table),
           s.poisoned => t.poisoned, t.poisoned => s.poisoned \/ stage = "panicked",
           stage = "skipped" =>
              ~ s.override /\ c \in Contents /\ table[Run(p, i, c)] # Absent,
           stage = "done" /\ ~ t.poisoned => c \in Contents /\ Stored(Run(p, i, c), table)
    PROVE  /\ Accounted(p, t, [stages EXCEPT ![i] = stage])
           /\ CellsAreStored(p, t, [stages EXCEPT ![i] = stage], [at EXCEPT ![i] = c], table)
<1> DEFINE moved == [stages EXCEPT ![i] = stage]
           now == [at EXCEPT ![i] = c]
<1>1. /\ moved[i] = stage /\ now[i] = c
      /\ \A j \in Cells(p) \ {i} : moved[j] = stages[j] /\ now[j] = at[j]
    OBVIOUS
<1> HIDE DEF moved, now
<1>2. CellsAreStored(p, s, stages, at, table)
    BY StoredStay
<1>3. CellsAreStored(p, t, moved, now, table)
    BY <1>1, <1>2 DEF CellsAreStored
<1>4. s.summary = Null
    BY DEF Accounted
<1>5. t.poisoned => \E j \in Cells(p) : moved[j] = "panicked"
    <2>1. CASE stage = "panicked"
        BY <1>1, <2>1
    <2>2. CASE stage # "panicked"
        <3>1. s.poisoned => \E j \in Cells(p) \ {i} : stages[j] = "panicked"
            BY DEF Accounted, Ended
        <3> QED
            BY <1>1, <2>2, <3>1
    <2> QED
        BY <2>1, <2>2
<1>6. t.override => \A j \in Cells(p) : moved[j] # "skipped"
    BY <1>1 DEF Accounted
<1>7. Accounted(p, t, moved)
    BY <1>4, <1>5, <1>6 DEF Accounted
<1> QED
    BY <1>3, <1>7 DEF moved, now

LEMMA SweepParts ==
    ASSUME SweepsOK, NEW p \in Sweeps
    PROVE  /\ sweep[p] \in SweepRecords(sweep[p])
           /\ sweep[p].prepared \in [Datasets -> Contents \cup {Absent}]
           /\ cell[p] \in [Cells(p) -> Stages]
           /\ hashed[p] \in [Cells(p) -> Contents \cup {Absent}]
<1>1. SweepOK(p, sweep[p], cell[p], hashed[p], lock[p], outcome)
    BY SweepFacts
<1>2. sweep[p] \in SweepRecords(sweep[p])
    BY <1>1 DEF SweepOK
<1>3. sweep[p].prepared \in [Datasets -> Contents \cup {Absent}]
    BY <1>2 DEF SweepRecords
<1> QED
    BY <1>1, <1>2, <1>3 DEF SweepOK

(* One cell of a sweep that runs moves on, and nothing else of the sweep   *)
(* changes but what this cell found out.                                   *)
LEMMA MoveTells ==
    ASSUME LabInv, FilesAreSeen, SweepsAreAccounted, [NothingIsLost]_tables,
           NEW p \in Sweeps, NEW i \in Cells(p), sweep[p].phase # "idle",
           cell[p][i] \notin Ended,
           NEW t, NEW stage, NEW c, NEW holder,
           Sets(p, t, [cell[p] EXCEPT ![i] = stage], [hashed[p] EXCEPT ![i] = c], holder),
           edits' = edits, file' = file, faults' \in {faults, faults + 1}, migration' = migration,
           t.prepared = sweep[p].prepared, t.override = sweep[p].override,
           t.summary = sweep[p].summary,
           t.again \subseteq Cells(p), t.override \/ t.again = {},
           c \in {Absent, file[DatasetOf(p, i)], hashed[p][i]},
           sweep[p].poisoned => t.poisoned,
           t.poisoned => sweep[p].poisoned \/ stage = "panicked",
           NEW table, table = runs',
           stage = "skipped" =>
              ~ sweep[p].override /\ c \in Contents /\ table[Run(p, i, c)] # Absent,
           stage = "done" /\ ~ t.poisoned => c \in Contents /\ Stored(Run(p, i, c), table)
    PROVE  FilesAreSeen' /\ SweepsAreAccounted'
<1> DEFINE stages == [cell[p] EXCEPT ![i] = stage]
           at == [hashed[p] EXCEPT ![i] = c]
<1>1. SweepsOK
    BY DEF LabInv
<1>2. /\ sweep[p] \in SweepRecords(sweep[p])
      /\ cell[p] \in [Cells(p) -> Stages]
      /\ hashed[p] \in [Cells(p) -> Contents \cup {Absent}]
    BY <1>1, SweepParts
<1>3. Grows(table)
    BY TablesGrow
<1>4. /\ Accounted(p, sweep[p], cell[p])
      /\ CellsAreStored(p, sweep[p], cell[p], hashed[p], runs)
    BY DEF SweepsAreAccounted
<1>5. Accounted(p, t, stages) /\ CellsAreStored(p, t, stages, at, table)
    BY <1>2, <1>3, <1>4, CellAccounted
<1>6. \A d \in Datasets : t.prepared[d] \in {Absent, file[d], sweep[p].prepared[d]}
    OBVIOUS
<1>7. \A j \in Cells(p) : at[j] \in {Absent, file[DatasetOf(p, j)], hashed[p][j]}
    BY <1>2
<1>8. Sets(p, t, stages, at, holder)
    OBVIOUS
<1> HIDE DEF stages, at
<1> QED
    BY <1>3, <1>5, <1>6, <1>7, <1>8, SweepTells

(* A step of one sweep that leaves its cells alone. *)
LEMMA RecordTells ==
    ASSUME LabInv, FilesAreSeen, SweepsAreAccounted, NEW p \in Sweeps, NEW t,
           sweep' = [sweep EXCEPT ![p] = t],
           UNCHANGED <<cell, hashed, lock, tables, outside>>,
           \A d \in Datasets : t.prepared[d] \in {Absent, file[d], sweep[p].prepared[d]},
           t.again = sweep[p].again, t.override = sweep[p].override,
           t.poisoned = sweep[p].poisoned,
           \/ sweep[p].phase # "idle" /\ t.summary = sweep[p].summary
           \/ t.summary = Null
           \/ /\ t.phase = "idle" /\ t.summary = Counts(p, t, cell[p])
              /\ \A i \in Cells(p) : cell[p][i] \in {"skipped", "done", "failed"}
    PROVE  FilesAreSeen' /\ SweepsAreAccounted'
<1>1. SweepsOK
    BY DEF LabInv
<1>2. Sets(p, t, cell[p], hashed[p], lock[p])
    BY <1>1, SweepFacts DEF Sets
<1>3. /\ Accounted(p, sweep[p], cell[p])
      /\ CellsAreStored(p, sweep[p], cell[p], hashed[p], runs)
    BY DEF SweepsAreAccounted
<1>4. Accounted(p, t, cell[p])
    <2>1. sweep[p].phase # "idle" => sweep[p].summary = Null
        BY <1>3 DEF Accounted
    <2>2. t.summary # Null =>
            /\ t.phase = "idle" /\ t.summary = Counts(p, t, cell[p])
            /\ \A i \in Cells(p) : cell[p][i] \in {"skipped", "done", "failed"}
        BY <2>1
    <2> QED
        BY <1>3, <2>2 DEF Accounted
<1>5. CellsAreStored(p, t, cell[p], hashed[p], runs)
    BY <1>3 DEF CellsAreStored
<1>6. edits' = edits /\ file' = file /\ faults' = faults /\ migration' = migration
      /\ runs' = runs /\ Grows(runs)
    BY DEF outside, tables, Grows
<1> QED
    BY <1>2, <1>4, <1>5, <1>6, SweepTells

LEMMA StartTells ==
    ASSUME LabInv, FilesAreSeen, SweepsAreAccounted, NEW p \in Sweeps, NEW o \in BOOLEAN,
           Start(p, o)
    PROVE  FilesAreSeen' /\ SweepsAreAccounted'
<1> DEFINE t == [NotStarted EXCEPT !.phase = "classify", !.override = o,
                                   !.starts = sweep[p].starts + 1]
           stages == [i \in Cells(p) |-> "unseen"]
           at == [i \in Cells(p) |-> Absent]
<1>1. Sets(p, t, stages, at, lock[p])
    BY SweepFacts DEF LabInv, Start, Sets
<1>2. /\ t.again = {} /\ t.poisoned = FALSE /\ t.summary = Null
      /\ \A d \in Datasets : t.prepared[d] = Absent
    BY DEF NotStarted
<1>3. /\ \A i \in Cells(p) : stages[i] = "unseen" /\ at[i] = Absent
      /\ edits' = edits /\ file' = file /\ faults' = faults /\ migration' = migration
      /\ runs' = runs /\ Grows(runs)
    BY DEF Start, outside, tables, Grows
<1> HIDE DEF t, stages, at
<1>4. Accounted(p, t, stages) /\ CellsAreStored(p, t, stages, at, runs)
    BY <1>2, <1>3 DEF Accounted, CellsAreStored
<1> QED
    BY <1>1, <1>2, <1>3, <1>4, SweepTells

LEMMA ClassifyTells ==
    ASSUME LabInv, FilesAreSeen, SweepsAreAccounted, NEW p \in Sweeps,
           Classify(p) \/ LookupFails(p)
    PROVE  FilesAreSeen' /\ SweepsAreAccounted'
<1>1. SweepsOK /\ TablesOK /\ sweep[p].phase = "classify" /\ sweep[p].phase # "idle"
    BY DEF LabInv, Classify, LookupFails, Phase
<1>2. /\ Accounted(p, sweep[p], cell[p]) /\ sweep[p] \in SweepRecords(sweep[p])
    BY <1>1, SweepParts DEF SweepsAreAccounted
<1>3. CASE Classify(p)
    <2>1. PICK i \in With(p, "unseen") :
             /\ hashed' = [hashed EXCEPT ![p][i] =
                          IF file[DatasetOf(p, i)] = Missing THEN Absent ELSE file[DatasetOf(p, i)]]
             /\ Move(p, i, IF Hit(p, i) /\ ~ sweep[p].override THEN "skipped" ELSE "pending")
             /\ sweep' = IF Hit(p, i) /\ sweep[p].override
                           THEN [sweep EXCEPT ![p].again = @ \cup {i}] ELSE sweep
        BY <1>3 DEF Classify, First
    <2> DEFINE c == IF file[DatasetOf(p, i)] = Missing THEN Absent ELSE file[DatasetOf(p, i)]
               stage == IF Hit(p, i) /\ ~ sweep[p].override THEN "skipped" ELSE "pending"
               t == IF Hit(p, i) /\ sweep[p].override
                      THEN [sweep[p] EXCEPT !.again = @ \cup {i}] ELSE sweep[p]
    <2>2. i \in Cells(p) /\ cell[p][i] \notin Ended
        BY <2>1 DEF With, Ended
    <2>3. sweep' = [sweep EXCEPT ![p] = t]
        <3>1. CASE Hit(p, i) /\ sweep[p].override
            BY <2>1, <3>1
        <3>2. CASE ~ (Hit(p, i) /\ sweep[p].override)
            BY <1>1, <2>1, <3>2, SweepFacts
        <3> QED
            BY <3>1, <3>2
    <2>4. /\ t.prepared = sweep[p].prepared /\ t.override = sweep[p].override
          /\ t.summary = sweep[p].summary /\ t.poisoned = sweep[p].poisoned
          /\ t.again \subseteq Cells(p) /\ (t.override \/ t.again = {})
        <3>1. sweep[p].again \subseteq Cells(p) /\ (sweep[p].override \/ sweep[p].again = {})
            BY <1>2 DEF Accounted
        <3>2. CASE Hit(p, i) /\ sweep[p].override
            BY <1>2, <2>2, <3>1, <3>2 DEF SweepRecords
        <3>3. CASE ~ (Hit(p, i) /\ sweep[p].override)
            BY <3>1, <3>3
        <3> QED
            BY <3>2, <3>3
    <2>5. /\ stage # "done"
          /\ stage = "skipped" =>
                ~ sweep[p].override /\ c \in Contents /\ runs[Run(p, i, c)] # Absent
        BY <1>1, <2>2, StageFacts DEF Hit, TablesOK
    <2>6. c \in {Absent, file[DatasetOf(p, i)], hashed[p][i]}
        OBVIOUS
    <2>7. Sets(p, t, [cell[p] EXCEPT ![i] = stage], [hashed[p] EXCEPT ![i] = c], lock[p])
        <3> HIDE DEF t
        <3> QED
            BY <1>1, <1>3, <2>1, <2>3, SweepFacts DEF Classify, Sets, Move
    <2>8. /\ edits' = edits /\ file' = file /\ faults' = faults /\ migration' = migration
          /\ runs' = runs /\ UNCHANGED tables
        BY <1>3 DEF Classify, outside, tables
    <2> HIDE DEF c, stage, t
    <2> QED
        BY <1>1, <2>2, <2>4, <2>5, <2>6, <2>7, <2>8, MoveTells, SMTT(60)
<1>4. CASE LookupFails(p)
    <2>1. PICK i \in With(p, "unseen") : Move(p, i, "pending")
        BY <1>4 DEF LookupFails, First
    <2>2. i \in Cells(p) /\ cell[p][i] \notin Ended
        BY <2>1 DEF With, Ended
    <2> DEFINE c == hashed[p][i]
               t == sweep[p]
    <2>3. Sets(p, t, [cell[p] EXCEPT ![i] = "pending"], [hashed[p] EXCEPT ![i] = c], lock[p])
        <3>1. /\ sweep' = [sweep EXCEPT ![p] = sweep[p]] /\ hashed' = hashed
              /\ lock' = [lock EXCEPT ![p] = lock[p]]
            BY <1>1, <1>4, SweepFacts DEF LookupFails
        <3> QED
            BY <1>1, <2>1, <2>2, <3>1, MoveSets
    <2>4. /\ edits' = edits /\ file' = file /\ faults' = faults + 1 /\ migration' = migration
          /\ runs' = runs /\ UNCHANGED tables
        BY <1>4 DEF LookupFails, tables
    <2>5. /\ t.again \subseteq Cells(p) /\ (t.override \/ t.again = {})
          /\ t.prepared = sweep[p].prepared /\ t.override = sweep[p].override
          /\ t.summary = sweep[p].summary /\ t.poisoned = sweep[p].poisoned
          /\ c \in {Absent, file[DatasetOf(p, i)], hashed[p][i]}
        BY <1>2 DEF Accounted
    <2> HIDE DEF c, t
    <2> QED
        BY <1>1, <2>2, <2>3, <2>4, <2>5, MoveTells, SMTT(60)
<1> QED
    BY <1>3, <1>4

LEMMA RecordStepsTell ==
    ASSUME LabInv, FilesAreSeen, SweepsAreAccounted, NEW p \in Sweeps,
           Classified(p) \/ Prepare(p) \/ Prepared(p) \/ Return(p)
    PROVE  FilesAreSeen' /\ SweepsAreAccounted'
<1>1. SweepsOK /\ TablesOK
    BY DEF LabInv
<1>2. sweep[p] \in SweepRecords(sweep[p])
      /\ sweep[p].prepared \in [Datasets -> Contents \cup {Absent}]
    BY <1>1, SweepParts
<1>3. CASE Classified(p) \/ Prepared(p)
    <2>1. PICK ph \in {"prepare", "run"} : sweep' = [sweep EXCEPT ![p].phase = ph]
        BY <1>3 DEF Classified, Prepared, Goto
    <2> DEFINE t == [sweep[p] EXCEPT !.phase = ph]
    <2>2. /\ sweep' = [sweep EXCEPT ![p] = t] /\ sweep[p].phase # "idle"
          /\ UNCHANGED <<cell, hashed, lock, tables, outside>>
        BY <1>3, <2>1 DEF Classified, Prepared, Phase
    <2>3. /\ t.prepared = sweep[p].prepared /\ t.again = sweep[p].again
          /\ t.override = sweep[p].override /\ t.poisoned = sweep[p].poisoned
          /\ t.summary = sweep[p].summary
        BY <1>2 DEF SweepRecords
    <2> HIDE DEF t
    <2> QED
        BY <2>2, <2>3, RecordTells
<1>4. CASE Prepare(p)
    <2>1. PICK i \in Cells(p) :
            IF CanPrepare(file[DatasetOf(p, i)])
              THEN sweep' = [sweep EXCEPT ![p].prepared[DatasetOf(p, i)] = file[DatasetOf(p, i)]]
              ELSE Goto(p, "idle")
        BY <1>4 DEF Prepare, First, Unprepared, With
    <2> DEFINE d == DatasetOf(p, i)
               t == IF CanPrepare(file[d]) THEN [sweep[p] EXCEPT !.prepared[d] = file[d]]
                                           ELSE [sweep[p] EXCEPT !.phase = "idle"]
    <2>2. d \in Datasets
        BY StageFacts
    <2>3. /\ sweep[p].phase # "idle" /\ sweep' = [sweep EXCEPT ![p] = t]
          /\ UNCHANGED <<cell, hashed, lock, tables, outside>>
        BY <1>4, <2>1 DEF Prepare, Phase, Goto
    <2> HIDE DEF d
    <2>4. /\ \A e \in Datasets : t.prepared[e] \in {Absent, file[e], sweep[p].prepared[e]}
          /\ t.again = sweep[p].again /\ t.override = sweep[p].override
          /\ t.poisoned = sweep[p].poisoned /\ t.summary = sweep[p].summary
        <3>1. CASE CanPrepare(file[d])
            BY <1>2, <2>2, <3>1 DEF SweepRecords
        <3>2. CASE ~ CanPrepare(file[d])
            BY <1>2, <3>2 DEF SweepRecords
        <3> QED
            BY <3>1, <3>2
    <2> HIDE DEF t
    <2> QED
        BY <2>3, <2>4, RecordTells
<1>5. CASE Return(p)
    <2> DEFINE t == [sweep[p] EXCEPT !.phase = "idle", !.summary =
                        IF With(p, "panicked") # {} THEN Null ELSE Summary(p)]
    <2>1. /\ sweep' = [sweep EXCEPT ![p] = t] /\ AllEnded(p)
          /\ UNCHANGED <<cell, hashed, lock, tables, outside>>
        BY <1>5 DEF Return
    <2>2. /\ t.prepared = sweep[p].prepared /\ t.again = sweep[p].again
          /\ t.override = sweep[p].override /\ t.poisoned = sweep[p].poisoned
          /\ t.phase = "idle"
          /\ t.summary = IF With(p, "panicked") # {} THEN Null ELSE Summary(p)
        BY <1>2 DEF SweepRecords
    <2> HIDE DEF t
    <2>3. CASE With(p, "panicked") # {}
        BY <2>1, <2>2, <2>3, RecordTells
    <2>4. CASE With(p, "panicked") = {}
        <3>1. \A i \in Cells(p) : cell[p][i] \in {"skipped", "done", "failed"}
            BY <2>1, <2>4 DEF AllEnded, Ended, With
        <3>2. Summary(p) = Counts(p, t, cell[p])
            <4>1. \A stage : With(p, stage) = EndingIn(p, cell[p], stage)
                BY DEF With, EndingIn
            <4> QED
                BY <2>2, <4>1 DEF Summary, Counts
        <3>3. t.summary = Counts(p, t, cell[p])
            BY <2>2, <2>4, <3>2
        <3> QED
            BY <2>1, <2>2, <3>1, <3>3, RecordTells
    <2> QED
        BY <2>3, <2>4
<1> QED
    BY <1>3, <1>4, <1>5

LEMMA KillTells ==
    ASSUME LabInv, FilesAreSeen, SweepsAreAccounted, NEW p \in Sweeps, Kill(p)
    PROVE  FilesAreSeen' /\ SweepsAreAccounted'
<1> DEFINE t == [sweep[p] EXCEPT !.phase = "idle"]
           stages == [i \in Cells(p) |-> IF cell[p][i] \in Ended THEN cell[p][i] ELSE "failed"]
<1>1. SweepsOK /\ sweep[p].phase # "idle"
    BY DEF LabInv, Kill
<1>2. /\ sweep[p] \in SweepRecords(sweep[p])
      /\ Accounted(p, sweep[p], cell[p])
      /\ CellsAreStored(p, sweep[p], cell[p], hashed[p], runs)
    BY <1>1, SweepParts DEF SweepsAreAccounted
<1>3. Sets(p, t, stages, hashed[p], 0)
    BY <1>1, SweepFacts DEF Kill, Goto, Release, Sets
<1>4. /\ t.prepared = sweep[p].prepared /\ t.again = sweep[p].again
      /\ t.override = sweep[p].override /\ t.poisoned = sweep[p].poisoned
      /\ t.summary = sweep[p].summary
    BY <1>2 DEF SweepRecords
<1>5. \A i \in Cells(p) : /\ cell[p][i] \in Ended => stages[i] = cell[p][i]
                          /\ cell[p][i] \notin Ended => stages[i] = "failed"
    OBVIOUS
<1> HIDE DEF t, stages
<1>6. Accounted(p, t, stages)
    <2>1. sweep[p].summary = Null
        BY <1>1, <1>2 DEF Accounted
    <2>2. sweep[p].poisoned => \E i \in Cells(p) : stages[i] = "panicked"
        BY <1>2, <1>5 DEF Accounted, Ended
    <2>3. sweep[p].override => \A i \in Cells(p) : stages[i] # "skipped"
        BY <1>2, <1>5 DEF Accounted
    <2> QED
        BY <1>2, <1>4, <2>1, <2>2, <2>3 DEF Accounted
<1>7. CellsAreStored(p, t, stages, hashed[p], runs)
    BY <1>2, <1>4, <1>5 DEF CellsAreStored
<1>8. /\ edits' = edits /\ file' = file /\ faults' = faults + 1 /\ migration' = migration
      /\ runs' = runs /\ Grows(runs)
    BY DEF Kill, tables, Grows
<1> QED
    BY <1>3, <1>4, <1>6, <1>7, <1>8, SweepTells

(* A cell on a thread moves on. *)
LEMMA StageTells ==
    ASSUME LabInv, FilesAreSeen, SweepsAreAccounted, [NothingIsLost]_tables,
           NEW p \in Sweeps, NEW i \in Cells(p), sweep[p].phase = "run",
           cell[p][i] \notin Ended,
           NEW stage, stage # "skipped", Move(p, i, stage),
           NEW t, sweep' = [sweep EXCEPT ![p] = t],
           NEW c, hashed' = [hashed EXCEPT ![p] = [hashed[p] EXCEPT ![i] = c]],
           NEW holder, lock' = [lock EXCEPT ![p] = holder],
           edits' = edits, file' = file, faults' \in {faults, faults + 1}, migration' = migration,
           c \in {Absent, file[DatasetOf(p, i)], hashed[p][i]},
           t.prepared = sweep[p].prepared, t.override = sweep[p].override,
           t.summary = sweep[p].summary, t.again = sweep[p].again,
           sweep[p].poisoned => t.poisoned,
           t.poisoned => sweep[p].poisoned \/ stage = "panicked",
           NEW table, table = runs',
           stage = "done" /\ ~ t.poisoned => c \in Contents /\ Stored(Run(p, i, c), table)
    PROVE  FilesAreSeen' /\ SweepsAreAccounted'
<1>1. Sets(p, t, [cell[p] EXCEPT ![i] = stage], [hashed[p] EXCEPT ![i] = c], holder)
    BY DEF Sets, Move
<1>2. t.again \subseteq Cells(p) /\ (t.override \/ t.again = {})
    BY DEF SweepsAreAccounted, Accounted
<1>3. sweep[p].phase # "idle"
    OBVIOUS
<1> QED
    BY <1>1, <1>2, <1>3, MoveTells

LEMMA KeepsHashed ==
    ASSUME SweepsOK, NEW p \in Sweeps, NEW i \in Cells(p), hashed' = hashed
    PROVE  hashed' = [hashed EXCEPT ![p] = [hashed[p] EXCEPT ![i] = hashed[p][i]]]
BY SweepFacts, CellsFacts

(* Any step of a cell but one that stores. *)
LEMMA CellTells ==
    ASSUME LabInv, FilesAreSeen, SweepsAreAccounted, NEW p \in Sweeps, NEW i \in Cells(p),
           BeginCell(p, i) \/ Identify(p, i) \/ Lookup(p, i) \/ StoreFails(p, i) \/ Panic(p, i)
    PROVE  FilesAreSeen' /\ SweepsAreAccounted'
<1>1. SweepsOK /\ runs' = runs /\ UNCHANGED tables
    BY DEF LabInv, BeginCell, Identify, Lookup, StoreFails, Panic, tables
<1>2. sweep[p].phase = "run" /\ cell[p][i] \notin Ended
    BY ResultFacts DEF BeginCell, Phase, Identify, Lookup, StoreFails, Panic, Working, Ended
<1>3. edits' = edits /\ file' = file /\ faults' \in {faults, faults + 1} /\ migration' = migration
    BY DEF BeginCell, Identify, Lookup, StoreFails, Panic, outside
<1>4. /\ sweep[p] \in SweepRecords(sweep[p])
      /\ sweep = [sweep EXCEPT ![p] = sweep[p]] /\ lock = [lock EXCEPT ![p] = lock[p]]
    BY <1>1, SweepParts, SweepFacts
<1>5. hashed' = hashed => hashed' = [hashed EXCEPT ![p] = [hashed[p] EXCEPT ![i] = hashed[p][i]]]
    BY <1>1, KeepsHashed
<1> DEFINE c == hashed[p][i]
           s == sweep[p]
<1>6. ASSUME NEW stage, stage # "skipped", stage = "done" => s.poisoned, Move(p, i, stage),
             NEW v \in {Absent, file[DatasetOf(p, i)], hashed[p][i]},
             hashed' = [hashed EXCEPT ![p] = [hashed[p] EXCEPT ![i] = v]],
             sweep' = sweep, NEW holder, lock' = [lock EXCEPT ![p] = holder]
      PROVE  FilesAreSeen' /\ SweepsAreAccounted'
    <2>1. sweep' = [sweep EXCEPT ![p] = s] /\ s = sweep[p]
        BY <1>4, <1>6
    <2> HIDE DEF s
    <2> QED
        BY <1>1, <1>2, <1>3, <1>6, <2>1, StageTells
<1>7. CASE BeginCell(p, i)
    <2>1. Move(p, i, "running") /\ hashed' = hashed /\ sweep' = sweep
          /\ lock' = [lock EXCEPT ![p] = lock[p]]
        BY <1>4, <1>7 DEF BeginCell
    <2> QED
        BY <1>5, <1>6, <2>1
<1>8. CASE Identify(p, i)
    <2> DEFINE at == file[DatasetOf(p, i)]
    <2>1. sweep' = sweep /\ lock' = [lock EXCEPT ![p] = lock[p]]
        BY <1>4, <1>8 DEF Identify
    <2>2. CASE HashOf(p, i) = NoSchedule \/ at = Missing
        <3>1. Move(p, i, "failed") /\ hashed' = hashed
            BY <1>8, <2>2 DEF Identify
        <3> QED
            BY <1>5, <1>6, <2>1, <3>1
    <2>3. CASE ~ (HashOf(p, i) = NoSchedule \/ at = Missing)
        <3>1. Move(p, i, "storing") /\ hashed' = [hashed EXCEPT ![p][i] = at]
            BY <1>8, <2>3 DEF Identify
        <3>2. hashed' = [hashed EXCEPT ![p] = [hashed[p] EXCEPT ![i] = at]]
            BY <3>1
        <3> QED
            BY <1>6, <2>1, <3>1, <3>2
    <2> QED
        BY <2>2, <2>3
<1>9. CASE Lookup(p, i)
    <2>1. hashed' = hashed /\ sweep' = sweep
        BY <1>9 DEF Lookup
    <2>2. CASE sweep[p].poisoned /\ Move(p, i, "done") /\ lock' = lock
        <3>1. lock' = [lock EXCEPT ![p] = lock[p]]
            BY <1>4, <2>2
        <3> QED
            BY <1>5, <1>6, <2>1, <2>2, <3>1
    <2>3. CASE Move(p, i, "failed") /\ lock' = lock
        <3>1. lock' = [lock EXCEPT ![p] = lock[p]]
            BY <1>4, <2>3
        <3> QED
            BY <1>5, <1>6, <2>1, <2>3, <3>1
    <2>4. CASE Move(p, i, "committing") /\ lock' = [lock EXCEPT ![p] = i]
        BY <1>5, <1>6, <2>1, <2>4
    <2> QED
        BY <1>9, <2>2, <2>3, <2>4 DEF Lookup
<1>10. CASE StoreFails(p, i)
    <2>1. Move(p, i, "failed") /\ hashed' = hashed /\ sweep' = sweep
          /\ lock' = [lock EXCEPT ![p] = 0]
        BY <1>10 DEF StoreFails, Release
    <2> QED
        BY <1>5, <1>6, <2>1
<1>11. CASE Panic(p, i)
    <2> DEFINE t == [sweep[p] EXCEPT !.poisoned = @ \/ lock[p] = i]
               holder == IF lock[p] = i THEN 0 ELSE lock[p]
    <2>1. /\ sweep' = [sweep EXCEPT ![p] = t] /\ Move(p, i, "panicked") /\ hashed' = hashed
          /\ lock' = [lock EXCEPT ![p] = holder]
        BY <1>11 DEF Panic
    <2>2. /\ t.prepared = sweep[p].prepared /\ t.again = sweep[p].again
          /\ t.override = sweep[p].override /\ t.summary = sweep[p].summary
          /\ sweep[p].poisoned => t.poisoned
        BY <1>4 DEF SweepRecords
    <2>3. hashed' = [hashed EXCEPT ![p] = [hashed[p] EXCEPT ![i] = c]]
        BY <1>5, <2>1
    <2>4. c \in {Absent, file[DatasetOf(p, i)], hashed[p][i]}
        OBVIOUS
    <2> HIDE DEF c, t, holder
    <2> QED
        BY <1>1, <1>2, <1>3, <2>1, <2>2, <2>3, <2>4, StageTells
<1> QED
    BY <1>7, <1>8, <1>9, <1>10, <1>11

(* A cell that ends its transaction has stored its row, or has failed. *)
LEMMA CommitTells ==
    ASSUME LabInv, FilesAreSeen, SweepsAreAccounted, NEW p \in Sweeps, NEW i \in Cells(p),
           Commit(p, i)
    PROVE  FilesAreSeen' /\ SweepsAreAccounted'
<1>1. /\ SweepsOK /\ cell[p][i] = "committing" /\ hashed' = hashed /\ sweep' = sweep
      /\ lock' = [lock EXCEPT ![p] = 0]
      /\ edits' = edits /\ file' = file /\ faults' = faults /\ migration' = migration
    BY DEF LabInv, Commit, Release, outside
<1>2. sweep[p].phase = "run" /\ cell[p][i] \notin Ended
    BY <1>1, ResultFacts DEF Working, Ended
<1> DEFINE c == hashed[p][i]
           s == sweep[p]
           table == runs'
<1>3. sweep' = [sweep EXCEPT ![p] = s]
      /\ hashed' = [hashed EXCEPT ![p] = [hashed[p] EXCEPT ![i] = c]]
    BY <1>1, SweepFacts, KeepsHashed
<1>4. NothingIsLost
    BY CommitKeeps
<1>5. PICK stage \in {"done", "failed"} :
         /\ Move(p, i, stage)
         /\ stage = "done" => runs' = UpsertRow(p, i)
    BY DEF Commit
<1>6. stage = "done" => c \in Contents /\ Stored(Run(p, i, c), table)
    <2>1. c \in Contents /\ HashOf(p, i) \in Hashes /\ ResultOf(p, i) \in Keys
        BY <1>1, ResultFacts DEF Working
    <2>2. Run(p, i, c) \in Keys /\ KeyOf(p, i) = Run(p, i, c)
        BY <2>1, RunIsKey DEF KeyOf
    <2>3. stage = "done" => runs' = [runs EXCEPT ![Run(p, i, c)] = NewRow(p, i)]
        BY <1>5, <2>2 DEF UpsertRow
    <2>4. /\ NewRow(p, i) \in Rows
          /\ NewRow(p, i).hash \in Hashes /\ NewRow(p, i).metadata \in Keys
        BY <2>1 DEF NewRow, Rows
    <2>5. runs \in [Keys -> Rows \cup {Absent}]
        BY DEF LabInv, TablesOK
    <2> HIDE DEF c
    <2>6. stage = "done" => table[Run(p, i, c)] = NewRow(p, i)
        BY <2>2, <2>3, <2>5
    <2> QED
        BY <2>1, <2>4, <2>6, AbsentIsNothing, LabConstants DEF Stored
<1>7. c \in {Absent, file[DatasetOf(p, i)], hashed[p][i]} /\ s = sweep[p] /\ table = runs'
    OBVIOUS
<1> HIDE DEF c, s, table
<1> QED
    BY <1>1, <1>2, <1>3, <1>4, <1>5, <1>6, <1>7, StageTells

-----------------------------------------------------------------------------
(* What the rows and the bodies tell *)

OneRun(k, r) ==
    /\ r.hash # Null => r.hash = outcome[r.metrics.content][r.metrics.config]
    /\ r.metrics.dataset = k.dataset /\ r.metrics.config = k.config
    /\ edits = 0 => r.metrics = k /\ r.metadata \in {k, Null}

LEMMA RowsTell ==
    ASSUME RowIsOfOneRun, outcome' = outcome, edits' = edits, Migrated => Migrated',
           NEW table, table = runs',
           \A k \in Keys : table[k] # Absent =>
              \/ table[k] = runs[k]
              \/ /\ OneRun(k, table[k])
                 /\ table[k].metadata = table[k].metrics \/ Migrated'
    PROVE  RowIsOfOneRun'
<1> SUFFICES ASSUME NEW k \in Keys, table[k] # Absent
             PROVE  /\ OneRun(k, table[k])
                    /\ table[k].metadata # Null /\ ~ Migrated' => table[k].metadata = table[k].metrics
    BY DEF RowIsOfOneRun, OneRun
<1>1. CASE table[k] = runs[k]
    BY <1>1 DEF RowIsOfOneRun, OneRun
<1>2. CASE table[k] # runs[k]
    BY <1>2
<1> QED
    BY <1>1, <1>2

(* A migration that has begun leaves a trace. *)
LEMMA MigratedStays ==
    ASSUME MigrationOK, FilesAreSeen, Migrated,
           \/ migration' = migration /\ faults' \in {faults, faults + 1}
           \/ StartMigration \/ MigrationSteps \/ KillMigration
    PROVE  Migrated'
<1>1. faults \in Nat
    BY DEF FilesAreSeen
<1>2. CASE migration' = migration /\ faults' \in {faults, faults + 1}
    BY <1>1, <1>2 DEF Migrated, NotMigrating
<1>3. CASE \/ StartMigration \/ FillRow \/ TakeBodies \/ (\E k \in Keys : CheckRow(k))
           \/ (\E h \in Hashes : StripBody(h))
    <2>1. migration'.at \in {"backfill", "strip"}
        BY <1>3 DEF MigrationOK, MigrationRecords, StartMigration, NotMigrating, FillRow, TakeBodies, CheckRow,
                    StripBody
    <2> QED
        BY <2>1 DEF Migrated, NotMigrating
<1>4. CASE EndMigration
    <2>1. migration'.ended
        BY <1>4 DEF EndMigration, NotMigrating
    <2> QED
        BY <2>1 DEF Migrated, NotMigrating
<1>5. CASE KillMigration
    BY <1>1, <1>5 DEF KillMigration, Migrated
<1> QED
    BY <1>2, <1>3, <1>4, <1>5 DEF MigrationSteps

(* A step that leaves the tables alone. *)
LEMMA QuietRecords ==
    ASSUME RowIsOfOneRun, BodiesAreOfRows, UNCHANGED tables, outcome' = outcome,
           edits' = edits, Migrated => Migrated'
    PROVE  RowIsOfOneRun' /\ BodiesAreOfRows'
<1>1. runs' = runs /\ schedules' = schedules
    BY DEF tables
<1>2. RowIsOfOneRun'
    BY <1>1, RowsTell
<1>3. BodiesAreOfRows'
    BY <1>1 DEF BodiesAreOfRows, OrphanBodies
<1> QED
    BY <1>2, <1>3

(* Until a file is edited, the run a cell stores is the one its key names. *)
LEMMA ResultIsOfKey ==
    ASSUME LabInv, FilesAreSeen, NEW p \in Sweeps, NEW i \in Cells(p),
           cell[p][i] = "committing"
    PROVE  /\ KeyOf(p, i) \in Keys /\ ResultOf(p, i) \in Keys
           /\ KeyOf(p, i).content = hashed[p][i]
           /\ ResultOf(p, i).dataset = KeyOf(p, i).dataset
           /\ ResultOf(p, i).config = KeyOf(p, i).config
           /\ edits = 0 => ResultOf(p, i) = KeyOf(p, i)
<1>1. hashed[p][i] \in Contents /\ Result(sweep[p], p, i) \in Contents
    BY ResultFacts DEF Working
<1>2. DatasetOf(p, i) \in Datasets
    BY StageFacts
<1>3. edits = 0 => hashed[p][i] = Result(sweep[p], p, i)
    BY <1>1, <1>2, AbsentIsNothing DEF FilesAreSeen, Result
<1>4. KeyOf(p, i) = Run(p, i, hashed[p][i]) /\ ResultOf(p, i) = Run(p, i, Result(sweep[p], p, i))
    BY DEF KeyOf, ResultOf, Result
<1>5. \A c \in Contents : Run(p, i, c) \in Keys /\ Run(p, i, c).content = c
    BY RunIsKey
<1>6. \A c \in Contents : /\ Run(p, i, c).dataset = DatasetOf(p, i)
                          /\ Run(p, i, c).config = CellsOf[p][i].config
    BY DEF Run
<1> QED
    BY <1>1, <1>3, <1>4, <1>5, <1>6

(* A stored row is of one run; the row it replaces, if any, had the same   *)
(* schedule, so that no body loses its row. *)
LEMMA CommitRecords ==
    ASSUME LabInv, FilesAreSeen, RowIsOfOneRun, BodiesAreOfRows,
           NEW p \in Sweeps, NEW i \in Cells(p), cell[p][i] = "committing",
           outcome' = outcome, edits' = edits, faults' = faults, migration' = migration,
           schedules' = InsertSchedule(p, i), runs' = UpsertRow(p, i)
    PROVE  RowIsOfOneRun' /\ BodiesAreOfRows'
<1> DEFINE k == KeyOf(p, i)
           run == ResultOf(p, i)
           h == HashOf(p, i)
           row == NewRow(p, i)
           body == Body(p, i)
<1>1. /\ k \in Keys /\ run \in Keys /\ run.dataset = k.dataset /\ run.config = k.config
      /\ edits = 0 => run = k
      /\ k.content = hashed[p][i]
    BY ResultIsOfKey
<1>2. /\ h \in Hashes /\ h = outcome[run.content][run.config] /\ h # Null
    BY ResultFacts, LabConstants DEF HashOf, Working
<1>3. /\ row.hash = h /\ row.metadata = run /\ row.metrics = run
      /\ body.owner = hashed[p][i] /\ body.raw = run.content
    BY DEF NewRow, Body
<1>4. runs \in [Keys -> Rows \cup {Absent}] /\ schedules \in [Hashes -> Bodies \cup {Absent}]
    BY DEF LabInv, TablesOK
<1>5. /\ schedules' = IF schedules[h] = Absent THEN [schedules EXCEPT ![h] = body] ELSE schedules
      /\ runs' = [runs EXCEPT ![k] = row]
    BY DEF InsertSchedule, UpsertRow
<1> DEFINE table == runs'
           bodies == schedules'
<1> HIDE DEF k, run, h, row, body
<1>6. /\ table[k] = row /\ \A l \in Keys \ {k} : table[l] = runs[l]
      /\ \A g \in Hashes : bodies[g] = schedules[g] \/ (g = h /\ bodies[g] = body)
    BY <1>1, <1>2, <1>4, <1>5
<1>7. table = runs' /\ bodies = schedules'
    OBVIOUS
<1> HIDE DEF table, bodies
<1>8. OneRun(k, row)
    BY <1>1, <1>2, <1>3 DEF OneRun
<1>9. RowIsOfOneRun'
    <2>1. Migrated => Migrated'
        BY DEF Migrated, NotMigrating
    <2>2. \A l \in Keys : table[l] # Absent =>
             table[l] = runs[l] \/ (OneRun(l, table[l]) /\ table[l].metadata = table[l].metrics)
        BY <1>3, <1>6, <1>8
    <2> QED
        BY <1>7, <2>1, <2>2, RowsTell
<1>10. ASSUME edits = 0, NEW g \in Hashes, bodies[g] # Absent
       PROVE  /\ bodies[g].raw = bodies[g].owner
              /\ \E l \in Keys : table[l] # Absent /\ table[l].hash = g
    <2>1. row \in Rows
        BY <1>1, <1>2 DEF row, NewRow, Rows, run, h
    <2>2. row # Absent
        BY <2>1, AbsentIsNothing
    <2>3. CASE g = h
        <3>1. table[k] # Absent /\ table[k].hash = g
            BY <1>3, <1>6, <2>2, <2>3
        <3>2. bodies[g].raw = bodies[g].owner
            BY <1>1, <1>3, <1>6, <1>10 DEF BodiesAreOfRows
        <3> QED
            BY <1>1, <3>1, <3>2
    <2>4. CASE g # h
        <3>1. bodies[g] = schedules[g] /\ schedules[g] # Absent
            BY <1>6, <1>10, <2>4
        <3>2. schedules[g].raw = schedules[g].owner
            BY <1>10, <3>1 DEF BodiesAreOfRows
        <3>3. PICK l \in Keys : runs[l] # Absent /\ runs[l].hash = g
            BY <1>10, <3>1 DEF BodiesAreOfRows, OrphanBodies
        <3>4. g # Null
            BY LabConstants
        <3>5. g = outcome[l.content][l.config]
            BY <1>10, <3>3, <3>4 DEF RowIsOfOneRun
        <3>6. l # k
            BY <1>1, <1>2, <1>10, <2>4, <3>5
        <3>7. table[l] # Absent /\ table[l].hash = g
            BY <1>6, <3>3, <3>6
        <3> QED
            BY <3>1, <3>2, <3>7
    <2> QED
        BY <2>3, <2>4
<1>11. BodiesAreOfRows'
    BY <1>7, <1>10 DEF BodiesAreOfRows, OrphanBodies
<1> QED
    BY <1>9, <1>11

LEMMA FillRowRecords ==
    ASSUME LabInv, FilesAreSeen, RowIsOfOneRun, BodiesAreOfRows, FillRow
    PROVE  RowIsOfOneRun' /\ BodiesAreOfRows'
<1> DEFINE k == migration.row
           c == file[k.dataset]
           table == runs'
<1>1. /\ k \in Keys /\ schedules' = schedules /\ outcome' = outcome /\ edits' = edits
      /\ Migrated /\ MigrationOK
    BY MigrationFacts DEF FillRow, untouched, LabInv, Migrated, NotMigrating
<1>2. Migrated'
    BY <1>1, MigratedStays DEF MigrationSteps
<1>3. runs[k] # Absent /\ runs \in [Keys -> Rows \cup {Absent}]
    BY <1>1 DEF LabInv, MigrationOK, TablesOK, FillRow
<1>4. runs[k] \in Rows
    BY <1>1, <1>3
<1>5. CASE runs' = [runs EXCEPT ![k].metadata = [k EXCEPT !.content = c]]
    <2> DEFINE row == [runs[k] EXCEPT !.metadata = [k EXCEPT !.content = c]]
    <2>1. /\ row.hash = runs[k].hash /\ row.metrics = runs[k].metrics
          /\ row.metadata = [k EXCEPT !.content = c]
        BY <1>4 DEF Rows
    <2>2. edits = 0 => [k EXCEPT !.content = c] = k
        <3>1. edits = 0 => c = k.content
            BY DEF FilesAreSeen, FillRow
        <3> QED
            BY <1>1, <3>1 DEF Keys
    <2>3. OneRun(k, row)
        BY <1>1, <1>3, <2>1, <2>2 DEF RowIsOfOneRun, OneRun
    <2>4. table[k] = row /\ \A l \in Keys \ {k} : table[l] = runs[l]
        BY <1>1, <1>3, <1>5
    <2>5. table = runs'
        OBVIOUS
    <2> HIDE DEF row, table, k, c
    <2>6. RowIsOfOneRun'
        BY <1>1, <1>2, <2>3, <2>4, <2>5, RowsTell
    <2>7. \A l \in Keys : runs[l] # Absent =>
            table[l] # Absent /\ table[l].hash = runs[l].hash
        <3>1. row # Absent
            <4>1. runs[k] \in Rows /\ NothingIsLost
                BY <1>4, FillRowKeeps
            <4> QED
                BY <1>1, <1>3, <2>4, <2>5, <4>1 DEF NothingIsLost
        <3> QED
            BY <2>1, <2>4, <3>1
    <2>8. BodiesAreOfRows'
        BY <1>1, <2>5, <2>7 DEF BodiesAreOfRows, OrphanBodies
    <2> QED
        BY <2>6, <2>8
<1>6. CASE runs' = runs
    <2>1. UNCHANGED tables
        BY <1>1, <1>6 DEF tables
    <2> QED
        BY <1>1, <1>2, <2>1, QuietRecords
<1> QED
    BY <1>5, <1>6 DEF FillRow

LEMMA StripBodyRecords ==
    ASSUME LabInv, FilesAreSeen, RowIsOfOneRun, BodiesAreOfRows, NEW h \in Hashes, StripBody(h)
    PROVE  /\ RowIsOfOneRun' /\ BodiesAreOfRows'
           /\ \A g \in Hashes : schedules[g] = Absent => schedules'[g] = Absent
<1>1. /\ runs' = runs /\ outcome' = outcome /\ edits' = edits /\ MigrationOK
      /\ migration.at = "strip" /\ MigrationSteps /\ Migrated
    <2>1. migration.at = "strip" /\ MigrationSteps
        BY DEF StripBody, MigrationSteps
    <2>2. Migrated
        BY <2>1 DEF Migrated, NotMigrating
    <2> QED
        BY <2>1, <2>2 DEF StripBody, untouched, LabInv
<1>2. Migrated'
    BY <1>1, MigratedStays
<1> DEFINE table == runs'
           bodies == schedules'
<1>3. table = runs /\ bodies = schedules'
    BY <1>1
<1>4. RowIsOfOneRun'
    BY <1>1, <1>2, RowsTell
<1>5. \A g \in Hashes :
         /\ schedules[g] # Absent => bodies[g] \in {schedules[g], [schedules[g] EXCEPT !.embedded = Null]}
         /\ schedules[g] = Absent => bodies[g] = Absent
    <2>1. NothingIsLost
        BY StripBodyKeeps
    <2>2. schedules[h] # Absent
        <3>1. migration.taken[h] \in Bodies
            BY <1>1, MigrationFacts DEF StripBody
        <3>2. Stripped(migration.taken[h]) \in Bodies
            BY <3>1 DEF Bodies, Stripped
        <3> QED
            BY <1>1, <3>1, <3>2, AbsentIsNothing DEF MigrationOK, StripBody
    <2>3. \A g \in Hashes \ {h} : bodies[g] = schedules[g]
        BY DEF StripBody, LabInv, TablesOK
    <2> QED
        BY <2>1, <2>2, <2>3 DEF NothingIsLost
<1>6. \A g \in Hashes : bodies[g] # Absent =>
         /\ schedules[g] # Absent
         /\ bodies[g].raw = schedules[g].raw /\ bodies[g].owner = schedules[g].owner
    <2>1. ASSUME NEW g \in Hashes, bodies[g] # Absent
          PROVE  /\ schedules[g] # Absent
                 /\ bodies[g].raw = schedules[g].raw /\ bodies[g].owner = schedules[g].owner
        <3>1. schedules[g] # Absent /\ schedules[g] \in Bodies \cup {Absent}
            BY <1>5, <2>1 DEF LabInv, TablesOK
        <3>2. bodies[g] \in {schedules[g], [schedules[g] EXCEPT !.embedded = Null]}
            BY <1>5, <3>1
        <3> QED
            BY <3>1, <3>2 DEF Bodies
    <2> QED
        BY <2>1
<1> HIDE DEF bodies
<1>7. BodiesAreOfRows'
    BY <1>1, <1>3, <1>6 DEF BodiesAreOfRows, OrphanBodies
<1> QED
    BY <1>3, <1>4, <1>5, <1>7

-----------------------------------------------------------------------------
(* How far a migration has come *)

LEMMA WayFrame ==
    ASSUME MigrationIsOnItsWay, migration' = migration,
           edits' = 0 => edits = 0 /\ file' = file,
           NEW table, table = runs', NEW bodies, bodies = schedules',
           \A h \in Hashes : bodies[h] # Absent =>
              bodies[h] = schedules[h] \/ bodies[h].embedded = Null,
           \A k \in Keys : table[k] # Absent /\ table[k].hash # Null /\ table[k].metadata = Null =>
              k \in Unlabelled
    PROVE  MigrationIsOnItsWay'
<1>1. Unlabelled' \subseteq Unlabelled
    BY DEF Unlabelled
<1>2. edits' = 0 => \A k \in Unlabelled' : k \in Unlabelled /\ (Hopeless(k) => Hopeless(k)')
    BY <1>1 DEF Hopeless
<1>3. migration'.row # Null => migration'.at = "backfill" /\ migration'.row \in migration'.rows
    BY DEF MigrationIsOnItsWay
<1>4. migration'.at = "strip" =>
          \A h \in Hashes : bodies[h] # Absent /\ migration'.taken[h] = Absent =>
             bodies[h].embedded = Null
    BY DEF MigrationIsOnItsWay
<1>5. migration'.ended =>
          /\ migration'.at = "idle"
          /\ \A h \in Hashes : bodies[h] # Absent => bodies[h].embedded = Null
    BY DEF MigrationIsOnItsWay
<1>6. edits' = 0 =>
         /\ migration'.at = "backfill" =>
               \A k \in Unlabelled' : k \in migration'.rows \/ Hopeless(k)'
         /\ migration'.at = "strip" \/ migration'.ended => \A k \in Unlabelled' : Hopeless(k)'
    BY <1>2 DEF MigrationIsOnItsWay
<1> QED
    BY <1>3, <1>4, <1>5, <1>6 DEF MigrationIsOnItsWay

LEMMA QuietWay ==
    ASSUME MigrationIsOnItsWay, migration' = migration, UNCHANGED tables,
           edits' = 0 => edits = 0 /\ file' = file
    PROVE  MigrationIsOnItsWay'
BY WayFrame DEF tables, Unlabelled

(* What a sweep stores has nothing embedded and needs no metadata. *)
LEMMA CommitWay ==
    ASSUME LabInv, FilesAreSeen, MigrationIsOnItsWay,
           NEW p \in Sweeps, NEW i \in Cells(p), cell[p][i] = "committing",
           edits' = edits, file' = file, migration' = migration,
           schedules' = InsertSchedule(p, i), runs' = UpsertRow(p, i)
    PROVE  MigrationIsOnItsWay'
<1> DEFINE k == KeyOf(p, i)
           h == HashOf(p, i)
           row == NewRow(p, i)
           body == Body(p, i)
           table == runs'
           bodies == schedules'
<1>1. k \in Keys /\ ResultOf(p, i) \in Keys /\ h \in Hashes
    BY ResultIsOfKey, ResultFacts DEF Working
<1>2. row.metadata # Null /\ body.embedded = Null
    BY <1>1, AbsentIsNothing DEF NewRow, Body
<1>3. runs \in [Keys -> Rows \cup {Absent}] /\ schedules \in [Hashes -> Bodies \cup {Absent}]
    BY DEF LabInv, TablesOK
<1>4. /\ schedules' = IF schedules[h] = Absent THEN [schedules EXCEPT ![h] = body] ELSE schedules
      /\ runs' = [runs EXCEPT ![k] = row]
    BY DEF InsertSchedule, UpsertRow
<1> HIDE DEF k, h, row, body
<1>5. /\ table[k] = row /\ \A l \in Keys \ {k} : table[l] = runs[l]
      /\ \A g \in Hashes : bodies[g] = schedules[g] \/ bodies[g] = body
    BY <1>1, <1>3, <1>4
<1>6. table = runs' /\ bodies = schedules'
    OBVIOUS
<1> HIDE DEF table, bodies
<1>7. \A l \in Keys : table[l] # Absent /\ table[l].hash # Null /\ table[l].metadata = Null =>
         l \in Unlabelled
    BY <1>2, <1>5 DEF Unlabelled
<1> QED
    BY <1>2, <1>5, <1>6, <1>7, WayFrame

LEMMA MigrationWay ==
    ASSUME LabInv, FilesAreSeen, MigrationIsOnItsWay,
           StartMigration \/ MigrationSteps \/ KillMigration
    PROVE  MigrationIsOnItsWay' /\ FilesAreSeen'
<1>1. /\ MigrationOK /\ file' = file /\ edits' = edits /\ sweep' = sweep /\ hashed' = hashed
      /\ faults' \in {faults, faults + 1}
    BY DEF LabInv, StartMigration, MigrationSteps, KillMigration, CheckRow, FillRow, TakeBodies,
           StripBody, EndMigration, untouched
<1>2. FilesAreSeen'
    <2>1. edits = 0 /\ migration'.row # Null => file[migration'.row.dataset] = migration'.row.content
        <3>1. CASE \E k \in Keys : CheckRow(k)
            BY <1>1, <3>1 DEF CheckRow, FilesAreSeen, MigrationOK, MigrationRecords
        <3>2. CASE ~ \E k \in Keys : CheckRow(k)
            <4>1. migration'.row \in {Null, migration.row}
                <5>1. CASE StartMigration \/ EndMigration \/ KillMigration
                    <6>1. StartMigration => migration'.row = Null
                        BY DEF StartMigration, NotMigrating
                    <6>2. EndMigration => migration'.row = Null
                        BY DEF EndMigration, NotMigrating
                    <6>3. KillMigration => migration'.row = Null
                        BY DEF KillMigration, NotMigrating
                    <6> QED
                        BY <5>1, <6>1, <6>2, <6>3
                <5>2. CASE FillRow
                    BY <1>1, <5>2 DEF FillRow, MigrationOK, MigrationRecords
                <5>3. CASE TakeBodies \/ \E h \in Hashes : StripBody(h)
                    BY <1>1, <5>3 DEF TakeBodies, StripBody, MigrationOK, MigrationRecords
                <5> QED
                    BY <3>2, <5>1, <5>2, <5>3 DEF MigrationSteps
            <4> QED
                BY <4>1 DEF FilesAreSeen
        <3> QED
            BY <3>1, <3>2
    <2> QED
        BY <1>1, <2>1 DEF FilesAreSeen
<1>3. /\ \A k : Hopeless(k)' = Hopeless(k)
    BY <1>1 DEF Hopeless
<1>4. CASE StartMigration
    <2>1. /\ migration'.at = "backfill" /\ migration'.rows = Unlabelled /\ migration'.row = Null
          /\ ~ migration'.ended
        BY <1>4 DEF StartMigration, NotMigrating
    <2>2. Unlabelled' = Unlabelled
        BY <1>4 DEF StartMigration, tables, Unlabelled
    <2> QED
        BY <1>2, <2>1, <2>2 DEF MigrationIsOnItsWay
<1>5. CASE EndMigration
    <2>1. /\ migration'.at = "idle" /\ migration'.row = Null
        BY <1>5 DEF EndMigration, NotMigrating
    <2>2. /\ schedules' = schedules /\ Unlabelled' = Unlabelled /\ migration.at = "strip"
          /\ \A h \in Hashes : migration.taken[h] = Absent
        BY <1>5 DEF EndMigration, tables, Unlabelled
    <2>3. \A h \in Hashes : schedules[h] # Absent => schedules[h].embedded = Null
        BY <2>2 DEF MigrationIsOnItsWay
    <2>4. edits = 0 => \A k \in Unlabelled : Hopeless(k)
        BY <2>2 DEF MigrationIsOnItsWay
    <2> QED
        BY <1>1, <1>2, <1>3, <2>1, <2>2, <2>3, <2>4 DEF MigrationIsOnItsWay
<1>6. CASE KillMigration
    <2>1. migration'.at = "idle" /\ migration'.row = Null /\ ~ migration'.ended
        BY <1>6 DEF KillMigration, NotMigrating
    <2> QED
        BY <1>2, <2>1 DEF MigrationIsOnItsWay
<1>7. CASE TakeBodies
    <2>1. /\ migration.at = "backfill" /\ migration.rows = {} /\ migration'.at = "strip"
          /\ migration'.row = migration.row /\ migration'.taken = schedules
          /\ migration'.ended = migration.ended
          /\ schedules' = schedules /\ Unlabelled' = Unlabelled
        BY <1>1, <1>7 DEF TakeBodies, tables, Unlabelled, MigrationOK, MigrationRecords
    <2>2. migration.row = Null /\ ~ migration.ended
        BY <2>1 DEF MigrationIsOnItsWay
    <2>3. edits = 0 => \A k \in Unlabelled : Hopeless(k)
        BY <2>1 DEF MigrationIsOnItsWay
    <2> QED
        BY <1>1, <1>2, <1>3, <2>1, <2>2, <2>3 DEF MigrationIsOnItsWay
<1>8. ASSUME NEW k \in Keys, CheckRow(k)
      PROVE  MigrationIsOnItsWay'
    <2>1. /\ migration.at = "backfill" /\ migration'.at = "backfill" /\ migration.row = Null
          /\ k \in migration.rows /\ migration'.ended = migration.ended
          /\ schedules' = schedules /\ Unlabelled' = Unlabelled
        BY <1>1, <1>8 DEF CheckRow, tables, Unlabelled, MigrationOK, MigrationRecords
    <2>2. \/ migration'.row = k /\ migration'.rows = migration.rows
          \/ /\ migration'.row = Null /\ migration'.rows = migration.rows \ {k}
             /\ file[k.dataset] # k.content
        BY <1>1, <1>8, <2>1 DEF CheckRow, MigrationOK, MigrationRecords
    <2>3. ~ migration.ended
        BY <2>1 DEF MigrationIsOnItsWay
    <2>4. edits = 0 => \A l \in Unlabelled : l \in migration'.rows \/ Hopeless(l)
        BY <2>1, <2>2 DEF MigrationIsOnItsWay, Hopeless
    <2> QED
        BY <1>1, <1>3, <2>1, <2>2, <2>3, <2>4 DEF MigrationIsOnItsWay
<1>9. CASE FillRow
    <2> DEFINE k == migration.row
               c == file[k.dataset]
    <2>1. /\ migration.at = "backfill" /\ migration'.at = "backfill" /\ k \in Keys
          /\ migration'.row = Null /\ migration'.ended = migration.ended
          /\ migration'.rows = migration.rows \ {k} /\ schedules' = schedules
        BY <1>1, <1>9, MigrationFacts DEF FillRow, MigrationOK, MigrationRecords
    <2>2. ~ migration.ended
        BY <2>1 DEF MigrationIsOnItsWay
    <2>3. runs \in [Keys -> Rows \cup {Absent}] /\ runs[k] \in Rows
        BY <1>1, <1>9, <2>1 DEF FillRow, MigrationOK, LabInv, TablesOK
    <2> DEFINE table == runs'
    <2>4. /\ \A l \in Keys \ {k} : table[l] = runs[l]
          /\ edits = 0 /\ ~ Hopeless(k) => table[k].metadata # Null
        <3>1. CASE CanPrepare(c)
            <4>1. table = [runs EXCEPT ![k].metadata = [k EXCEPT !.content = c]]
                BY <1>9, <3>1 DEF FillRow
            <4>2. table[k].metadata = [k EXCEPT !.content = c]
                BY <2>1, <2>3, <4>1 DEF Rows
            <4>3. c \in Contents
                BY <2>1, <3>1 DEF CanPrepare, LabInv, TablesOK, Keys
            <4>4. [k EXCEPT !.content = c] \in Keys
                BY <2>1, <4>3 DEF Keys
            <4>5. \A l \in Keys \ {k} : table[l] = runs[l]
                BY <2>1, <2>3, <4>1
            <4> QED
                BY <4>2, <4>4, <4>5, AbsentIsNothing
        <3>2. CASE ~ CanPrepare(c)
            <4>1. table = runs
                BY <1>9, <3>2 DEF FillRow
            <4>2. edits = 0 => c = k.content
                BY <1>9 DEF FilesAreSeen, FillRow
            <4>3. k.content \in Contents
                BY <2>1 DEF Keys
            <4>4. edits = 0 => Hopeless(k)
                BY <3>2, <4>2, <4>3, LabConstants DEF Hopeless, CanPrepare
            <4> QED
                BY <4>1, <4>4
        <3> QED
            BY <3>1, <3>2
    <2>5. table = runs'
        OBVIOUS
    <2> HIDE DEF table, k
    <2>6. edits = 0 => \A l \in Unlabelled' : l \in migration'.rows \/ Hopeless(l)
        <3> SUFFICES ASSUME edits = 0, NEW l \in Keys, l \in Unlabelled', ~ Hopeless(l)
                     PROVE  l \in migration'.rows
            BY DEF Unlabelled
        <3>1. table[l] # Absent /\ table[l].hash # Null /\ table[l].metadata = Null
            BY <2>5 DEF Unlabelled
        <3>2. l # k
            BY <2>4, <3>1
        <3>3. l \in Unlabelled
            BY <2>4, <3>1, <3>2 DEF Unlabelled
        <3> QED
            BY <2>1, <3>2, <3>3 DEF MigrationIsOnItsWay
    <2> QED
        BY <1>1, <1>2, <1>3, <2>1, <2>2, <2>6 DEF MigrationIsOnItsWay
<1>10. ASSUME NEW h \in Hashes, StripBody(h)
       PROVE  MigrationIsOnItsWay'
    <2>1. /\ migration.at = "strip" /\ migration'.at = "strip"
          /\ migration'.row = migration.row /\ migration'.ended = migration.ended
          /\ migration'.taken = [migration.taken EXCEPT ![h] = Absent]
          /\ Unlabelled' = Unlabelled
        BY <1>1, <1>10 DEF StripBody, Unlabelled, MigrationOK, MigrationRecords
    <2>2. migration.row = Null /\ ~ migration.ended
        BY <2>1 DEF MigrationIsOnItsWay
    <2>3. edits = 0 => \A k \in Unlabelled : Hopeless(k)
        BY <2>1 DEF MigrationIsOnItsWay
    <2> DEFINE bodies == schedules'
               taken == migration'.taken
    <2>4. /\ schedules \in [Hashes -> Bodies \cup {Absent}]
          /\ migration.taken \in [Hashes -> Bodies \cup {Absent}]
          /\ migration.taken[h] \in Bodies
          /\ schedules[h] \in {migration.taken[h], Stripped(migration.taken[h])}
        BY <1>1, <1>10, MigrationFacts DEF LabInv, TablesOK, StripBody, MigrationOK
    <2>5. /\ \A g \in Hashes \ {h} : bodies[g] = schedules[g] /\ taken[g] = migration.taken[g]
        BY <1>10, <2>1, <2>4 DEF StripBody
    <2>6. bodies[h].embedded = Null
        <3>1. CASE migration.taken[h].embedded # Null
            <4>1. bodies[h] = [migration.taken[h] EXCEPT !.embedded = Null]
                BY <1>10, <2>4, <3>1 DEF StripBody
            <4> QED
                BY <2>4, <4>1 DEF Bodies
        <3>2. CASE migration.taken[h].embedded = Null
            <4>1. bodies[h] = schedules[h]
                BY <1>10, <3>2 DEF StripBody
            <4>2. Stripped(migration.taken[h]).embedded = Null
                BY <2>4 DEF Stripped, Bodies
            <4> QED
                BY <2>4, <3>2, <4>1, <4>2
        <3> QED
            BY <3>1, <3>2
    <2>7. bodies = schedules' /\ taken = migration'.taken
        OBVIOUS
    <2> HIDE DEF bodies, taken
    <2>8. \A g \in Hashes : bodies[g] # Absent /\ taken[g] = Absent => bodies[g].embedded = Null
        BY <2>1, <2>5, <2>6 DEF MigrationIsOnItsWay
    <2> QED
        BY <1>1, <1>3, <2>1, <2>2, <2>3, <2>7, <2>8 DEF MigrationIsOnItsWay
<1> QED
    BY <1>2, <1>4, <1>5, <1>6, <1>7, <1>8, <1>9, <1>10 DEF MigrationSteps

-----------------------------------------------------------------------------
(* The records are truthful *)

LEMMA InitIsTrue ==
    ASSUME LabInit
    PROVE  TruthInv
<1>1. TablesOK
    BY OldRegistryOK
<1>2. /\ sweep = [p \in Sweeps |-> NotStarted]
      /\ cell = [p \in Sweeps |-> [i \in Cells(p) |-> "unseen"]]
      /\ hashed = [p \in Sweeps |-> [i \in Cells(p) |-> Absent]]
      /\ migration = NotMigrating /\ edits = 0 /\ faults = 0
    BY DEF LabInit, NobodyWorks
<1>3. PICK K \in SUBSET Legacy, linked \in SUBSET Legacy : linked \subseteq K /\ OldRegistry(K, linked)
    BY DEF LabInit
<1>4. K \subseteq Keys /\ linked \subseteq K
    BY <1>3, InputsAreTyped
<1>5. runs = [k \in Keys |->
         IF k \notin K THEN Absent
         ELSE [hash |-> IF k \in linked THEN outcome[k.content][k.config] ELSE Null,
               metadata |-> Null, metrics |-> k]]
    BY <1>3 DEF OldRegistry
<1>6. PICK first \in [Hashes -> linked \cup {Absent}] :
         /\ \A h \in Hashes :
              LET same == {k \in linked : outcome[k.content][k.config] = h} IN
              /\ (first[h] = Absent) = (same = {})
              /\ first[h] # Absent => first[h] \in same
         /\ schedules = [h \in Hashes |->
              IF first[h] = Absent THEN Absent
              ELSE [owner |-> first[h].content, raw |-> first[h].content,
                    embedded |-> first[h]]]
    BY <1>3 DEF OldRegistry
<1>7. ASSUME NEW k \in Keys, runs[k] # Absent
      PROVE  /\ k \in K /\ runs[k].metadata = Null /\ runs[k].metrics = k
             /\ k \in linked => runs[k].hash = outcome[k.content][k.config]
             /\ k \notin linked => runs[k].hash = Null
    <2>1. k \in K
        BY <1>5, <1>7
    <2>2. runs[k] = [hash |-> IF k \in linked THEN outcome[k.content][k.config] ELSE Null,
                     metadata |-> Null, metrics |-> k]
        BY <1>5, <2>1
    <2> QED
        BY <2>1, <2>2
<1>8. FilesAreSeen
    BY <1>2 DEF FilesAreSeen, NotStarted, NotMigrating
<1>9. RowIsOfOneRun
    <2>1. ASSUME NEW k \in Keys, runs[k] # Absent
          PROVE  OneRun(k, runs[k])
        BY <1>7, <2>1 DEF OneRun
    <2> QED
        BY <1>7, <2>1 DEF RowIsOfOneRun, OneRun
<1>10. ASSUME NEW h \in Hashes, schedules[h] # Absent
       PROVE  /\ schedules[h].raw = schedules[h].owner
              /\ \E k \in Keys : runs[k] # Absent /\ runs[k].hash = h
    <2>1. first[h] # Absent
        BY <1>6, <1>10
    <2>2. first[h] \in linked /\ outcome[first[h].content][first[h].config] = h
        BY <1>6, <2>1
    <2> DEFINE k == first[h]
    <2>3. k \in Keys /\ k \in K /\ k \in linked
        BY <1>4, <2>2
    <2>4. runs[k].hash = h
        BY <1>5, <2>2, <2>3
    <2>5. runs[k] # Absent
        <3>1. outcome[k.content][k.config] \in Hashes
            BY <2>2
        <3>2. runs[k] = [hash |-> outcome[k.content][k.config], metadata |-> Null, metrics |-> k]
            BY <1>5, <2>3
        <3>3. runs[k] \in Rows
            BY <2>3, <3>1, <3>2 DEF Rows
        <3> QED
            BY <3>3, AbsentIsNothing
    <2>6. schedules[h] = [owner |-> k.content, raw |-> k.content, embedded |-> k]
        BY <1>6, <2>1
    <2> QED
        BY <2>3, <2>4, <2>5, <2>6
<1>11. BodiesAreOfRows
    BY <1>10 DEF BodiesAreOfRows, OrphanBodies
<1>12. SweepsAreAccounted
    <2>1. NotStarted.again = {} /\ ~ NotStarted.poisoned /\ NotStarted.summary = Null
        BY DEF NotStarted
    <2> QED
        BY <1>2, <2>1 DEF SweepsAreAccounted, Accounted, CellsAreStored
<1>13. MigrationIsOnItsWay
    BY <1>2 DEF MigrationIsOnItsWay, NotMigrating
<1> QED
    BY <1>8, <1>9, <1>11, <1>12, <1>13 DEF TruthInv

LEMMA TruthKeeps ==
    ASSUME LabInv, TruthInv, [LabNext]_labVars
    PROVE  TruthInv'
<1>1. /\ FilesAreSeen /\ RowIsOfOneRun /\ BodiesAreOfRows /\ SweepsAreAccounted
      /\ MigrationIsOnItsWay /\ MigrationOK
    BY DEF TruthInv, LabInv
<1>2. ASSUME FilesAreSeen' /\ SweepsAreAccounted', UNCHANGED <<tables, outcome, migration>>,
             edits' = edits, file' = file, faults' \in {faults, faults + 1}
      PROVE  TruthInv'
    <2>1. Migrated => Migrated'
        BY <1>1, <1>2, MigratedStays
    <2>2. RowIsOfOneRun' /\ BodiesAreOfRows'
        BY <1>1, <1>2, <2>1, QuietRecords
    <2>3. MigrationIsOnItsWay'
        BY <1>1, <1>2, QuietWay
    <2> QED
        BY <1>2, <2>2, <2>3 DEF TruthInv
<1>3. ASSUME NEW p \in Sweeps, NEW i \in Cells(p),
             CellSteps(p, i) \/ StoreFails(p, i) \/ Panic(p, i)
      PROVE  TruthInv'
    <2>1. CASE Commit(p, i)
        <3>1. FilesAreSeen' /\ SweepsAreAccounted'
            BY <1>1, <2>1, CommitTells
        <3>2. /\ cell[p][i] = "committing" /\ outcome' = outcome /\ migration' = migration
              /\ edits' = edits /\ file' = file /\ faults' = faults
            BY <2>1 DEF Commit, outside
        <3>3. CASE UNCHANGED tables
            BY <1>2, <3>1, <3>2, <3>3
        <3>4. CASE schedules' = InsertSchedule(p, i) /\ runs' = UpsertRow(p, i)
            BY <1>1, <3>1, <3>2, <3>4, CommitRecords, CommitWay DEF TruthInv
        <3> QED
            BY <2>1, <3>3, <3>4 DEF Commit
    <2>2. CASE BeginCell(p, i) \/ Identify(p, i) \/ Lookup(p, i) \/ StoreFails(p, i) \/ Panic(p, i)
        <3>1. FilesAreSeen' /\ SweepsAreAccounted'
            BY <1>1, <2>2, CellTells
        <3>2. /\ UNCHANGED <<tables, outcome, migration>>
              /\ edits' = edits /\ file' = file /\ faults' \in {faults, faults + 1}
            BY <2>2 DEF BeginCell, Identify, Lookup, StoreFails, Panic, outside
        <3> QED
            BY <1>2, <3>1, <3>2
    <2> QED
        BY <1>3, <2>1, <2>2 DEF CellSteps
<1>4. ASSUME NEW p \in Sweeps,
             \/ Classify(p) \/ Classified(p) \/ Prepare(p) \/ Prepared(p) \/ Return(p)
             \/ LookupFails(p) \/ Kill(p) \/ \E o \in BOOLEAN : Start(p, o)
      PROVE  TruthInv'
    <2>1. FilesAreSeen' /\ SweepsAreAccounted'
        BY <1>1, <1>4, StartTells, ClassifyTells, RecordStepsTell, KillTells
    <2>2. /\ UNCHANGED <<tables, outcome, migration>>
          /\ edits' = edits /\ file' = file /\ faults' \in {faults, faults + 1}
        BY <1>4 DEF Classify, Classified, Prepare, Prepared, Return, LookupFails, Kill, Start, outside
    <2> QED
        BY <1>2, <2>1, <2>2
<1>5. ASSUME StartMigration \/ MigrationSteps \/ KillMigration
      PROVE  TruthInv'
    <2>1. MigrationIsOnItsWay' /\ FilesAreSeen'
        BY <1>1, <1>5, MigrationWay
    <2>2. UNCHANGED <<sweep, cell, hashed>> /\ outcome' = outcome /\ edits' = edits
        BY <1>5 DEF StartMigration, MigrationSteps, KillMigration, CheckRow, FillRow, TakeBodies,
                    StripBody, EndMigration, untouched
    <2>3. LabNext
        BY <1>5 DEF LabNext
    <2>4. SweepsAreAccounted'
        BY <1>1, <2>2, <2>3, NextKeeps, QuietTells
    <2>5. RowIsOfOneRun' /\ BodiesAreOfRows'
        <3>1. CASE FillRow \/ \E h \in Hashes : StripBody(h)
            BY <1>1, <3>1, FillRowRecords, StripBodyRecords
        <3>2. CASE UNCHANGED tables
            BY <1>1, <1>5, <2>2, <3>2, MigratedStays, QuietRecords
        <3> QED
            BY <1>5, <3>1, <3>2 DEF StartMigration, MigrationSteps, KillMigration, CheckRow,
                                    TakeBodies, EndMigration
    <2> QED
        BY <2>1, <2>4, <2>5 DEF TruthInv
<1>6. ASSUME NEW d \in Datasets, NEW c \in Contents \cup {Missing}, Edit(d, c)
      PROVE  TruthInv'
    <2>1. /\ edits' = edits + 1 /\ edits' # 0 /\ faults' = faults /\ edits' \in Nat
          /\ outcome' = outcome /\ migration' = migration /\ UNCHANGED <<tables, sweep, cell, hashed>>
        BY <1>1, <1>6 DEF Edit, FilesAreSeen
    <2>2. FilesAreSeen'
        BY <1>1, <2>1 DEF FilesAreSeen
    <2>3. SweepsAreAccounted'
        BY <1>1, <2>1, QuietTells
    <2>4. runs' = runs /\ (Migrated => Migrated')
        BY <1>1, <2>1, MigratedStays DEF tables
    <2>5. RowIsOfOneRun'
        BY <1>1, <2>1, <2>4 DEF RowIsOfOneRun
    <2>6. BodiesAreOfRows'
        BY <2>1 DEF BodiesAreOfRows
    <2>7. MigrationIsOnItsWay'
        BY <1>1, <2>1, QuietWay
    <2> QED
        BY <2>2, <2>3, <2>5, <2>6, <2>7 DEF TruthInv
<1>7. CASE UNCHANGED labVars
    <2>1. /\ UNCHANGED <<tables, outcome, migration>> /\ UNCHANGED <<sweep, cell, hashed>>
          /\ edits' = edits /\ file' = file /\ faults' = faults
        BY <1>7 DEF labVars, tables
    <2>2. FilesAreSeen'
        BY <1>1, <2>1 DEF FilesAreSeen
    <2>3. SweepsAreAccounted'
        BY <1>1, <2>1, QuietTells
    <2> QED
        BY <1>2, <2>1, <2>2, <2>3
<1>8. CASE LabNext
    <2>1. CASE \E p \in Sweeps :
                 \/ SweepSteps(p) \/ LookupFails(p) \/ Kill(p)
                 \/ \E o \in BOOLEAN : Start(p, o)
                 \/ \E i \in Cells(p) : StoreFails(p, i) \/ Panic(p, i)
        BY <1>3, <1>4, <2>1 DEF SweepSteps
    <2> QED
        BY <1>5, <1>6, <1>8, <2>1 DEF LabNext
<1> QED
    BY <1>7, <1>8

LEMMA DisjointUnion ==
    ASSUME NEW S, IsFiniteSet(S), NEW T, IsFiniteSet(T), S \cap T = {}
    PROVE  /\ IsFiniteSet(S \cup T)
           /\ Cardinality(S) \in Nat /\ Cardinality(T) \in Nat
           /\ Cardinality(S \cup T) = Cardinality(S) + Cardinality(T)
<1>1. /\ IsFiniteSet(S \cup T)
      /\ Cardinality(S \cup T) = Cardinality(S) + Cardinality(T) - Cardinality(S \cap T)
    BY FS_Union
<1>2. Cardinality(S \cap T) = 0
    BY FS_EmptySet
<1>3. Cardinality(S) \in Nat /\ Cardinality(T) \in Nat
    BY FS_CardinalityType
<1> QED
    BY <1>1, <1>2, <1>3

(* The cells of a sweep, counted by how they ended. *)
LEMMA CellsAddUp ==
    ASSUME NEW p \in Sweeps, NEW s, NEW stages, Accounted(p, s, stages), s.summary # Null
    PROVE  LET n == s.summary IN
           /\ n.skipped + n.completed + n.failed = n.total
           /\ s.override => n.skipped = 0
           /\ n.overridden <= n.completed + n.failed
<1> DEFINE A == EndingIn(p, stages, "skipped")
           B == EndingIn(p, stages, "done")
           C == EndingIn(p, stages, "failed")
<1>1. /\ s.summary.total = Len(CellsOf[p]) /\ s.summary.skipped = Cardinality(A)
      /\ s.summary.completed = Cardinality(B) /\ s.summary.failed = Cardinality(C)
      /\ s.summary.overridden = Cardinality(s.again)
    BY DEF Accounted, Counts
<1>2. A \cup B \cup C = Cells(p) /\ A \cap B = {} /\ (A \cup B) \cap C = {} /\ B \cap C = {}
    BY DEF Accounted, EndingIn
<1>3. Cells(p) = 1 .. Len(CellsOf[p]) /\ Len(CellsOf[p]) \in Nat
    <2>1. CellsOf[p] \in Seq([dataset : Datasets, config : Configs])
        BY LabConstants
    <2> QED
        BY <2>1 DEF Cells
<1>4. IsFiniteSet(Cells(p)) /\ Cardinality(Cells(p)) = Len(CellsOf[p])
    BY <1>3, FS_Interval
<1>5. s.override => A = {}
    BY DEF Accounted, EndingIn
<1> HIDE DEF A, B, C
<1>6. IsFiniteSet(A) /\ IsFiniteSet(B) /\ IsFiniteSet(C)
    BY <1>2, <1>4, FS_Subset
<1>7. /\ IsFiniteSet(A \cup B)
      /\ Cardinality(A \cup B) = Cardinality(A) + Cardinality(B)
      /\ Cardinality(A) \in Nat /\ Cardinality(B) \in Nat
    BY <1>2, <1>6, DisjointUnion
<1>8. Cardinality((A \cup B) \cup C) = Cardinality(A \cup B) + Cardinality(C)
      /\ Cardinality(C) \in Nat
    BY <1>2, <1>6, <1>7, DisjointUnion
<1>9. Cardinality(Cells(p)) = Cardinality(A) + Cardinality(B) + Cardinality(C)
    BY <1>2, <1>7, <1>8
<1>10. Cardinality(s.again) <= Cardinality(B) + Cardinality(C)
    <2>1. CASE s.override
        <3>1. s.again \in SUBSET (B \cup C)
            BY <1>2, <1>5, <2>1 DEF Accounted
        <3>2. /\ IsFiniteSet(B \cup C)
              /\ Cardinality(B \cup C) = Cardinality(B) + Cardinality(C)
            BY <1>2, <1>6, DisjointUnion
        <3>3. Cardinality(s.again) <= Cardinality(B \cup C)
            BY <3>1, <3>2, FS_Subset
        <3> QED
            BY <3>2, <3>3
    <2>2. CASE ~ s.override
        <3>1. Cardinality(s.again) = 0
            BY <2>2, FS_EmptySet DEF Accounted
        <3> QED
            BY <1>7, <1>8, <3>1
    <2> QED
        BY <2>1, <2>2
<1>11. s.override => Cardinality(A) = 0
    BY <1>5, FS_EmptySet
<1> QED
    BY <1>1, <1>4, <1>7, <1>8, <1>9, <1>10, <1>11

LEMMA TruthIsTold ==
    ASSUME LabInv, TruthInv
    PROVE  RecordsAreTruthful
<1>1. LinkedRunsHaveOwnBody /\ TablesOK /\ SweepsOK
    BY DEF LabInv
<1>2. IntegrityHolds
    BY <1>1 DEF TruthInv, BodiesAreOfRows, IntegrityHolds, MissingBodies, LinkedRunsHaveOwnBody
<1>3. RowIsOfOneRun /\ MigrationIsComplete
    BY DEF TruthInv, MigrationIsOnItsWay, MigrationIsComplete, Hopeless
<1>4. ExportIsOwn
    <2> SUFFICES ASSUME edits = 0, NEW k \in Keys, runs[k] # Absent, Export(k) # Missing
                 PROVE  Export(k) = [raw |-> k.content, placements |-> outcome[k.content][k.config],
                                     metadata |-> k, metrics |-> k]
        BY DEF ExportIsOwn
    <2>1. /\ runs[k].hash # Null /\ schedules[runs[k].hash] # Absent /\ runs[k].metadata # Null
          /\ Export(k) = [raw |-> schedules[runs[k].hash].raw, placements |-> runs[k].hash,
                          metadata |-> runs[k].metadata, metrics |-> runs[k].metrics]
        BY DEF Export
    <2>2. /\ runs[k].hash = outcome[runs[k].metrics.content][runs[k].metrics.config]
          /\ runs[k].metrics = k /\ runs[k].metadata = k
        BY <1>3, <2>1 DEF RowIsOfOneRun
    <2>3. runs[k].hash \in Hashes
        BY <1>1, <2>1 DEF TablesOK, Rows
    <2>4. schedules[runs[k].hash].raw = schedules[runs[k].hash].owner
        BY <2>1, <2>3 DEF TruthInv, BodiesAreOfRows
    <2>5. schedules[runs[k].hash].owner = k.content
        BY <1>1, <2>1 DEF LinkedRunsHaveOwnBody
    <2> QED
        BY <2>1, <2>2, <2>4, <2>5
<1>5. SummaryIsTruthful
    <2> SUFFICES ASSUME NEW p \in Sweeps, sweep[p].summary # Null
                 PROVE  LET s == sweep[p].summary IN
                        /\ s.skipped + s.completed + s.failed = s.total
                        /\ sweep[p].override => s.skipped = 0
                        /\ s.overridden <= s.completed + s.failed
                        /\ \A i \in Cells(p) : cell[p][i] \in {"done", "skipped"} =>
                              /\ runs[KeyOf(p, i)] # Absent
                              /\ cell[p][i] = "done" => Export(KeyOf(p, i)) # Missing
        BY DEF SummaryIsTruthful
    <2>1. /\ Accounted(p, sweep[p], cell[p])
          /\ CellsAreStored(p, sweep[p], cell[p], hashed[p], runs)
        BY DEF TruthInv, SweepsAreAccounted
    <2>2. ~ sweep[p].poisoned
        BY <2>1 DEF Accounted
    <2>3. ASSUME NEW i \in Cells(p), cell[p][i] \in {"done", "skipped"}
          PROVE  /\ runs[KeyOf(p, i)] # Absent
                 /\ cell[p][i] = "done" => Export(KeyOf(p, i)) # Missing
        <3> DEFINE k == KeyOf(p, i)
        <3>1. k \in Keys /\ runs[k] # Absent /\ (cell[p][i] = "done" => Stored(k, runs))
            BY <2>1, <2>2, <2>3, RunIsKey DEF CellsAreStored, KeyOf, Stored
        <3> HIDE DEF k
        <3>2. ASSUME Stored(k, runs)
              PROVE  Export(k) \in Artifacts
            <4>1. runs[k] \in Rows /\ runs[k].hash \in Hashes /\ runs[k].metadata \in Keys
                  /\ runs[k].metrics \in Keys
                BY <1>1, <3>1, <3>2 DEF TablesOK, Rows, Stored
            <4>2. schedules[runs[k].hash] \in Bodies /\ schedules[runs[k].hash] # Absent
                BY <1>1, <3>1, <3>2, <4>1 DEF LinkedRunsHaveOwnBody, TablesOK, Stored
            <4>3. Export(k) = [raw |-> schedules[runs[k].hash].raw, placements |-> runs[k].hash,
                               metadata |-> runs[k].metadata, metrics |-> runs[k].metrics]
                BY <3>2, <4>2 DEF Export, Stored
            <4>4. schedules[runs[k].hash].raw \in Contents
                BY <4>2 DEF Bodies
            <4> QED
                BY <4>1, <4>3, <4>4 DEF Artifacts
        <3> QED
            BY <3>1, <3>2, AbsentIsNothing DEF k
    <2>4. LET n == sweep[p].summary IN
             /\ n.skipped + n.completed + n.failed = n.total
             /\ sweep[p].override => n.skipped = 0
             /\ n.overridden <= n.completed + n.failed
        BY <2>1, CellsAddUp
    <2> QED
        BY <2>3, <2>4
<1> QED
    BY <1>2, <1>3, <1>4, <1>5 DEF RecordsAreTruthful

(* Whatever sweeps, migrations, edits and faults come together: the        *)
(* registry's integrity check finds nothing, a row is of one execution,    *)
(* an export tells of the run it is asked for, a summary accounts for      *)
(* every cell and counts only what the registry holds, and a migration     *)
(* that has come to its end has left nothing to migrate. *)
THEOREM RecordsTellTheTruth == LabSpec => []RecordsAreTruthful
<1>1. LabInit => TruthInv
    BY InitIsTrue
<1>2. LabInv /\ TruthInv /\ [LabNext]_labVars => TruthInv'
    BY TruthKeeps
<1>3. LabInv /\ TruthInv => RecordsAreTruthful
    BY TruthIsTold
<1> QED
    BY <1>1, <1>2, <1>3, InvHolds, PTL DEF LabSpec
-----------------------------------------------------------------------------
(* The pipeline as a whole *)

(* However laboratory and publications interleave, runs, bodies, cells,    *)
(* requests and counters have values of their types                        *)
(* (lab/src/experiment/runner.rs, webapp/src/workspaces/routes.rs).        *)
THEOREM PipelineKeepsTypes == PipelineSpec => []PipelineTypeOK
<1>1. PipelineInit => LabInit /\ PubInit
    BY DEF PipelineInit
<1>2. [PipelineNext]_<<labVars, pubVars>> => [LabNext]_labVars /\ [PubNext]_pubVars
    BY Zenon DEF PipelineNext, LabStep, PubStep
<1>3. PipelineSpec => LabSpec /\ PubSpec
    BY <1>1, <1>2, PTL DEF PipelineSpec, LabSpec, PubSpec
<1>4. LabTypeOK /\ PubTypeOK => PipelineTypeOK
    BY DEF PipelineTypeOK
<1> QED
    BY <1>3, <1>4, LabTypeCorrect, PublicationTypes, PTL
=============================================================================
