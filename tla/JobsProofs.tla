------------------------------ MODULE JobsProofs ------------------------------
(***************************************************************************)
(* TLAPS proofs about Jobs, for every set of jobs, workers and keys and    *)
(* every value of the limits: type correctness, that only jobs that are    *)
(* over can be purged, that a lease with time left protects its claim,     *)
(* that done jobs stay done, that a key names one job, and that Jobs       *)
(* implements JobQueue.                                                    *)
(***************************************************************************)
EXTENDS JobsRefinement, SequenceTheorems, FiniteSetTheorems, TLAPS

\* A worker in the loop, or running a job, has that job's snapshot in hand.
InHand ==
  \A w \in Worker :
    /\ pc[w] \in {"loop", "run", "finish"} => batch[w] # <<>>
    /\ Running(w) => cur[w].id \in Job

USE AttemptsAssumption, TimeAssumption, BatchAssumption, NamesAssumption

LEMMA LeaseType == Lease \in Nat /\ Lease >= 1
BY DEF Lease

\* What the pass reads is a sequence of snapshots, empty only if nothing was found.
LEMMA BatchType ==
  ASSUME TypeOK, NEW w \in Worker, NEW s \in Batches(w)
  PROVE  /\ [a \in 1..Len(s) |-> [id |-> s[a], attempts |-> jobs[s[a]].attempts]]
              \in Snapshots
         /\ s # <<>> =>
              [a \in 1..Len(s) |-> [id |-> s[a], attempts |-> jobs[s[a]].attempts]] # <<>>
<1> DEFINE due == Due(w)
           size == IF Cardinality(due) < BatchSize THEN Cardinality(due) ELSE BatchSize
           snap == [a \in 1..Len(s) |-> [id |-> s[a], attempts |-> jobs[s[a]].attempts]]
<1>1. due \subseteq Job
  BY DEF Due
<1>2. size \in Nat
  <2>1. IsFiniteSet(due)
    BY <1>1, FiniteAssumption, FS_Subset
  <2>2. Cardinality(due) \in Nat
    BY <2>1, FS_CardinalityType
  <2> QED BY <2>2
<1>3. s \in [1..size -> due]
  BY DEF Batches
<1>4. s \in Seq(Job) /\ Len(s) = size
  <2> HIDE DEF due, size
  <2>1. s \in [1..size -> Job]
    BY <1>1, <1>3
  <2>2. s \in Seq(Job)
    BY <1>2, <2>1, SeqDef
  <2>3. Len(s) = size
    BY <1>2, <2>1, <2>2, LenProperties
  <2> QED BY <2>2, <2>3
<1>5. snap \in [1..Len(s) -> SnapshotRecord]
  <2> HIDE DEF size, due
  <2>1. ASSUME NEW a \in 1..Len(s)
        PROVE  [id |-> s[a], attempts |-> jobs[s[a]].attempts] \in SnapshotRecord
    <3>1. s[a] \in Job
      BY <1>4, ElementOfSeq
    <3>2. jobs[s[a]].attempts \in 0..MaxAttempts
      BY <3>1 DEF TypeOK, JobRecord
    <3> QED BY <3>1, <3>2 DEF SnapshotRecord
  <2> QED BY <2>1
<1>6. Len(s) \in Nat
  BY <1>4, LenProperties
<1>7. snap \in Seq(SnapshotRecord)
  <2> HIDE DEF size, due, snap
  <2> QED BY <1>5, <1>6, SeqDef
<1>8. ASSUME s # <<>> PROVE snap # <<>>
  <2> HIDE DEF size, due
  <2>1. 1 \in 1..Len(s)
    BY <1>4, <1>6, <1>8, EmptySeq
  <2>2. DOMAIN snap = 1..Len(s)
    OBVIOUS
  <2>3. DOMAIN <<>> = 1..0
    BY EmptySeq, LenProperties
  <2> QED BY <2>1, <2>2, <2>3
<1> QED BY <1>7, <1>8 DEF Snapshots

LEMMA BlankType == Blank \in JobRecord
BY LeaseType DEF Blank, JobRecord, Statuses

LEMMA TypeInit == Init => TypeOK
<1> SUFFICES ASSUME Init PROVE TypeOK
  OBVIOUS
<1>2. jobs \in [Job -> JobRecord]
  BY BlankType DEF Init
<1>3. batch \in [Worker -> Snapshots]
  BY EmptySeq DEF Init, Snapshots
<1>4. held \in [Worker -> -1..Lease]
  BY LeaseType DEF Init
<1> QED BY <1>2, <1>3, <1>4 DEF Init, TypeOK, NoClaim

\* The rest of a batch is a sequence of snapshots too.
LEMMA NextInBatchType ==
  ASSUME TypeOK, InHand, NEW w \in Worker, NextInBatch(w),
         pc[w] \in {"loop", "run", "finish"}
  PROVE  /\ batch' \in [Worker -> Snapshots]
         /\ pc' \in [Worker -> {"poll", "find", "loop", "run", "finish", "stopped"}]
         /\ pc'[w] = "loop" => batch'[w] # <<>>
         /\ pc'[w] \in {"poll", "loop"}
         /\ \A v \in Worker \ {w} : pc'[v] = pc[v] /\ batch'[v] = batch[v]
<1>1. batch[w] \in Seq(SnapshotRecord) /\ batch[w] # <<>>
  BY DEF TypeOK, InHand, Snapshots
<1>2. Tail(batch[w]) \in Seq(SnapshotRecord) /\ Len(Tail(batch[w])) = Len(batch[w]) - 1
  BY <1>1, HeadTailProperties
<1>3. Len(batch[w]) \in Nat
  BY <1>1, LenProperties
<1>4. ASSUME Len(batch[w]) # 1 PROVE Tail(batch[w]) # <<>>
  <2> DEFINE t == Tail(batch[w])
  <2>1. Len(<<>>) = 0
    OBVIOUS
  <2>2. Len(t) # 0
    BY <1>2, <1>3, <1>4
  <2> HIDE DEF t
  <2>3. t # <<>>
    BY <2>1, <2>2
  <2> QED BY <2>3 DEF t
<1>5. batch' = [batch EXCEPT ![w] = Tail(batch[w])]
  BY DEF NextInBatch
<1>6. batch \in [Worker -> Snapshots]
  BY DEF TypeOK
<1>7. /\ batch' \in [Worker -> Snapshots] /\ batch'[w] = Tail(batch[w])
      /\ \A v \in Worker \ {w} : batch'[v] = batch[v]
  <2>1. Tail(batch[w]) \in Snapshots
    BY <1>2 DEF Snapshots
  <2> QED BY <2>1, <1>5, <1>6
<1>8. pc' = [pc EXCEPT ![w] = IF Len(batch[w]) = 1 THEN "poll" ELSE "loop"]
  BY DEF NextInBatch
<1>9. pc \in [Worker -> {"poll", "find", "loop", "run", "finish", "stopped"}]
  BY DEF TypeOK
<1>10. \A v \in Worker \ {w} : pc'[v] = pc[v]
  BY <1>8, <1>9
<1>11. pc' \in [Worker -> {"poll", "find", "loop", "run", "finish", "stopped"}]
  BY <1>8, <1>9
<1>12. pc'[w] = IF Len(batch[w]) = 1 THEN "poll" ELSE "loop"
  BY <1>8, <1>9
<1>13. pc'[w] = "loop" => batch'[w] # <<>>
  BY <1>4, <1>7, <1>12
<1>14. pc'[w] \in {"poll", "loop"}
  BY <1>12
<1> QED BY <1>7, <1>10, <1>11, <1>13, <1>14

\* The snapshot in hand is one of a job, with attempts in range.
LEMMA SnapshotType ==
  ASSUME TypeOK, InHand, NEW w \in Worker, pc[w] \in {"loop", "run", "finish"}
  PROVE  /\ Snapshot(w) \in SnapshotRecord
         /\ Snapshot(w).id \in Job
         /\ Snapshot(w).attempts \in 0..MaxAttempts
         /\ ~UsedUp(w) => Snapshot(w).attempts + 1 \in 0..MaxAttempts
<1>1. batch[w] \in Seq(SnapshotRecord) /\ batch[w] # <<>>
  BY DEF TypeOK, InHand, Snapshots
<1>2. Snapshot(w) \in SnapshotRecord
  BY <1>1, HeadTailProperties DEF Snapshot
<1> QED BY <1>2 DEF SnapshotRecord, UsedUp

\* Writing one field of a record.
LEMMA FieldType ==
  ASSUME NEW r \in JobRecord
  PROVE  /\ \A x \in Statuses : [r EXCEPT !.status = x] \in JobRecord
         /\ \A x \in 0..MaxAttempts : [r EXCEPT !.attempts = x] \in JobRecord
         /\ \A x \in Int : [r EXCEPT !.wait = x] \in JobRecord
         /\ \A x \in -1..Lease : [r EXCEPT !.lease = x] \in JobRecord
         /\ \A x \in Worker : [r EXCEPT !.worker = x] \in JobRecord
         /\ \A x \in BOOLEAN : [r EXCEPT !.finished = x] \in JobRecord
BY DEF JobRecord

\* Writing one field of one record of the collection.
LEMMA CollectionType ==
  ASSUME NEW f \in [Job -> JobRecord], NEW j \in Job
  PROVE  /\ \A x \in Statuses : [f EXCEPT ![j].status = x] \in [Job -> JobRecord]
         /\ \A x \in 0..MaxAttempts : [f EXCEPT ![j].attempts = x] \in [Job -> JobRecord]
         /\ \A x \in Int : [f EXCEPT ![j].wait = x] \in [Job -> JobRecord]
         /\ \A x \in -1..Lease : [f EXCEPT ![j].lease = x] \in [Job -> JobRecord]
         /\ \A x \in Worker : [f EXCEPT ![j].worker = x] \in [Job -> JobRecord]
         /\ \A x \in BOOLEAN : [f EXCEPT ![j].finished = x] \in [Job -> JobRecord]
<1> f[j] \in JobRecord
  OBVIOUS
<1> QED BY FieldType

\* Every update of a record the code makes keeps it a record.
LEMMA UpdateType ==
  ASSUME TypeOK, NEW j \in Job
  PROVE  /\ \A w \in Worker, n \in 0..MaxAttempts : Claimed(j, w, n) \in [Job -> JobRecord]
         /\ Buried(j) \in [Job -> JobRecord]
         /\ Revived(j) \in [Job -> JobRecord]
<1>1. jobs \in [Job -> JobRecord]
  BY DEF TypeOK
<1>2. ASSUME NEW w \in Worker, NEW n \in 0..MaxAttempts
      PROVE  Claimed(j, w, n) \in [Job -> JobRecord]
  <2> DEFINE a == [jobs EXCEPT ![j].status = "running"]
             b == [a EXCEPT ![j].attempts = n]
             c == [b EXCEPT ![j].lease = Lease]
             d == [c EXCEPT ![j].worker = w]
  <2>1. a \in [Job -> JobRecord]
    BY <1>1, CollectionType DEF Statuses
  <2>2. b \in [Job -> JobRecord]
    <3> HIDE DEF a
    <3> QED BY <2>1, CollectionType
  <2>3. c \in [Job -> JobRecord]
    <3> HIDE DEF b
    <3> QED BY <2>2, LeaseType, CollectionType
  <2>4. d \in [Job -> JobRecord]
    <3> HIDE DEF c
    <3> QED BY <2>3, CollectionType
  <2> QED BY <2>4 DEF Claimed
<1>3. Buried(j) \in [Job -> JobRecord]
  <2> DEFINE a == [jobs EXCEPT ![j].status = "dead"]
             b == [a EXCEPT ![j].finished = TRUE]
  <2>1. a \in [Job -> JobRecord]
    BY <1>1, CollectionType DEF Statuses
  <2>2. b \in [Job -> JobRecord]
    <3> HIDE DEF a
    <3> QED BY <2>1, CollectionType
  <2> QED BY <2>2 DEF Buried
<1>4. Revived(j) \in [Job -> JobRecord]
  <2> DEFINE a == [jobs EXCEPT ![j].status = "queued"]
             b == [a EXCEPT ![j].attempts = 0]
             c == [b EXCEPT ![j].wait = 0]
             d == [c EXCEPT ![j].finished = FALSE]
  <2>1. a \in [Job -> JobRecord]
    BY <1>1, CollectionType DEF Statuses
  <2>2. b \in [Job -> JobRecord]
    <3> HIDE DEF a
    <3> QED BY <2>1, CollectionType
  <2>3. c \in [Job -> JobRecord]
    <3> HIDE DEF b
    <3> QED BY <2>2, CollectionType
  <2>4. d \in [Job -> JobRecord]
    <3> HIDE DEF c
    <3> QED BY <2>3, CollectionType
  <2> QED BY <2>4 DEF Revived
<1> QED BY <1>2, <1>3, <1>4

LEMMA RecordType ==
  ASSUME TypeOK, InHand, NEW w \in Worker, pc[w] = "finish", Record(w)
  PROVE  jobs' \in [Job -> JobRecord]
<1>1. cur[w].id \in Job
  BY DEF InHand, Running
<1>2. jobs[cur[w].id] \in JobRecord
  BY <1>1 DEF TypeOK
<1>3. ASSUME NEW r \in Endings(w) PROVE r \in JobRecord
  <2> DEFINE q == [jobs[cur[w].id] EXCEPT !.lease = -1]
  <2>1. q \in JobRecord
    <3>1. -1 \in -1..Lease
      BY LeaseType
    <3> QED BY <1>2, <3>1, FieldType
  <2>2. /\ [q EXCEPT !.status = "done"] \in JobRecord
        /\ [q EXCEPT !.status = "dead"] \in JobRecord
        /\ [q EXCEPT !.status = "queued"] \in JobRecord
    <3> HIDE DEF q
    <3> QED BY <2>1, FieldType DEF Statuses
  <2>3. /\ [q EXCEPT !.status = "done", !.finished = TRUE] \in JobRecord
        /\ [q EXCEPT !.status = "dead", !.finished = TRUE] \in JobRecord
        /\ \A d \in Int : [q EXCEPT !.status = "queued", !.wait = d] \in JobRecord
    <3> DEFINE x == [q EXCEPT !.status = "done"]
               y == [q EXCEPT !.status = "dead"]
               z == [q EXCEPT !.status = "queued"]
    <3>1. x \in JobRecord /\ y \in JobRecord /\ z \in JobRecord
      BY <2>2
    <3> HIDE DEF x, y, z
    <3>2. /\ [x EXCEPT !.finished = TRUE] \in JobRecord
          /\ [y EXCEPT !.finished = TRUE] \in JobRecord
          /\ \A d \in Int : [z EXCEPT !.wait = d] \in JobRecord
      BY <3>1, FieldType
    <3> QED BY <3>2 DEF x, y, z
  <2> HIDE DEF q
  <2>4. \/ r = [q EXCEPT !.status = "done", !.finished = TRUE]
        \/ r = [q EXCEPT !.status = "dead", !.finished = TRUE]
        \/ \E d \in 0..Backoff(cur[w].attempts) :
             r = [q EXCEPT !.status = "queued", !.wait = d]
    BY Zenon DEF Endings, q
  <2>5. 0..Backoff(cur[w].attempts) \subseteq Int
    OBVIOUS
  <2> QED BY Zenon, <2>3, <2>4, <2>5
<1> QED BY <1>1, <1>3 DEF Record, TypeOK

-----------------------------------------------------------------------------
Typed == TypeOK /\ InHand

LEMMA TypedInit == Init => Typed
BY TypeInit DEF Typed, InHand, Init, Running

LEMMA ProducerTyped ==
  ASSUME Typed, NEW p \in Producer,
         \/ \E j \in Job, k \in Key \cup {NoKey}, d \in 0..MaxFuture : Insert(p, j, k, d)
         \/ \E k \in Key : InsertRefused(p, k)
         \/ LookUp(p)
  PROVE  Typed'
<1>1. ASSUME NEW j \in Job, NEW k \in Key \cup {NoKey}, NEW d \in 0..MaxFuture,
             Insert(p, j, k, d)
      PROVE  Typed'
  <2>1. [Blank EXCEPT !.status = "queued", !.wait = d, !.key = k] \in JobRecord
    <3> DEFINE a == [Blank EXCEPT !.status = "queued"]
               b == [a EXCEPT !.wait = d]
    <3>1. a \in JobRecord
      BY BlankType, FieldType DEF Statuses
    <3>2. b \in JobRecord
      <4> HIDE DEF a
      <4> QED BY <3>1, FieldType
    <3>3. [b EXCEPT !.key = k] \in JobRecord
      <4> HIDE DEF b
      <4> QED BY <3>2 DEF JobRecord
    <3> QED BY <3>3
  <2>2. jobs' \in [Job -> JobRecord]
    BY <1>1, <2>1 DEF Insert, Typed, TypeOK
  <2>3. producer' \in [Producer -> [pc : {"idle", "lookup"}, key : Key \cup {NoKey},
                                     got : Job \cup {NoJob}]]
    BY <1>1 DEF Insert, Typed, TypeOK
  <2> QED BY <1>1, <2>2, <2>3 DEF Insert, Typed, TypeOK, InHand, Running, local
<1>2. ASSUME NEW k \in Key, InsertRefused(p, k) PROVE Typed'
  <2>1. producer' \in [Producer -> [pc : {"idle", "lookup"}, key : Key \cup {NoKey},
                                     got : Job \cup {NoJob}]]
    BY <1>2 DEF InsertRefused, Typed, TypeOK
  <2> QED BY <1>2, <2>1 DEF InsertRefused, Typed, TypeOK, InHand, Running, local
<1>3. ASSUME LookUp(p) PROVE Typed'
  <2>1. producer' \in [Producer -> [pc : {"idle", "lookup"}, key : Key \cup {NoKey},
                                     got : Job \cup {NoJob}]]
    <3>1. PICK j \in Job \cup {NoJob} :
            producer' = [producer EXCEPT ![p] =
                           [pc |-> "idle", key |-> producer[p].key, got |-> j]]
      BY <1>3 DEF LookUp
    <3>2. [pc |-> "idle", key |-> producer[p].key, got |-> j]
            \in [pc : {"idle", "lookup"}, key : Key \cup {NoKey}, got : Job \cup {NoJob}]
      BY DEF Typed, TypeOK
    <3> QED BY <3>1, <3>2 DEF Typed, TypeOK
  <2> QED BY <1>3, <2>1 DEF LookUp, Typed, TypeOK, InHand, Running, local
<1> QED BY <1>1, <1>2, <1>3

LEMMA PassTyped ==
  ASSUME Typed, NEW w \in Worker, StartPass(w) \/ FindDue(w) \/ HandlerEnds(w)
  PROVE  Typed'
<1>1. CASE StartPass(w)
  <2>1. ASSUME NEW j \in Job
        PROVE  [jobs[j] EXCEPT !.status = "queued", !.lease = -1] \in JobRecord
    <3> DEFINE q == [jobs[j] EXCEPT !.status = "queued"]
    <3>1. q \in JobRecord
      BY FieldType DEF Typed, TypeOK, Statuses
    <3> HIDE DEF q
    <3>2. [q EXCEPT !.lease = -1] \in JobRecord
      BY <3>1, LeaseType, FieldType
    <3> QED BY <3>2 DEF q
  <2>2. jobs' \in [Job -> JobRecord]
    BY <1>1, <2>1 DEF StartPass, Typed, TypeOK
  <2> QED BY <1>1, <2>2 DEF StartPass, Typed, TypeOK, InHand, Running
<1>2. CASE FindDue(w)
  <2>1. PICK s \in Batches(w) :
          /\ batch' = [batch EXCEPT ![w] =
                [a \in 1..Len(s) |-> [id |-> s[a], attempts |-> jobs[s[a]].attempts]]]
          /\ pc' = [pc EXCEPT ![w] = IF s = <<>> THEN "poll" ELSE "loop"]
    BY <1>2 DEF FindDue
  <2> DEFINE snap == [a \in 1..Len(s) |-> [id |-> s[a], attempts |-> jobs[s[a]].attempts]]
  <2>2. snap \in Snapshots /\ (s # <<>> => snap # <<>>)
    BY BatchType DEF Typed
  <2>3. batch' = [batch EXCEPT ![w] = snap]
    BY <2>1
  <2> HIDE DEF snap
  <2>4. pc[w] = "find"
    BY <1>2 DEF FindDue
  <2>5. batch' \in [Worker -> Snapshots]
    BY <2>2, <2>3 DEF Typed, TypeOK
  <2>6. pc' \in [Worker -> {"poll", "find", "loop", "run", "finish", "stopped"}]
    BY <2>1 DEF Typed, TypeOK
  <2>7. TypeOK'
    BY <1>2, <2>5, <2>6 DEF FindDue, Typed, TypeOK
  <2>8. ASSUME NEW v \in Worker
        PROVE  /\ pc'[v] \in {"loop", "run", "finish"} => batch'[v] # <<>>
               /\ Running(v)' => cur'[v].id \in Job
    <3>1. CASE v = w
      BY <1>2, <2>1, <2>2, <2>3, <3>1 DEF FindDue, Typed, TypeOK, Running
    <3>2. CASE v # w
      BY <1>2, <2>1, <2>3, <3>2 DEF FindDue, Typed, TypeOK, InHand, Running
    <3> QED BY <3>1, <3>2
  <2> QED BY <2>7, <2>8 DEF Typed, InHand
<1>3. CASE HandlerEnds(w)
  <2>1. outcome' \in [Worker -> {"none", "ok", "error", "lookup"}]
    BY <1>3 DEF HandlerEnds, Outcomes, Typed, TypeOK
  <2> QED BY <1>3, <2>1 DEF HandlerEnds, Typed, TypeOK, InHand, Running
<1> QED BY <1>1, <1>2, <1>3

\* What dropping a claim leaves in a worker's local state.
LEMMA IdleType ==
  ASSUME TypeOK, NEW w \in Worker, Idle(w)
  PROVE  /\ cur' \in [Worker -> [id : Job \cup {NoJob}, attempts : 0..MaxAttempts]]
         /\ outcome' \in [Worker -> {"none", "ok", "error", "lookup"}]
         /\ held' \in [Worker -> -1..Lease]
         /\ \A v \in Worker \ {w} : cur'[v] = cur[v] /\ held'[v] = held[v]
BY LeaseType DEF Idle, TypeOK, NoClaim

LEMMA ClaimTyped ==
  ASSUME Typed, NEW w \in Worker, Bury(w) \/ ClaimWon(w) \/ ClaimLost(w)
  PROVE  Typed'
<1>1. CASE Bury(w)
  <2>1. Snapshot(w).id \in Job
    BY <1>1, SnapshotType DEF Bury, Typed
  <2>2. jobs' \in [Job -> JobRecord]
    BY <1>1, <2>1, UpdateType DEF Bury, Typed, TypeOK
  <2>3. /\ batch' \in [Worker -> Snapshots]
        /\ pc' \in [Worker -> {"poll", "find", "loop", "run", "finish", "stopped"}]
        /\ pc'[w] = "loop" => batch'[w] # <<>>
        /\ pc'[w] \in {"poll", "loop"}
        /\ \A v \in Worker \ {w} : pc'[v] = pc[v] /\ batch'[v] = batch[v]
    BY <1>1, NextInBatchType DEF Bury, Typed
  <2>4. TypeOK'
    BY <1>1, <2>2, <2>3 DEF Bury, Typed, TypeOK
  <2>5. InHand'
    BY <1>1, <2>3 DEF Bury, Typed, InHand, Running
  <2> QED BY <2>4, <2>5 DEF Typed
<1>2. CASE ClaimWon(w)
  <2> DEFINE j == Snapshot(w).id
             n == Snapshot(w).attempts + 1
  <2>1. j \in Job /\ n \in 0..MaxAttempts
    BY <1>2, SnapshotType DEF ClaimWon, Typed
  <2>2. /\ jobs' = Claimed(j, w, n)
        /\ cur' = [cur EXCEPT ![w] = [id |-> j, attempts |-> n]]
        /\ held' = [held EXCEPT ![w] = Lease]
        /\ runs' = [runs EXCEPT ![j] = runs[j] + 1]
        /\ pc' = [pc EXCEPT ![w] = "run"] /\ pc[w] = "loop"
        /\ UNCHANGED <<batch, outcome, age, producer, spent>>
    BY <1>2 DEF ClaimWon
  <2> HIDE DEF j, n
  <2>3. jobs' \in [Job -> JobRecord]
    BY <2>1, <2>2, UpdateType DEF Typed
  <2>4. cur' \in [Worker -> [id : Job \cup {NoJob}, attempts : 0..MaxAttempts]]
    BY <2>1, <2>2 DEF Typed, TypeOK
  <2>5. held' \in [Worker -> -1..Lease] /\ runs' \in [Job -> Nat]
    BY <2>1, <2>2, LeaseType DEF Typed, TypeOK
  <2>6. TypeOK'
    BY <2>2, <2>3, <2>4, <2>5 DEF Typed, TypeOK
  <2>7. InHand'
    BY <2>1, <2>2 DEF Typed, TypeOK, InHand, Running
  <2> QED BY <2>6, <2>7 DEF Typed
<1>3. CASE ClaimLost(w)
  <2>1. /\ batch' \in [Worker -> Snapshots]
        /\ pc' \in [Worker -> {"poll", "find", "loop", "run", "finish", "stopped"}]
        /\ pc'[w] = "loop" => batch'[w] # <<>>
        /\ pc'[w] \in {"poll", "loop"}
        /\ \A v \in Worker \ {w} : pc'[v] = pc[v] /\ batch'[v] = batch[v]
    BY <1>3, NextInBatchType DEF ClaimLost, Typed
  <2>2. TypeOK'
    BY <1>3, <2>1 DEF ClaimLost, Typed, TypeOK
  <2>3. InHand'
    BY <1>3, <2>1 DEF ClaimLost, Typed, InHand, Running
  <2> QED BY <2>2, <2>3 DEF Typed
<1> QED BY <1>1, <1>2, <1>3

LEMMA EndTyped ==
  ASSUME Typed, NEW w \in Worker, Finish(w) \/ PassFails(w) \/ Crash(w)
  PROVE  Typed'
<1>1. CASE Finish(w)
  <2>1. jobs' \in [Job -> JobRecord]
    BY <1>1, RecordType DEF Finish, Typed
  <2>2. /\ batch' \in [Worker -> Snapshots]
        /\ pc' \in [Worker -> {"poll", "find", "loop", "run", "finish", "stopped"}]
        /\ pc'[w] = "loop" => batch'[w] # <<>>
        /\ pc'[w] \in {"poll", "loop"}
        /\ \A v \in Worker \ {w} : pc'[v] = pc[v] /\ batch'[v] = batch[v]
    BY <1>1, NextInBatchType DEF Finish, Typed
  <2>3. /\ cur' \in [Worker -> [id : Job \cup {NoJob}, attempts : 0..MaxAttempts]]
        /\ outcome' \in [Worker -> {"none", "ok", "error", "lookup"}]
        /\ held' \in [Worker -> -1..Lease]
        /\ \A v \in Worker \ {w} : cur'[v] = cur[v] /\ held'[v] = held[v]
    BY <1>1, IdleType DEF Finish, Typed
  <2>4. TypeOK'
    BY <1>1, <2>1, <2>2, <2>3 DEF Finish, Typed, TypeOK
  <2>5. InHand'
    BY <2>2, <2>3 DEF Typed, InHand, Running
  <2> QED BY <2>4, <2>5 DEF Typed
<1>2. ASSUME \/ PassFails(w) /\ spent' = [spent EXCEPT !.fault = spent.fault + 1]
             \/ Crash(w) /\ spent' = [spent EXCEPT !.crash = spent.crash + 1],
             jobs' \in [Job -> JobRecord],
             pc' = [pc EXCEPT ![w] = "poll"] \/ pc' = [pc EXCEPT ![w] = "stopped"]
      PROVE  Typed'
  <2>1. /\ cur' \in [Worker -> [id : Job \cup {NoJob}, attempts : 0..MaxAttempts]]
        /\ outcome' \in [Worker -> {"none", "ok", "error", "lookup"}]
        /\ held' \in [Worker -> -1..Lease]
        /\ \A v \in Worker \ {w} : cur'[v] = cur[v] /\ held'[v] = held[v]
    BY <1>2, IdleType DEF PassFails, Crash, Typed
  <2>2. <<>> \in Snapshots
    BY EmptySeq DEF Snapshots
  <2>3. batch' = [batch EXCEPT ![w] = <<>>] /\ age' = [age EXCEPT ![w] = 0]
    BY <1>2 DEF PassFails, Crash
  <2>4. batch' \in [Worker -> Snapshots] /\ age' \in [Worker -> Nat]
    BY <2>2, <2>3 DEF Typed, TypeOK
  <2>5. spent' \in [crash : Nat, fault : Nat, retry : Nat]
    <3>1. spent \in [crash : Nat, fault : Nat, retry : Nat]
      BY DEF Typed, TypeOK
    <3>2. /\ [spent EXCEPT !.fault = spent.fault + 1] \in [crash : Nat, fault : Nat, retry : Nat]
          /\ [spent EXCEPT !.crash = spent.crash + 1] \in [crash : Nat, fault : Nat, retry : Nat]
      BY <3>1
    <3> QED BY <1>2, <3>2
  <2>6. TypeOK'
    <3>1. runs' = runs /\ producer' = producer
      BY <1>2 DEF PassFails, Crash
    <3>2. pc' \in [Worker -> {"poll", "find", "loop", "run", "finish", "stopped"}]
      BY <1>2 DEF Typed, TypeOK
    <3>3. /\ runs' \in [Job -> Nat]
          /\ producer' \in [Producer -> [pc : {"idle", "lookup"}, key : Key \cup {NoKey},
                                         got : Job \cup {NoJob}]]
      BY <3>1 DEF Typed, TypeOK
    <3> QED BY <1>2, <2>1, <2>4, <2>5, <3>2, <3>3 DEF TypeOK
  <2>7. InHand'
    <3>1. ASSUME NEW v \in Worker
          PROVE  /\ pc'[v] \in {"loop", "run", "finish"} => batch'[v] # <<>>
                 /\ pc'[v] \in {"run", "finish"} => cur'[v].id \in Job
      <4>1. CASE v = w
        <5>1. pc'[w] \in {"poll", "stopped"}
          BY <1>2 DEF Typed, TypeOK
        <5> QED BY <4>1, <5>1
      <4>2. CASE v # w
        <5>1. pc'[v] = pc[v]
          BY <1>2, <4>2 DEF Typed, TypeOK
        <5>2. batch'[v] = batch[v] /\ cur'[v] = cur[v]
          BY <2>1, <2>3, <4>2 DEF Typed, TypeOK
        <5> QED BY <5>1, <5>2 DEF Typed, InHand, Running
      <4> QED BY <4>1, <4>2
    <3> QED BY <3>1 DEF InHand, Running
  <2> QED BY <2>6, <2>7 DEF Typed
<1>3. CASE PassFails(w)
  <2>1. jobs' \in [Job -> JobRecord]
    <3>1. CASE pc[w] = "finish"
      BY <1>3, <3>1, RecordType DEF PassFails, Ambiguous, Typed, TypeOK
    <3>2. CASE pc[w] = "loop"
      <4>1. /\ Snapshot(w).id \in Job
            /\ ~UsedUp(w) => Snapshot(w).attempts + 1 \in 0..MaxAttempts
        BY <3>2, SnapshotType DEF Typed
      <4>2. \/ jobs' = jobs
            \/ ~UsedUp(w) /\ jobs' = Claimed(Snapshot(w).id, w, Snapshot(w).attempts + 1)
            \/ jobs' = Buried(Snapshot(w).id)
        BY <1>3, <3>2 DEF PassFails, Ambiguous
      <4>3. jobs \in [Job -> JobRecord]
        BY DEF Typed, TypeOK
      <4>4. /\ ~UsedUp(w) => Claimed(Snapshot(w).id, w, Snapshot(w).attempts + 1)
                                \in [Job -> JobRecord]
            /\ Buried(Snapshot(w).id) \in [Job -> JobRecord]
        BY <4>1, UpdateType DEF Typed
      <4> QED BY <4>2, <4>3, <4>4
    <3>3. CASE pc[w] = "find"
      BY <1>3, <3>3 DEF PassFails, Ambiguous, Typed, TypeOK
    <3> QED BY <1>3, <3>1, <3>2, <3>3 DEF PassFails
  <2> QED BY <1>2, <1>3, <2>1 DEF PassFails
<1>4. CASE Crash(w)
  BY <1>2, <1>4 DEF Crash, Typed, TypeOK
<1> QED BY <1>1, <1>3, <1>4

LEMMA OtherTyped ==
  ASSUME Typed, (\E j \in Job : Retry(j) \/ Purge(j)) \/ Tick
  PROVE  Typed'
<1>1. ASSUME NEW j \in Job, Retry(j) PROVE Typed'
  <2>1. jobs' \in [Job -> JobRecord]
    BY <1>1, UpdateType DEF Retry, Typed
  <2>2. spent' \in [crash : Nat, fault : Nat, retry : Nat]
    <3>1. spent \in [crash : Nat, fault : Nat, retry : Nat]
      BY DEF Typed, TypeOK
    <3> QED BY <1>1, <3>1 DEF Retry
  <2>3. runs' \in [Job -> Nat]
    BY <1>1 DEF Retry, Typed, TypeOK
  <2> QED BY <1>1, <2>1, <2>2, <2>3 DEF Retry, Typed, TypeOK, InHand, Running, local
<1>2. ASSUME NEW j \in Job, Purge(j) PROVE Typed'
  <2>1. [Blank EXCEPT !.status = "gone"] \in JobRecord
    BY BlankType, FieldType DEF Statuses
  <2>2. jobs' \in [Job -> JobRecord]
    BY <1>2, <2>1 DEF Purge, Typed, TypeOK
  <2> QED BY <1>2, <2>2 DEF Purge, Typed, TypeOK, InHand, Running, local
<1>3. ASSUME Tick PROVE Typed'
  <2>1. ASSUME NEW j \in Job
        PROVE  [jobs[j] EXCEPT
                  !.wait = IF Stored(j) /\ @ > -Horizon THEN @ - 1 ELSE @,
                  !.lease = IF jobs[j].status = "running" /\ @ >= 0 THEN @ - 1 ELSE @]
                \in JobRecord
    <3>1. jobs[j] \in JobRecord
      BY DEF Typed, TypeOK
    <3>2. jobs[j].wait \in Int /\ jobs[j].lease \in -1..Lease
      BY <3>1 DEF JobRecord
    <3> DEFINE x == IF Stored(j) /\ jobs[j].wait > -Horizon
                    THEN jobs[j].wait - 1 ELSE jobs[j].wait
               q == [jobs[j] EXCEPT !.wait = x]
               y == IF jobs[j].status = "running" /\ jobs[j].lease >= 0
                    THEN jobs[j].lease - 1 ELSE jobs[j].lease
    <3>3. x \in Int /\ y \in -1..Lease
      BY <3>2, LeaseType
    <3>4. q \in JobRecord
      <4> HIDE DEF x
      <4> QED BY <3>1, <3>3, FieldType
    <3>5. [q EXCEPT !.lease = y] \in JobRecord
      <4> HIDE DEF q, y
      <4> QED BY <3>3, <3>4, FieldType
    <3>6. q.lease = jobs[j].lease
      BY <3>1 DEF JobRecord
    <3> QED BY <3>5, <3>6
  <2>2. jobs' \in [Job -> JobRecord]
    BY <1>3, <2>1 DEF Tick
  <2>3. held' \in [Worker -> -1..Lease] /\ age' \in [Worker -> Nat]
    <3>1. ASSUME NEW w \in Worker
          PROVE  /\ (IF Running(w) /\ held[w] >= 0 THEN held[w] - 1 ELSE held[w]) \in -1..Lease
                 /\ (IF pc[w] = "find" /\ age[w] < Horizon THEN age[w] + 1 ELSE age[w]) \in Nat
      BY LeaseType DEF Typed, TypeOK
    <3> QED BY <1>3, <3>1 DEF Tick
  <2> QED BY <1>3, <2>2, <2>3 DEF Tick, Typed, TypeOK, InHand, Running
<1> QED BY <1>1, <1>2, <1>3

LEMMA TypedStep == Typed /\ [Next]_vars => Typed'
<1> SUFFICES ASSUME Typed, [Next]_vars PROVE Typed'
  OBVIOUS
<1>1. CASE UNCHANGED vars
  BY <1>1 DEF vars, Typed, TypeOK, InHand, Running
<1>2. CASE Next
  <2>1. ASSUME NEW w \in Worker, WorkerStep(w) PROVE Typed'
    BY <2>1, PassTyped, ClaimTyped, EndTyped DEF WorkerStep
  <2> QED BY <1>2, <2>1, ProducerTyped, EndTyped, OtherTyped DEF Next
<1> QED BY <1>1, <1>2

\* Every reachable state is well typed, whatever crashes, fails, races or is retried.
THEOREM TypeCorrect == Spec => []TypeOK
<1>1. Spec => []Typed
  BY TypedInit, TypedStep, PTL DEF Spec
<1>2. Typed => TypeOK
  BY DEF Typed
<1> QED BY <1>1, <1>2, PTL

-----------------------------------------------------------------------------
(* The lease.                                                              *)

Safe == Typed /\ FinishedMeansOver /\ LeaseProtectsClaim

\* How the collection changes in one step, for every action but Tick: a record is
\* left alone or goes through one of these changes.
Change(j) ==
  \/ jobs'[j] = jobs[j]
  \/ jobs[j].status = "none" /\ jobs'[j].status = "queued" /\ ~jobs'[j].finished
  \/ Expired(j) /\ jobs'[j] = [jobs[j] EXCEPT !.status = "queued", !.lease = -1]
  \/ Claimable(j) /\ \E w \in Worker, n \in 0..MaxAttempts : jobs'[j] = Claimed(j, w, n)[j]
  \/ Claimable(j) /\ jobs'[j] = Buried(j)[j]
  \/ jobs[j].status = "dead" /\ jobs'[j] = Revived(j)[j]
  \/ jobs[j].finished /\ jobs'[j].status = "gone"
  \/ \E w \in Worker : /\ OwnClaim(w) /\ cur[w].id = j /\ ~Running(w)'
                        /\ jobs'[j] \in Endings(w)

\* What a change means for finished_at.
LEMMA ChangeKeepsFinished ==
  ASSUME Typed, FinishedMeansOver, NEW j \in Job, Change(j), Stored(j)'
  PROVE  jobs'[j].finished <=> Over(jobs'[j].status)
<1>1. jobs[j] \in JobRecord
  BY DEF Typed, TypeOK
<1>2. CASE jobs'[j] = jobs[j]
  BY <1>2 DEF FinishedMeansOver, Stored, Over
<1>3. CASE jobs[j].status = "none" /\ jobs'[j].status = "queued" /\ ~jobs'[j].finished
  BY <1>3 DEF Over
<1>4. CASE Expired(j) /\ jobs'[j] = [jobs[j] EXCEPT !.status = "queued", !.lease = -1]
  BY <1>1, <1>4 DEF FinishedMeansOver, Stored, Over, Expired, JobRecord
<1>5. CASE Claimable(j) /\ \E w \in Worker, n \in 0..MaxAttempts :
                            jobs'[j] = Claimed(j, w, n)[j]
  <2>1. /\ jobs'[j].status = "running"
        /\ jobs'[j].finished = jobs[j].finished
        /\ jobs[j].status = "queued"
    BY <1>1, <1>5 DEF Claimable, Claimed, JobRecord, Typed, TypeOK
  <2> QED BY <2>1 DEF FinishedMeansOver, Stored, Over
<1>6. CASE Claimable(j) /\ jobs'[j] = Buried(j)[j]
  BY <1>1, <1>6 DEF Over, Buried, JobRecord, Typed, TypeOK
<1>7. CASE jobs[j].status = "dead" /\ jobs'[j] = Revived(j)[j]
  BY <1>1, <1>7 DEF Over, Revived, JobRecord, Typed, TypeOK
<1>8. CASE jobs[j].finished /\ jobs'[j].status = "gone"
  BY <1>8 DEF Stored
<1>9. CASE \E w \in Worker : /\ OwnClaim(w) /\ cur[w].id = j /\ ~Running(w)'
                              /\ jobs'[j] \in Endings(w)
  <2>1. PICK w \in Worker : OwnClaim(w) /\ cur[w].id = j /\ jobs'[j] \in Endings(w)
    BY <1>9
  <2>2. ~jobs[j].finished /\ jobs[j].status = "running"
    BY <2>1 DEF OwnClaim, FinishedMeansOver, Stored, Over
  <2> DEFINE q == [jobs[j] EXCEPT !.lease = -1]
  <2>3. \/ jobs'[j] = [q EXCEPT !.status = "done", !.finished = TRUE]
        \/ jobs'[j] = [q EXCEPT !.status = "dead", !.finished = TRUE]
        \/ \E d \in 0..Backoff(cur[w].attempts) :
             jobs'[j] = [q EXCEPT !.status = "queued", !.wait = d]
    BY Zenon, <2>1 DEF Endings
  <2>4. q \in JobRecord /\ ~q.finished
    BY <1>1, <2>2, LeaseType DEF JobRecord
  <2> HIDE DEF q
  <2>5. /\ [q EXCEPT !.status = "done", !.finished = TRUE].status = "done"
        /\ [q EXCEPT !.status = "done", !.finished = TRUE].finished
        /\ [q EXCEPT !.status = "dead", !.finished = TRUE].status = "dead"
        /\ [q EXCEPT !.status = "dead", !.finished = TRUE].finished
    BY <2>4 DEF JobRecord
  <2>6. ASSUME NEW d PROVE /\ [q EXCEPT !.status = "queued", !.wait = d].status = "queued"
                           /\ ~[q EXCEPT !.status = "queued", !.wait = d].finished
    BY <2>4 DEF JobRecord
  <2>7. CASE jobs'[j] = [q EXCEPT !.status = "done", !.finished = TRUE]
    BY <2>5, <2>7 DEF Over
  <2>8. CASE jobs'[j] = [q EXCEPT !.status = "dead", !.finished = TRUE]
    BY <2>5, <2>8 DEF Over
  <2>9. CASE \E d \in 0..Backoff(cur[w].attempts) :
               jobs'[j] = [q EXCEPT !.status = "queued", !.wait = d]
    BY <2>6, <2>9 DEF Over
  <2> QED BY <2>3, <2>7, <2>8, <2>9
<1> QED BY <1>2, <1>3, <1>4, <1>5, <1>6, <1>7, <1>8, <1>9 DEF Change

\* No change reaches a job whose worker keeps running it on a lease with time left.
LEMMA ChangeKeepsClaim ==
  ASSUME Safe, NEW w \in Worker, Running(w), Running(w)', held[w] >= 0,
         Change(cur[w].id)
  PROVE  jobs'[cur[w].id] = jobs[cur[w].id]
<1> DEFINE j == cur[w].id
<1>1. j \in Job
  BY DEF Safe, Typed, InHand
<1>2. jobs[j].status = "running" /\ jobs[j].worker = w /\ jobs[j].lease >= 0
  BY DEF Safe, LeaseProtectsClaim, OwnClaim
<1>3. ~jobs[j].finished
  BY <1>1, <1>2 DEF Safe, FinishedMeansOver, Stored, Over
<1>4. ASSUME NEW v \in Worker, OwnClaim(v), cur[v].id = j, ~Running(v)'
      PROVE  FALSE
  BY <1>2, <1>4 DEF OwnClaim
<1>5. jobs[j].lease \in Int
  BY <1>1 DEF Safe, Typed, TypeOK, JobRecord
<1> QED BY <1>1, <1>2, <1>3, <1>4, <1>5 DEF Change, Expired, Claimable

\* Every action but Tick changes every record in one of these ways.
LEMMA ActionChanges ==
  ASSUME Typed, Next, ~Tick, NEW j \in Job
  PROVE  Change(j)
<1>1. ASSUME NEW p \in Producer, NEW i \in Job, NEW k \in Key \cup {NoKey},
             NEW d \in 0..MaxFuture, Insert(p, i, k, d)
      PROVE  Change(j)
  <2>1. CASE i = j
    BY <1>1, <2>1 DEF Insert, Blank, Change, Typed, TypeOK
  <2>2. CASE i # j
    BY <1>1, <2>2 DEF Insert, Change, Typed, TypeOK
  <2> QED BY <2>1, <2>2
<1>2. ASSUME jobs' = jobs PROVE Change(j)
  BY <1>2 DEF Change
<1>3. ASSUME NEW w \in Worker, StartPass(w) PROVE Change(j)
  BY <1>3 DEF StartPass, Change
<1>4. ASSUME NEW w \in Worker, NEW i \in Job, Claimable(i),
             \/ jobs' = Buried(i)
             \/ \E n \in 0..MaxAttempts : jobs' = Claimed(i, w, n)
      PROVE  Change(j)
  <2>1. CASE i = j
    BY <1>4, <2>1 DEF Change
  <2>2. CASE i # j
    <3>1. CASE jobs' = Buried(i)
      BY <2>2, <3>1 DEF Change, Buried, Typed, TypeOK
    <3>2. ASSUME NEW n, jobs' = Claimed(i, w, n) PROVE jobs'[j] = jobs[j]
      BY <2>2, <3>2 DEF Claimed, Typed, TypeOK
    <3> QED BY <1>4, <3>1, <3>2 DEF Change
  <2> QED BY <2>1, <2>2
<1>5. ASSUME NEW w \in Worker, Bury(w) \/ ClaimWon(w) PROVE Change(j)
  <2>1. /\ Snapshot(w).id \in Job
        /\ ~UsedUp(w) => Snapshot(w).attempts + 1 \in 0..MaxAttempts
    BY <1>5, SnapshotType DEF Bury, ClaimWon, Typed
  <2>2. CASE Bury(w)
    BY <1>2, <1>4, <2>1, <2>2 DEF Bury
  <2>3. CASE ClaimWon(w)
    BY <1>4, <2>1, <2>3 DEF ClaimWon
  <2> QED BY <1>5, <2>2, <2>3
<1>6. ASSUME NEW w \in Worker, Record(w), pc[w] = "finish", ~Running(w)'
      PROVE  Change(j)
  <2>1. cur[w].id \in Job
    BY <1>6 DEF Typed, InHand, Running
  <2>2. CASE cur[w].id = j
    BY <1>6, <2>1, <2>2 DEF Record, Change, Typed, TypeOK
  <2>3. CASE cur[w].id # j
    BY <1>6, <2>1, <2>3 DEF Record, Change, Typed, TypeOK
  <2> QED BY <2>2, <2>3
<1>7. ASSUME NEW w \in Worker, Finish(w) PROVE Change(j)
  <2>1. ~Running(w)'
    BY <1>7, NextInBatchType DEF Finish, Typed, Running
  <2> QED BY <1>6, <1>7, <2>1 DEF Finish
<1>8. ASSUME NEW w \in Worker, PassFails(w) PROVE Change(j)
  <2>1. ~Running(w)'
    BY <1>8 DEF PassFails, Running, Typed, TypeOK
  <2>2. CASE pc[w] = "loop"
    <3>1. /\ Snapshot(w).id \in Job
          /\ ~UsedUp(w) => Snapshot(w).attempts + 1 \in 0..MaxAttempts
      BY <2>2, SnapshotType DEF Typed
    <3> QED BY <1>2, <1>4, <1>8, <2>2, <3>1 DEF PassFails, Ambiguous
  <2>3. CASE pc[w] = "finish"
    BY <1>2, <1>6, <1>8, <2>1, <2>3 DEF PassFails, Ambiguous
  <2>4. CASE pc[w] = "find"
    BY <1>2, <1>8, <2>4 DEF PassFails, Ambiguous
  <2> QED BY <1>8, <2>2, <2>3, <2>4 DEF PassFails
<1>9. ASSUME NEW i \in Job, Retry(i) \/ Purge(i) PROVE Change(j)
  <2>1. CASE i = j
    BY <1>9, <2>1 DEF Retry, Purge, Blank, Change, Typed, TypeOK
  <2>2. CASE i # j
    BY <1>9, <2>2 DEF Retry, Revived, Purge, Change, Typed, TypeOK
  <2> QED BY <2>1, <2>2
<1>10. ASSUME NEW w \in Worker, WorkerStep(w) PROVE Change(j)
  BY <1>2, <1>3, <1>5, <1>7, <1>10 DEF WorkerStep, FindDue, ClaimLost, HandlerEnds
<1> QED BY <1>1, <1>2, <1>8, <1>9, <1>10 DEF Next, InsertRefused, LookUp, Crash

\* A worker that runs a job after the step has just claimed it or ran it before.
LEMMA RunningBefore ==
  ASSUME Typed, Next, ~Tick, NEW w \in Worker, Running(w)', ~ClaimWon(w)
  PROVE  Running(w) /\ cur'[w] = cur[w] /\ held'[w] = held[w]
<1>1. ASSUME NEW v \in Worker, WorkerStep(v)
      PROVE  Running(w) /\ cur'[w] = cur[w] /\ held'[w] = held[w]
  <2>1. CASE StartPass(v)
    BY <2>1 DEF StartPass, Running, Typed, TypeOK
  <2>2. CASE FindDue(v)
    BY <2>2 DEF FindDue, Running, Typed, TypeOK
  <2>3. CASE Bury(v) \/ ClaimLost(v)
    BY <2>3, NextInBatchType DEF Bury, ClaimLost, Running, Typed
  <2>4. CASE ClaimWon(v)
    BY <2>4 DEF ClaimWon, Running, Typed, TypeOK
  <2>5. CASE HandlerEnds(v)
    BY <2>5 DEF HandlerEnds, Running, Typed, TypeOK
  <2>6. CASE Finish(v)
    <3>1. /\ pc'[v] \in {"poll", "loop"} /\ \A u \in Worker \ {v} : pc'[u] = pc[u]
      BY <2>6, NextInBatchType DEF Finish, Typed
    <3>2. \A u \in Worker \ {v} : cur'[u] = cur[u] /\ held'[u] = held[u]
      BY <2>6, IdleType DEF Finish, Typed
    <3> QED BY <3>1, <3>2 DEF Running
  <2> QED BY <1>1, <2>1, <2>2, <2>3, <2>4, <2>5, <2>6 DEF WorkerStep
<1>2. ASSUME NEW v \in Worker, PassFails(v) \/ Crash(v)
      PROVE  Running(w) /\ cur'[w] = cur[w] /\ held'[w] = held[w]
  <2>1. pc'[v] \in {"poll", "stopped"} /\ (v # w => pc'[w] = pc[w])
    BY <1>2 DEF PassFails, Crash, Typed, TypeOK
  <2>2. v # w
    BY <2>1 DEF Running
  <2>3. cur'[w] = cur[w] /\ held'[w] = held[w]
    BY <1>2, <2>2, IdleType DEF PassFails, Crash, Typed
  <2> QED BY <2>1, <2>2, <2>3 DEF Running
<1>3. ASSUME UNCHANGED local
      PROVE  Running(w) /\ cur'[w] = cur[w] /\ held'[w] = held[w]
  BY <1>3 DEF local, Running
<1> QED BY <1>1, <1>2, <1>3 DEF Next, Insert, InsertRefused, LookUp, Retry, Purge

LEMMA SafeInit == Init => Safe
BY TypedInit DEF Safe, Init, Blank, FinishedMeansOver, Stored, LeaseProtectsClaim, Running

\* The clock only moves the timers of a record.
LEMMA TickChanges ==
  ASSUME Typed, Tick, NEW j \in Job
  PROVE  /\ jobs'[j].status = jobs[j].status /\ jobs'[j].worker = jobs[j].worker
         /\ jobs'[j].finished = jobs[j].finished
         /\ jobs'[j].lease = IF jobs[j].status = "running" /\ jobs[j].lease >= 0
                             THEN jobs[j].lease - 1 ELSE jobs[j].lease
<1>1. jobs[j] \in JobRecord
  BY DEF Typed, TypeOK
<1> QED BY <1>1 DEF Tick, JobRecord

LEMMA TickSafe == Safe /\ Tick => FinishedMeansOver' /\ LeaseProtectsClaim'
<1> SUFFICES ASSUME Safe, Tick PROVE FinishedMeansOver' /\ LeaseProtectsClaim'
  OBVIOUS
<1>1. ASSUME NEW j \in Job
      PROVE  /\ jobs'[j].status = jobs[j].status /\ jobs'[j].worker = jobs[j].worker
             /\ jobs'[j].finished = jobs[j].finished
             /\ jobs'[j].lease = IF jobs[j].status = "running" /\ jobs[j].lease >= 0
                                 THEN jobs[j].lease - 1 ELSE jobs[j].lease
  BY TickChanges DEF Safe
<1>2. FinishedMeansOver'
  BY <1>1 DEF Safe, FinishedMeansOver, Stored
<1>3. ASSUME NEW w \in Worker, Running(w)', held'[w] >= 0
      PROVE  OwnClaim(w)' /\ jobs'[cur'[w].id].lease = held'[w]
  <2>1. Running(w) /\ cur'[w] = cur[w] /\ cur[w].id \in Job
    BY <1>3 DEF Tick, Running, Safe, Typed, InHand
  <2>2. held[w] \in -1..Lease
        /\ held'[w] = IF held[w] >= 0 THEN held[w] - 1 ELSE held[w]
    BY <2>1 DEF Tick, Safe, Typed, TypeOK
  <2>3. held[w] >= 0 /\ held'[w] = held[w] - 1
    BY <1>3, <2>2, LeaseType
  <2>4. OwnClaim(w) /\ jobs[cur[w].id].lease = held[w]
    BY <2>1, <2>3 DEF Safe, LeaseProtectsClaim
  <2> QED BY <1>1, <2>1, <2>3, <2>4 DEF OwnClaim
<1> QED BY <1>2, <1>3 DEF LeaseProtectsClaim

LEMMA SafeStep == Safe /\ [Next]_vars => Safe'
<1> SUFFICES ASSUME Safe, [Next]_vars PROVE Safe'
  OBVIOUS
<1>1. Typed'
  BY TypedStep DEF Safe
<1>2. CASE UNCHANGED vars
  <2>1. FinishedMeansOver'
    BY <1>2 DEF vars, Safe, FinishedMeansOver, Stored
  <2>2. LeaseProtectsClaim'
    BY <1>2 DEF vars, Safe, LeaseProtectsClaim, Running, OwnClaim
  <2> QED BY <1>1, <2>1, <2>2 DEF Safe
<1>3. CASE Tick
  BY <1>1, <1>3, TickSafe DEF Safe
<1>4. CASE Next /\ ~Tick
  <2>1. \A j \in Job : Change(j)
    BY <1>4, ActionChanges DEF Safe
  <2>2. FinishedMeansOver'
    BY <2>1, ChangeKeepsFinished DEF Safe, FinishedMeansOver
  <2>3. ASSUME NEW w \in Worker, Running(w)', held'[w] >= 0
        PROVE  OwnClaim(w)' /\ jobs'[cur'[w].id].lease = held'[w]
    <3>1. CASE ClaimWon(w)
      <4> DEFINE j == Snapshot(w).id
                 n == Snapshot(w).attempts + 1
      <4>1. j \in Job
        BY <3>1, SnapshotType DEF ClaimWon, Safe, Typed
      <4>2. jobs[j] \in JobRecord
        BY <4>1 DEF Safe, Typed, TypeOK
      <4>3. jobs'[j] = [jobs[j] EXCEPT !.status = "running", !.attempts = n,
                                       !.lease = Lease, !.worker = w]
        BY <3>1, <4>1 DEF ClaimWon, Claimed, Safe, Typed, TypeOK
      <4>4. jobs'[j].status = "running" /\ jobs'[j].worker = w /\ jobs'[j].lease = Lease
        BY <4>2, <4>3 DEF JobRecord
      <4>5. cur'[w].id = j /\ held'[w] = Lease
        BY <3>1 DEF ClaimWon, Safe, Typed, TypeOK
      <4> QED BY <4>4, <4>5 DEF OwnClaim
    <3>2. CASE ~ClaimWon(w)
      <4>1. Running(w) /\ cur'[w] = cur[w] /\ held'[w] = held[w]
        BY <1>4, <2>3, <3>2, RunningBefore DEF Safe
      <4>2. cur[w].id \in Job
        BY <4>1 DEF Safe, Typed, InHand
      <4>3. jobs'[cur[w].id] = jobs[cur[w].id]
        BY <2>1, <2>3, <4>1, <4>2, ChangeKeepsClaim
      <4>4. OwnClaim(w) /\ jobs[cur[w].id].lease = held[w]
        BY <2>3, <4>1 DEF Safe, LeaseProtectsClaim
      <4> QED BY <4>1, <4>3, <4>4 DEF OwnClaim
    <3> QED BY <3>1, <3>2
  <2>4. LeaseProtectsClaim'
    BY <2>3 DEF LeaseProtectsClaim
  <2> QED BY <1>1, <2>2, <2>4 DEF Safe
<1> QED BY <1>2, <1>3, <1>4

\* No requeue, claim, outcome, retry or purge touches a job while the worker that
\* claimed it has time left on its lease.
THEOREM LeaseIsSafe == Spec => []LeaseProtectsClaim
<1>1. Spec => []Safe
  BY SafeInit, SafeStep, PTL DEF Spec
<1>2. Safe => LeaseProtectsClaim
  BY DEF Safe
<1> QED BY <1>1, <1>2, PTL

\* The time-to-live on finished_at can only delete jobs that are over.
THEOREM OnlyFinishedArePurged == Spec => []FinishedMeansOver
<1>1. Spec => []Safe
  BY SafeInit, SafeStep, PTL DEF Spec
<1>2. Safe => FinishedMeansOver
  BY DEF Safe
<1> QED BY <1>1, <1>2, PTL

\* A done job is not claimed, requeued, buried or retried in any step.
LEMMA DoneStep ==
  ASSUME Safe, [Next]_vars, NEW j \in Job, jobs[j].status = "done"
  PROVE  jobs'[j].status \in {"done", "gone"} /\ runs'[j] = runs[j]
<1>1. CASE UNCHANGED vars
  <2>1. jobs'[j].status = jobs[j].status /\ runs'[j] = runs[j]
    BY <1>1 DEF vars
  <2> QED BY <2>1, Zenon
<1>2. CASE Tick
  BY <1>2, TickChanges DEF Tick, Safe
<1>3. CASE Next /\ ~Tick
  <2>1. Change(j)
    BY <1>3, ActionChanges DEF Safe
  <2>2. jobs'[j].status \in {"done", "gone"}
    BY <2>1 DEF Change, Expired, Claimable, OwnClaim
  <2>3. ASSUME NEW w \in Worker, WorkerStep(w) PROVE runs'[j] = runs[j]
    <3>1. CASE ClaimWon(w)
      <4>1. Snapshot(w).id # j
        BY <3>1 DEF ClaimWon, Claimable
      <4> QED BY <3>1, <4>1 DEF ClaimWon, Safe, Typed, TypeOK
    <3> QED BY <2>3, <3>1 DEF WorkerStep, StartPass, FindDue, Bury, ClaimLost,
                              HandlerEnds, Finish
  <2>4. ASSUME NEW i \in Job, Retry(i) PROVE runs'[j] = runs[j]
    BY <2>4 DEF Retry, Safe, Typed, TypeOK
  <2>5. runs'[j] = runs[j]
    BY <1>3, <2>3, <2>4 DEF Next, Insert, InsertRefused, LookUp, PassFails, Crash, Purge
  <2> QED BY <2>2, <2>5
<1> QED BY <1>1, <1>2, <1>3

\* A job that is done is never run or changed again, only deleted.
THEOREM DoneJobsStayDone == Spec => DoneIsFinal
<1>1. Spec => []Safe
  BY SafeInit, SafeStep, PTL DEF Spec
<1>2. Safe /\ [Next]_vars =>
        [\A j \in Job : jobs[j].status = "done" =>
           /\ jobs'[j].status \in {"done", "gone"}
           /\ runs'[j] = runs[j]]_vars
  BY DoneStep
<1> QED BY <1>1, <1>2, PTL DEF Spec, DoneIsFinal

-----------------------------------------------------------------------------
(* Handlers and writes that keep to the time limit.                        *)

\* A prompt worker is done with a job before its lease is over.
InLease == Prompt => \A w \in Worker : Running(w) => held[w] >= 0

LEMMA InLeaseStep == Safe /\ InLease /\ [Next]_vars => InLease'
<1> SUFFICES ASSUME Safe, InLease, [Next]_vars, Prompt, NEW w \in Worker, Running(w)'
             PROVE  held'[w] >= 0
  BY DEF InLease
<1>1. CASE UNCHANGED vars
  BY <1>1 DEF vars, InLease, Running
<1>2. CASE Tick
  <2>1. Running(w) /\ pc'[w] = pc[w] /\ InTime(w)
    BY <1>2 DEF Tick, Running
  <2>2. held[w] \in -1..Lease /\ held[w] >= 0
    BY <2>1 DEF InLease, Safe, Typed, TypeOK
  <2>3. held[w] > 0
    BY <2>1, <2>2 DEF InTime, Running, Lease
  <2>4. held'[w] = held[w] - 1
    BY <1>2, <2>1, <2>2 DEF Tick
  <2> QED BY <2>2, <2>3, <2>4, LeaseType
<1>3. CASE Next /\ ~Tick
  <2>1. CASE ClaimWon(w)
    BY <2>1, LeaseType DEF ClaimWon, Safe, Typed, TypeOK
  <2>2. CASE ~ClaimWon(w)
    BY <1>3, <2>2, RunningBefore DEF InLease, Safe
  <2> QED BY <2>1, <2>2
<1> QED BY <1>1, <1>2, <1>3

\* As long as handlers and the writes of their outcomes keep to the time limit, no
\* job is ever run by two workers at once.
THEOREM NoTwoRuns == Spec => []NoConcurrentRuns
<1>1. Init => InLease
  BY DEF Init, InLease, Running
<1>2. Spec => [](Safe /\ InLease)
  BY SafeInit, SafeStep, InLeaseStep, <1>1, PTL DEF Spec
<1>3. Safe /\ InLease => NoConcurrentRuns
  BY DEF Safe, InLease, LeaseProtectsClaim, NoConcurrentRuns, OwnClaim
<1> QED BY <1>2, <1>3, PTL

\* What the queue keeps at every moment (jobs.py:37-214).
THEOREM QueueStaysSafe == Spec => []QueueIsSafe
<1>1. TypeOK /\ LeaseProtectsClaim /\ FinishedMeansOver => QueueIsSafe
  BY DEF QueueIsSafe
<1> QED BY <1>1, TypeCorrect, LeaseIsSafe, OnlyFinishedArePurged, PTL

-----------------------------------------------------------------------------
(* Idempotency keys.                                                       *)

\* A change adds no key to a stored job: only an insert gives one.
LEMMA ChangeKeepsKey ==
  ASSUME Typed, NEW j \in Job, Change(j), jobs[j].status # "none", Stored(j)'
  PROVE  Stored(j) /\ jobs'[j].key = jobs[j].key
<1>1. jobs[j] \in JobRecord
  BY DEF Typed, TypeOK
<1>2. CASE jobs'[j] = jobs[j]
  BY <1>2 DEF Stored
<1>3. CASE Expired(j) /\ jobs'[j] = [jobs[j] EXCEPT !.status = "queued", !.lease = -1]
  BY <1>1, <1>3 DEF Expired, Stored, JobRecord
<1>4. CASE Claimable(j) /\ \E w \in Worker, n \in 0..MaxAttempts :
                            jobs'[j] = Claimed(j, w, n)[j]
  BY <1>1, <1>4 DEF Claimable, Claimed, Stored, JobRecord, Typed, TypeOK
<1>5. CASE Claimable(j) /\ jobs'[j] = Buried(j)[j]
  BY <1>1, <1>5 DEF Claimable, Buried, Stored, JobRecord, Typed, TypeOK
<1>6. CASE jobs[j].status = "dead" /\ jobs'[j] = Revived(j)[j]
  BY <1>1, <1>6 DEF Revived, Stored, JobRecord, Typed, TypeOK
<1>7. CASE jobs[j].finished /\ jobs'[j].status = "gone"
  BY <1>7 DEF Stored
<1>8. CASE \E w \in Worker : /\ OwnClaim(w) /\ cur[w].id = j /\ ~Running(w)'
                              /\ jobs'[j] \in Endings(w)
  <2>1. PICK w \in Worker : OwnClaim(w) /\ cur[w].id = j /\ jobs'[j] \in Endings(w)
    BY <1>8
  <2> DEFINE q == [jobs[j] EXCEPT !.lease = -1]
  <2>2. \/ jobs'[j] = [q EXCEPT !.status = "done", !.finished = TRUE]
        \/ jobs'[j] = [q EXCEPT !.status = "dead", !.finished = TRUE]
        \/ \E d \in 0..Backoff(cur[w].attempts) :
             jobs'[j] = [q EXCEPT !.status = "queued", !.wait = d]
    BY Zenon, <2>1 DEF Endings
  <2>3. q \in JobRecord /\ q.key = jobs[j].key
    BY <1>1, LeaseType DEF JobRecord
  <2>4. jobs'[j].key = jobs[j].key
    <3> HIDE DEF q
    <3> QED BY <2>2, <2>3 DEF JobRecord
  <2> QED BY <2>1, <2>4 DEF OwnClaim, Stored
<1> QED BY <1>2, <1>3, <1>4, <1>5, <1>6, <1>7, <1>8 DEF Change

\* Only an insert makes a record.
LEMMA NothingInserts ==
  ASSUME Typed, Next, ~Tick, NEW j \in Job, jobs[j].status = "none",
         ~\E p \in Producer, i \in Job, k \in Key \cup {NoKey}, d \in 0..MaxFuture :
            Insert(p, i, k, d)
  PROVE  jobs'[j].status = "none"
<1>1. jobs[j] \in JobRecord /\ jobs \in [Job -> JobRecord]
  BY DEF Typed, TypeOK
<1>2. ASSUME NEW i \in Job, Claimable(i),
             \/ jobs' = Buried(i)
             \/ \E w \in Worker, n \in 0..MaxAttempts : jobs' = Claimed(i, w, n)
      PROVE  jobs'[j] = jobs[j]
  <2>1. i # j
    BY <1>2 DEF Claimable
  <2> QED BY <1>1, <1>2, <2>1 DEF Buried, Claimed
<1>3. ASSUME NEW w \in Worker, Record(w), pc[w] = "finish" PROVE jobs'[j] = jobs[j]
  <2>1. CASE ~OwnClaim(w)
    BY <1>3, <2>1 DEF Record
  <2>2. CASE OwnClaim(w)
    <3>1. cur[w].id # j
      BY <2>2 DEF OwnClaim
    <3> QED BY <1>1, <1>3, <2>2, <3>1 DEF Record
  <2> QED BY <2>1, <2>2
<1>4. ASSUME NEW w \in Worker, Bury(w) \/ ClaimWon(w) PROVE jobs'[j] = jobs[j]
  <2>1. /\ Snapshot(w).id \in Job
        /\ ~UsedUp(w) => Snapshot(w).attempts + 1 \in 0..MaxAttempts
    BY <1>4, SnapshotType DEF Bury, ClaimWon, Typed
  <2> QED BY <1>2, <1>4, <2>1 DEF Bury, ClaimWon
<1>5. ASSUME NEW w \in Worker, PassFails(w) PROVE jobs'[j] = jobs[j]
  <2>1. pc[w] = "loop" => /\ Snapshot(w).id \in Job
                          /\ ~UsedUp(w) => Snapshot(w).attempts + 1 \in 0..MaxAttempts
    BY SnapshotType DEF Typed
  <2> QED BY <1>2, <1>3, <1>5, <2>1 DEF PassFails, Ambiguous
<1>6. ASSUME NEW w \in Worker, StartPass(w) PROVE jobs'[j] = jobs[j]
  BY <1>6 DEF StartPass, Expired
<1>7. ASSUME NEW w \in Worker, Finish(w) PROVE jobs'[j] = jobs[j]
  BY <1>3, <1>7 DEF Finish
<1>8. ASSUME NEW i \in Job, Retry(i) \/ Purge(i) PROVE jobs'[j] = jobs[j]
  <2>1. i # j
    BY <1>8 DEF Retry, Purge, Stored
  <2> QED BY <1>1, <1>8, <2>1 DEF Retry, Revived, Purge
<1>9. ASSUME NEW w \in Worker, WorkerStep(w) PROVE jobs'[j] = jobs[j]
  BY <1>4, <1>6, <1>7, <1>9 DEF WorkerStep, FindDue, ClaimLost, HandlerEnds
<1> QED BY <1>5, <1>8, <1>9 DEF Next, InsertRefused, LookUp, Crash

LEMMA KeysStep == Typed /\ OneJobPerKey /\ [Next]_vars => OneJobPerKey'
<1> SUFFICES ASSUME Typed, OneJobPerKey, [Next]_vars PROVE OneJobPerKey'
  OBVIOUS
<1>1. CASE UNCHANGED vars
  BY <1>1 DEF vars, OneJobPerKey, Stored
<1>2. CASE Tick
  <2>1. \A j \in Job : jobs'[j].status = jobs[j].status /\ jobs'[j].key = jobs[j].key
    <3>1. SUFFICES ASSUME NEW j \in Job
                   PROVE  jobs'[j].status = jobs[j].status /\ jobs'[j].key = jobs[j].key
      OBVIOUS
    <3>2. jobs[j] \in JobRecord
      BY DEF Typed, TypeOK
    <3> QED BY <1>2, <3>2 DEF Tick, JobRecord
  <2> QED BY <2>1 DEF OneJobPerKey, Stored
<1>3. ASSUME NEW p \in Producer, NEW i \in Job, NEW k \in Key \cup {NoKey},
             NEW d \in 0..MaxFuture, Insert(p, i, k, d)
      PROVE  OneJobPerKey'
  <2>1. jobs'[i].key = k /\ \A j \in Job \ {i} : jobs'[j] = jobs[j]
    BY <1>3 DEF Insert, Blank, Typed, TypeOK
  <2>2. k # NoKey => \A j \in Job : Stored(j) => jobs[j].key # k
    BY <1>3 DEF Insert, KeyTaken
  <2>3. \A j \in Job \ {i} : Stored(j)' = Stored(j)
    BY <2>1 DEF Stored
  <2> QED BY <2>1, <2>2, <2>3 DEF OneJobPerKey
<1>4. CASE /\ Next /\ ~Tick
           /\ ~\E p \in Producer, i \in Job, k \in Key \cup {NoKey}, d \in 0..MaxFuture :
                 Insert(p, i, k, d)
  <2>1. \A j \in Job : Change(j)
    BY <1>4, ActionChanges
  <2>2. ASSUME NEW j \in Job, jobs[j].status = "none" PROVE jobs'[j].status = "none"
    BY <1>4, <2>2, NothingInserts
  <2>3. \A j \in Job : Stored(j)' => Stored(j) /\ jobs'[j].key = jobs[j].key
    BY <2>1, <2>2, ChangeKeepsKey DEF Stored
  <2> QED BY <2>3 DEF OneJobPerKey
<1> QED BY <1>1, <1>2, <1>3, <1>4

\* Of all the jobs there are one at most carries an idempotency key, however producers race
\* (jobs.py:80).
THEOREM KeysAreUnique == Spec => []OneJobPerKey
<1>1. Init => Typed /\ OneJobPerKey
  BY TypedInit DEF Init, Blank, OneJobPerKey, Stored
<1>2. Typed /\ OneJobPerKey /\ [Next]_vars => (Typed /\ OneJobPerKey)'
  BY TypedStep, KeysStep
<1> QED BY <1>1, <1>2, PTL DEF Spec

-----------------------------------------------------------------------------
(* Jobs implements JobQueue.                                               *)

\* Who runs no job has none in hand, so a job is only taken by a worker that is free.
FreeHanded == \A w \in Worker : ~Running(w) => cur[w].id = NoJob

LEMMA FreeHandedStep == Typed /\ FreeHanded /\ [Next]_vars => FreeHanded'
<1> SUFFICES ASSUME Typed, FreeHanded, [Next]_vars, NEW w \in Worker, ~Running(w)'
             PROVE  cur'[w].id = NoJob
  BY DEF FreeHanded
<1>1. /\ pc \in [Worker -> {"poll", "find", "loop", "run", "finish", "stopped"}]
      /\ cur \in [Worker -> [id : Job \cup {NoJob}, attempts : 0..MaxAttempts]]
  BY DEF Typed, TypeOK
<1>2. ASSUME NEW v \in Worker, Idle(v), \A u \in Worker \ {v} : pc'[u] = pc[u]
      PROVE  cur'[w].id = NoJob
  BY <1>1, <1>2 DEF Idle, NoClaim, FreeHanded, Running
<1>3. ASSUME cur' = cur, Running(w) => Running(w)' PROVE cur'[w].id = NoJob
  BY <1>3 DEF FreeHanded
<1>4. ASSUME NEW v \in Worker, WorkerStep(v) PROVE cur'[w].id = NoJob
  <2>1. CASE StartPass(v) \/ FindDue(v) \/ HandlerEnds(v)
    BY <1>1, <1>3, <2>1 DEF StartPass, FindDue, HandlerEnds, Running
  <2>2. CASE Bury(v) \/ ClaimLost(v)
    <3>1. \A u \in Worker \ {v} : pc'[u] = pc[u]
      BY <2>2, NextInBatchType DEF Bury, ClaimLost, Typed
    <3> QED BY <1>3, <2>2, <3>1 DEF Bury, ClaimLost, Running
  <2>3. CASE ClaimWon(v)
    <3>1. v # w
      BY <1>1, <2>3 DEF ClaimWon, Running
    <3> QED BY <1>1, <2>3, <3>1 DEF ClaimWon, Running, FreeHanded
  <2>4. CASE Finish(v)
    BY <1>2, <2>4, NextInBatchType DEF Finish, Typed
  <2> QED BY <1>4, <2>1, <2>2, <2>3, <2>4 DEF WorkerStep
<1>5. ASSUME NEW v \in Worker, PassFails(v) \/ Crash(v) PROVE cur'[w].id = NoJob
  BY <1>1, <1>2, <1>5 DEF PassFails, Crash
<1>6. CASE UNCHANGED local
  BY <1>3, <1>6 DEF local, Running
<1>7. CASE Tick
  BY <1>3, <1>7 DEF Tick, Running
<1> QED BY <1>4, <1>5, <1>6, <1>7
        DEF Next, vars, local, Insert, InsertRefused, LookUp, Retry, Purge

\* The state of the queue that a state of Jobs stands for.
States == [j \in Job |-> StateOf(j)]
Holders == [j \in Job |-> HolderOf(j)]
Tasks == [w \in Worker |-> cur[w].id]

\* What a step on one record is to the queue.
LEMMA OneRecord ==
  ASSUME NEW j \in Job, \A i \in Job \ {j} : jobs'[i] = jobs[i],
         NEW s, NEW h, StateOf(j)' = s, HolderOf(j)' = h
  PROVE  States' = [States EXCEPT ![j] = s] /\ Holders' = [Holders EXCEPT ![j] = h]
<1>1. \A i \in Job \ {j} : StateOf(i)' = StateOf(i) /\ HolderOf(i)' = HolderOf(i)
  BY DEF StateOf, HolderOf
<1>2. States' = [i \in Job |-> StateOf(i)'] /\ Holders' = [i \in Job |-> HolderOf(i)']
  BY DEF States, Holders
<1> QED BY <1>1, <1>2 DEF States, Holders

LEMMA SameQueue ==
  ASSUME \A i \in Job : jobs'[i].status = jobs[i].status /\ jobs'[i].worker = jobs[i].worker
  PROVE  States' = States /\ Holders' = Holders
<1>1. States' = [i \in Job |-> StateOf(i)'] /\ Holders' = [i \in Job |-> HolderOf(i)']
  BY DEF States, Holders
<1>2. \A i \in Job : StateOf(i)' = StateOf(i) /\ HolderOf(i)' = HolderOf(i)
  BY DEF StateOf, HolderOf
<1> QED BY <1>1, <1>2 DEF States, Holders

QueueStep == Queue!Next \/ UNCHANGED <<States, Holders, Tasks>>

LEMMA ClaimIsTake ==
  ASSUME Typed, FreeHanded, NEW w \in Worker, NEW j \in Job, NEW n \in 0..MaxAttempts,
         Claimable(j), ~Running(w), jobs' = Claimed(j, w, n),
         Tasks' = Tasks \/ Tasks' = [Tasks EXCEPT ![w] = j]
  PROVE  QueueStep
<1>1. jobs \in [Job -> JobRecord] /\ jobs[j] \in JobRecord
  BY DEF Typed, TypeOK
<1>2. \A i \in Job \ {j} : jobs'[i] = jobs[i]
  BY <1>1 DEF Claimed
<1>3. jobs'[j].status = "running" /\ jobs'[j].worker = w
  BY <1>1 DEF Claimed, JobRecord
<1>4. States' = [States EXCEPT ![j] = "held"] /\ Holders' = [Holders EXCEPT ![j] = w]
  BY <1>2, <1>3, OneRecord DEF StateOf, HolderOf
<1>5. States[j] = "queued" /\ Tasks[w] = NoJob
  BY DEF Claimable, States, StateOf, Tasks, FreeHanded
<1>6. CASE Tasks' = Tasks
  <2>1. Queue!TakeUnaware(j, w)
    BY <1>4, <1>5, <1>6 DEF Queue!TakeUnaware, States, Holders, Tasks
  <2> QED BY <2>1 DEF Queue!Next, QueueStep
<1>7. CASE Tasks' = [Tasks EXCEPT ![w] = j]
  <2>1. Queue!Take(j, w)
    BY <1>4, <1>5, <1>7 DEF Queue!Take, States, Holders, Tasks
  <2> QED BY <2>1 DEF Queue!Next, QueueStep
<1> QED BY <1>6, <1>7

LEMMA BuriedIsBury ==
  ASSUME Typed, NEW j \in Job, Claimable(j), jobs' = Buried(j), Tasks' = Tasks
  PROVE  QueueStep
<1>1. jobs \in [Job -> JobRecord] /\ jobs[j] \in JobRecord
  BY DEF Typed, TypeOK
<1>2. \A i \in Job \ {j} : jobs'[i] = jobs[i]
  BY <1>1 DEF Buried
<1>3. jobs'[j].status = "dead"
  BY <1>1 DEF Buried, JobRecord
<1>4. States' = [States EXCEPT ![j] = "dead"] /\ Holders' = [Holders EXCEPT ![j] = NoWorker]
  BY <1>2, <1>3, OneRecord DEF StateOf, HolderOf
<1>5. States[j] = "queued" /\ Holders[j] = NoWorker
  BY DEF Claimable, States, StateOf, Holders, HolderOf
<1>6. Holders' = Holders
  BY <1>4, <1>5 DEF Holders
<1>7. Queue!Bury(j)
  BY <1>4, <1>5, <1>6 DEF Queue!Bury, States, Holders, Tasks
<1> QED BY <1>7 DEF Queue!Next, QueueStep

\* An outcome ends the job if the claim is still the worker's, and is lost otherwise.
LEMMA RecordIsEnd ==
  ASSUME Typed, NEW w \in Worker, pc[w] = "finish", Record(w),
         Tasks' = [Tasks EXCEPT ![w] = NoJob]
  PROVE  QueueStep
<1> DEFINE j == cur[w].id
<1>1. jobs \in [Job -> JobRecord] /\ j \in Job /\ jobs[j] \in JobRecord /\ Tasks[w] = j
  BY DEF Typed, TypeOK, InHand, Running, Tasks
<1>2. CASE jobs' = jobs
  <2>1. States' = States /\ Holders' = Holders
    BY <1>2, SameQueue
  <2>2. Queue!Abandon(w)
    BY <1>1, <2>1, NamesAssumption DEF Queue!Abandon, States, Holders, Tasks
  <2> QED BY <2>2 DEF Queue!Next, QueueStep
<1>3. ASSUME OwnClaim(w), NEW r \in Endings(w), jobs' = [jobs EXCEPT ![j] = r]
      PROVE  QueueStep
  <2>1. r.status \in {"queued", "done", "dead"}
    <3> DEFINE q == [jobs[j] EXCEPT !.lease = -1]
    <3>1. \/ r = [q EXCEPT !.status = "done", !.finished = TRUE]
          \/ r = [q EXCEPT !.status = "dead", !.finished = TRUE]
          \/ \E d \in 0..Backoff(cur[w].attempts) :
               r = [q EXCEPT !.status = "queued", !.wait = d]
      BY Zenon, <1>3 DEF Endings
    <3>2. q \in JobRecord
      BY <1>1, LeaseType DEF JobRecord
    <3> HIDE DEF q
    <3> QED BY <3>1, <3>2 DEF JobRecord
  <2>2. (\A i \in Job \ {j} : jobs'[i] = jobs[i]) /\ jobs'[j] = r
    BY <1>1, <1>3
  <2>3. /\ States' = [States EXCEPT ![j] = r.status]
        /\ Holders' = [Holders EXCEPT ![j] = NoWorker]
    BY <1>1, <2>1, <2>2, OneRecord DEF StateOf, HolderOf
  <2>4. Queue!Holds(w)
    BY <1>1, <1>3, NamesAssumption DEF Queue!Holds, OwnClaim, Tasks, Holders, HolderOf
  <2>5. Queue!End(w, r.status)
    BY <1>1, <2>3, <2>4 DEF Queue!End, States, Holders, Tasks
  <2> QED BY <2>1, <2>5 DEF Queue!Next, QueueStep
<1> QED BY <1>2, <1>3 DEF Record

\* Requeued jobs are released together.
LEMMA PassIsRelease ==
  ASSUME Typed, NEW w \in Worker, StartPass(w)
  PROVE  QueueStep
<1> DEFINE S == {j \in Job : Expired(j)}
<1>1. \A j \in S : StateOf(j) = "held"
  BY DEF Expired, StateOf
<1>2. ASSUME NEW j \in Job
      PROVE  /\ StateOf(j)' = IF j \in S THEN "queued" ELSE StateOf(j)
             /\ HolderOf(j)' = IF j \in S THEN NoWorker ELSE HolderOf(j)
  <2>1. jobs[j] \in JobRecord
    BY DEF Typed, TypeOK
  <2>2. jobs'[j].status = IF Expired(j) THEN "queued" ELSE jobs[j].status
    BY <2>1 DEF StartPass, JobRecord
  <2>3. jobs'[j].worker = jobs[j].worker
    BY <2>1 DEF StartPass, JobRecord
  <2> QED BY <2>2, <2>3 DEF StateOf, HolderOf
<1>3. /\ States' = [j \in Job |-> IF j \in S THEN "queued" ELSE States[j]]
      /\ Holders' = [j \in Job |-> IF j \in S THEN NoWorker ELSE Holders[j]]
      /\ Tasks' = Tasks
  <2>1. States' = [i \in Job |-> StateOf(i)'] /\ Holders' = [i \in Job |-> HolderOf(i)']
    BY DEF States, Holders
  <2>2. Tasks' = Tasks
    BY DEF StartPass, Tasks
  <2> QED BY <1>2, <2>1, <2>2 DEF States, Holders
<1>4. Queue!Release(S)
  <2>1. \A j \in S : States[j] = "held"
    BY <1>1 DEF States
  <2> HIDE DEF S
  <2> QED BY <1>3, <2>1 DEF Queue!Release, States, Holders, Tasks
<1>5. S \in SUBSET Job
  OBVIOUS
<1> HIDE DEF S
<1> QED BY <1>4, <1>5 DEF Queue!Next, QueueStep

LEMMA WorkerIsQueue ==
  ASSUME Typed, FreeHanded, NEW w \in Worker, WorkerStep(w)
  PROVE  QueueStep
<1>1. cur \in [Worker -> [id : Job \cup {NoJob}, attempts : 0..MaxAttempts]]
  BY DEF Typed, TypeOK
<1>2. ASSUME jobs' = jobs, cur' = cur PROVE QueueStep
  BY <1>2, SameQueue DEF QueueStep, Tasks
<1>3. CASE StartPass(w)
  BY <1>3, PassIsRelease
<1>4. CASE FindDue(w) \/ ClaimLost(w) \/ HandlerEnds(w)
  BY <1>2, <1>4 DEF FindDue, ClaimLost, HandlerEnds
<1>5. CASE Bury(w)
  <2>1. Snapshot(w).id \in Job
    BY <1>5, SnapshotType DEF Bury, Typed
  <2>2. Tasks' = Tasks
    BY <1>5 DEF Bury, Tasks
  <2> QED BY <1>2, <1>5, <2>1, <2>2, BuriedIsBury DEF Bury
<1>6. CASE ClaimWon(w)
  <2> DEFINE j == Snapshot(w).id
             n == Snapshot(w).attempts + 1
  <2>1. j \in Job /\ n \in 0..MaxAttempts
    BY <1>6, SnapshotType DEF ClaimWon, Typed
  <2>2. Tasks' = [Tasks EXCEPT ![w] = j]
    BY <1>1, <1>6 DEF ClaimWon, Tasks
  <2>3. ~Running(w) /\ Claimable(j) /\ jobs' = Claimed(j, w, n)
    BY <1>6 DEF ClaimWon, Running
  <2> HIDE DEF j, n
  <2> QED BY <2>1, <2>2, <2>3, ClaimIsTake
<1>7. CASE Finish(w)
  <2>1. Tasks' = [Tasks EXCEPT ![w] = NoJob]
    BY <1>1, <1>7 DEF Finish, Idle, NoClaim, Tasks
  <2> QED BY <1>7, <2>1, RecordIsEnd DEF Finish
<1> QED BY <1>3, <1>4, <1>5, <1>6, <1>7 DEF WorkerStep

LEMMA FailureIsQueue ==
  ASSUME Typed, FreeHanded, NEW w \in Worker, PassFails(w) \/ Crash(w)
  PROVE  QueueStep
<1>1. /\ cur \in [Worker -> [id : Job \cup {NoJob}, attempts : 0..MaxAttempts]]
      /\ Tasks[w] = cur[w].id
  BY DEF Typed, TypeOK, Tasks
<1>2. Tasks' = [Tasks EXCEPT ![w] = NoJob]
  <2>1. cur' = [cur EXCEPT ![w] = NoClaim]
    BY DEF PassFails, Crash, Idle
  <2> QED BY <1>1, <2>1 DEF NoClaim, Tasks
<1>3. ~Running(w) => Tasks' = Tasks
  BY <1>1, <1>2 DEF FreeHanded, Tasks
<1>4. ASSUME jobs' = jobs PROVE QueueStep
  <2>1. States' = States /\ Holders' = Holders
    BY <1>4, SameQueue
  <2>2. CASE Tasks[w] = NoJob
    <3>1. Tasks' = Tasks
      BY <1>2, <2>2 DEF Tasks
    <3> QED BY <2>1, <3>1 DEF QueueStep
  <2>3. CASE Tasks[w] # NoJob
    <3>1. Queue!Abandon(w)
      BY <1>2, <2>1, <2>3 DEF Queue!Abandon, States, Holders, Tasks
    <3> QED BY <3>1 DEF Queue!Next, QueueStep
  <2> QED BY <2>2, <2>3
<1>5. CASE Crash(w)
  BY <1>4, <1>5 DEF Crash
<1>6. CASE PassFails(w)
  <2>1. CASE pc[w] = "finish" /\ Record(w)
    BY <1>2, <2>1, RecordIsEnd
  <2>2. CASE pc[w] = "loop" /\ jobs' # jobs
    <3>1. /\ Snapshot(w).id \in Job
          /\ ~UsedUp(w) => Snapshot(w).attempts + 1 \in 0..MaxAttempts
      BY <2>2, SnapshotType DEF Typed
    <3>2. ~Running(w)
      BY <2>2 DEF Running
    <3> QED BY <1>3, <1>6, <2>2, <3>1, <3>2, ClaimIsTake, BuriedIsBury DEF PassFails, Ambiguous
  <2> QED BY <1>4, <1>6, <2>1, <2>2 DEF PassFails, Ambiguous
<1> QED BY <1>5, <1>6

LEMMA RestIsQueue ==
  ASSUME Typed, FinishedMeansOver, NEW j \in Job,
         \/ Retry(j) \/ Purge(j)
         \/ \E p \in Producer, k \in Key \cup {NoKey}, d \in 0..MaxFuture : Insert(p, j, k, d)
  PROVE  QueueStep
<1>1. jobs \in [Job -> JobRecord] /\ jobs[j] \in JobRecord
  BY DEF Typed, TypeOK
<1>2. Tasks' = Tasks
  BY DEF Retry, Purge, Insert, local, Tasks
<1>3. \A i \in Job \ {j} : jobs'[i] = jobs[i]
  BY <1>1 DEF Retry, Revived, Purge, Insert
<1>4. ASSUME NEW s \in {"queued", "gone"}, jobs'[j].status = s, jobs[j].status # "running"
      PROVE  States' = [States EXCEPT ![j] = s] /\ Holders' = Holders
  <2>1. /\ States' = [States EXCEPT ![j] = s]
        /\ Holders' = [Holders EXCEPT ![j] = NoWorker]
    BY <1>3, <1>4, OneRecord DEF StateOf, HolderOf
  <2> QED BY <1>4, <2>1 DEF Holders, HolderOf
<1>5. CASE \E p \in Producer, k \in Key \cup {NoKey}, d \in 0..MaxFuture : Insert(p, j, k, d)
  <2>1. jobs[j].status = "none" /\ jobs'[j].status = "queued"
    <3>1. PICK p \in Producer, k \in Key \cup {NoKey}, d \in 0..MaxFuture : Insert(p, j, k, d)
      BY <1>5
    <3>2. /\ jobs[j].status = "none"
          /\ jobs'[j] = [Blank EXCEPT !.status = "queued", !.wait = d, !.key = k]
      BY <1>1, <3>1 DEF Insert
    <3>3. [Blank EXCEPT !.status = "queued", !.wait = d, !.key = k].status = "queued"
      BY DEF Blank
    <3> QED BY <3>2, <3>3
  <2>2. Queue!Submit(j)
    BY <1>2, <1>4, <2>1 DEF Queue!Submit, States, Holders, Tasks, StateOf
  <2> QED BY <2>2 DEF Queue!Next, QueueStep
<1>6. CASE Retry(j)
  <2>1. jobs[j].status = "dead" /\ jobs'[j].status = "queued"
    BY <1>1, <1>6 DEF Retry, Revived, JobRecord
  <2>2. Queue!Revive(j)
    BY <1>2, <1>4, <2>1 DEF Queue!Revive, States, Holders, Tasks, StateOf
  <2> QED BY <2>2 DEF Queue!Next, QueueStep
<1>7. CASE Purge(j)
  <2>1. jobs[j].status \in {"done", "dead"} /\ jobs'[j].status = "gone"
    BY <1>1, <1>7 DEF Purge, Blank, FinishedMeansOver, Over
  <2>2. Queue!Forget(j)
    BY <1>2, <1>4, <2>1 DEF Queue!Forget, States, Holders, Tasks, StateOf
  <2> QED BY <2>2 DEF Queue!Next, QueueStep
<1> QED BY <1>5, <1>6, <1>7

LEMMA StepIsQueue == Safe /\ FreeHanded /\ [Next]_vars => QueueStep
<1> SUFFICES ASSUME Safe, FreeHanded, [Next]_vars PROVE QueueStep
  OBVIOUS
<1>1. ASSUME jobs' = jobs, cur' = cur PROVE QueueStep
  BY <1>1, SameQueue DEF QueueStep, Tasks
<1>2. CASE Tick
  <2>1. States' = States /\ Holders' = Holders
    BY <1>2, TickChanges, SameQueue DEF Safe
  <2> QED BY <1>2, <2>1 DEF Tick, QueueStep, Tasks
<1> QED BY <1>1, <1>2, WorkerIsQueue, FailureIsQueue, RestIsQueue
        DEF Safe, Next, vars, local, InsertRefused, LookUp

\* Jobs implements the abstract queue: whatever lies between the worker's snapshot and its
\* writes, only the worker that holds a job decides its end (jobs.py:4).
THEOREM JobsIsAQueue == Spec => ImplementsJobQueue
<1>1. Init => Queue!Init
  BY DEF Init, Blank, NoClaim, Queue!Init, StateOf, HolderOf
<1>2. Init => Safe /\ FreeHanded
  BY SafeInit DEF Init, FreeHanded, NoClaim
<1>3. Safe /\ FreeHanded /\ [Next]_vars => (Safe /\ FreeHanded)'
  BY SafeStep, FreeHandedStep DEF Safe
<1>4. Safe /\ FreeHanded /\ [Next]_vars => [Queue!Next]_(Queue!vars)
  BY StepIsQueue DEF QueueStep, Queue!vars, States, Holders, Tasks
<1> QED BY <1>1, <1>2, <1>3, <1>4, PTL DEF Spec, ImplementsJobQueue, Queue!Spec
=============================================================================
