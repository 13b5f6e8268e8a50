-------------------------------- MODULE Jobs --------------------------------
(***************************************************************************)
(* The durable job queue of app/services/jobs.py: producers insert job     *)
(* records, any number of workers poll the same collection, claim jobs     *)
(* with conditional updates, run handlers under a time limit and record    *)
(* the outcome conditionally on their own claim.                           *)
(*                                                                         *)
(* One step is one database call (or one handler call) of the code, so     *)
(* workers interleave between any two awaits.  Time is discrete and        *)
(* relative: a record keeps run_at and lease_until as ticks from now.      *)
(***************************************************************************)
EXTENDS Integers, Sequences, FiniteSets

CONSTANTS
  Job,          \* job ids (uuid4: never reused)
  Worker,       \* worker ids (uuid4 per process: a restarted worker is a new one)
  Producer,     \* callers of enqueue
  Key,          \* idempotency keys
  NoKey, NoJob, NoWorker,
  Unhandled,    \* jobs whose name has no registered handler
  MaxAttempts,  \* jobs_max_attempts
  Timeout,      \* jobs_timeout_seconds, in ticks
  BatchSize,    \* jobs_batch_size
  BackoffBase,  \* jobs_retry_base_seconds, in ticks
  Prompt,       \* TRUE: no event loop or database call stalls longer than Timeout
  Horizon,      \* bound: run_at further in the past than this is not told apart
  MaxFuture,    \* bound on the run_at a producer asks for
  MaxCrashes, MaxFaults, MaxRetries  \* bounds on what goes wrong

ASSUME AttemptsAssumption == MaxAttempts \in Nat \ {0}
ASSUME TimeAssumption ==
  /\ Timeout \in Nat \ {0} /\ BackoffBase \in Nat
  /\ Horizon \in Nat /\ MaxFuture \in Nat /\ Prompt \in BOOLEAN
ASSUME BatchAssumption == BatchSize \in Nat \ {0}
ASSUME FiniteAssumption == IsFiniteSet(Job)
ASSUME NamesAssumption ==
  /\ Unhandled \subseteq Job
  /\ NoJob \notin Job /\ NoWorker \notin Worker /\ NoKey \notin Key

VARIABLES
  jobs,      \* the "jobs" collection
  pc,        \* where each worker is in run_once
  batch,     \* the `due` list a worker is still walking: snapshots of records
  cur,       \* the job a worker is running, with the attempt number it claimed
  outcome,   \* how its handler ended
  held,      \* ticks left on the lease a running worker took (negative: over)
  age,       \* ticks since the worker read the clock at the start of its pass
  producer,  \* where each enqueue call is, its key and the id it returned
  runs,      \* history: attempts started on a job since it was queued or retried
  spent      \* how much of the bounds on crashes, faults and retries is used

vars == <<jobs, pc, batch, cur, outcome, held, age, producer, runs, spent>>
local == <<pc, batch, cur, outcome, held, age>>

-----------------------------------------------------------------------------
(* Records.                                                                *)

\* Faulty variant: the lease is no longer than the time limit it protects.
LeaseOfOneTimeout == Timeout

Lease == 2 * Timeout
Backoff(n) == BackoffBase * 2^(n - 1)

Statuses == {"none", "queued", "running", "done", "dead", "gone"}

\* "none": not inserted yet; "gone": deleted by the time-to-live on finished_at.
Stored(j) == jobs[j].status \notin {"none", "gone"}
Over(status) == status \in {"done", "dead"}

Blank == [status |-> "none", attempts |-> 0, wait |-> 0, lease |-> -1,
          worker |-> NoWorker, finished |-> FALSE, key |-> NoKey]

NoClaim == [id |-> NoJob, attempts |-> 0]

Running(w) == pc[w] \in {"run", "finish"}

\* The record as the claim's update leaves it.
Claimed(j, w, n) ==
  [jobs EXCEPT ![j].status = "running", ![j].attempts = n,
               ![j].lease = Lease, ![j].worker = w]

\* The record once the claim finds its attempts used up.
Buried(j) ==
  [jobs EXCEPT ![j].status = "dead", ![j].finished = TRUE]

\* The record an administrator's retry leaves.
Revived(j) ==
  [jobs EXCEPT ![j].status = "queued", ![j].attempts = 0, ![j].wait = 0,
               ![j].finished = FALSE]

-----------------------------------------------------------------------------
Init ==
  /\ jobs = [j \in Job |-> Blank]
  /\ pc = [w \in Worker |-> "poll"]
  /\ batch = [w \in Worker |-> <<>>]
  /\ cur = [w \in Worker |-> NoClaim]
  /\ outcome = [w \in Worker |-> "none"]
  /\ held = [w \in Worker |-> -1]
  /\ age = [w \in Worker |-> 0]
  /\ producer = [p \in Producer |-> [pc |-> "idle", key |-> NoKey, got |-> NoJob]]
  /\ runs = [j \in Job |-> 0]
  /\ spent = [crash |-> 0, fault |-> 0, retry |-> 0]

-----------------------------------------------------------------------------
(* Producing.                                                              *)

\* Faulty variant: only jobs that still wait are looked at.
KeyTakenWhileQueued(k) ==
  k # NoKey /\ \E j \in Job : jobs[j].status = "queued" /\ jobs[j].key = k

KeyTaken(k) == k # NoKey /\ \E j \in Job : Stored(j) /\ jobs[j].key = k

\* enqueue, when the insert goes through.
Insert(p, j, k, delay) ==
  /\ producer[p].pc = "idle"
  /\ jobs[j].status = "none"
  /\ ~KeyTaken(k)
  /\ jobs' = [jobs EXCEPT ![j] =
                [Blank EXCEPT !.status = "queued", !.wait = delay, !.key = k]]
  /\ producer' = [producer EXCEPT ![p] = [pc |-> "idle", key |-> k, got |-> j]]
  /\ UNCHANGED <<local, runs, spent>>

\* enqueue, when the unique index refuses the insert.
InsertRefused(p, k) ==
  /\ producer[p].pc = "idle"
  /\ KeyTaken(k)
  /\ producer' = [producer EXCEPT ![p] = [pc |-> "lookup", key |-> k, got |-> NoJob]]
  /\ UNCHANGED <<jobs, local, runs, spent>>

\* enqueue answers with the job that holds the key, or raises if it went meanwhile.
LookUp(p) ==
  /\ producer[p].pc = "lookup"
  /\ LET same == {j \in Job : Stored(j) /\ jobs[j].key = producer[p].key}
     IN  \E j \in IF same = {} THEN {NoJob} ELSE same :
           producer' = [producer EXCEPT ![p] =
                          [pc |-> "idle", key |-> producer[p].key, got |-> j]]
  /\ UNCHANGED <<jobs, local, runs, spent>>

-----------------------------------------------------------------------------
(* Consuming.                                                              *)

\* Faulty variant: every running job is requeued, whatever is left of its lease.
ExpiredAnyway(j) == jobs[j].status = "running"

\* Faulty variant: the comparison of lease_until with the clock is turned round.
ExpiredTurnedRound(j) == jobs[j].status = "running" /\ jobs[j].lease > 0

Expired(j) == jobs[j].status = "running" /\ jobs[j].lease < 0

\* run_once reads the clock and requeues every job whose lease is over.
StartPass(w) ==
  /\ pc[w] = "poll"
  /\ jobs' = [j \in Job |->
                IF Expired(j)
                THEN [jobs[j] EXCEPT !.status = "queued", !.lease = -1]
                ELSE jobs[j]]
  /\ pc' = [pc EXCEPT ![w] = "find"]
  /\ age' = [age EXCEPT ![w] = 0]
  /\ UNCHANGED <<batch, cur, outcome, held, producer, runs, spent>>

\* Due by the clock of the pass, which is age[w] ticks old.
Due(w) == {j \in Job : jobs[j].status = "queued" /\ jobs[j].wait + age[w] <= 0}

\* The oldest due jobs, at most BatchSize of them, in the order of run_at.
Batches(w) ==
  LET due == Due(w)
      size == IF Cardinality(due) < BatchSize THEN Cardinality(due) ELSE BatchSize
  IN  {s \in [1..size -> due] :
         /\ \A a, b \in 1..size :
              a < b => s[a] # s[b] /\ jobs[s[a]].wait <= jobs[s[b]].wait
         /\ \A j \in due : (\A a \in 1..size : s[a] # j)
              => \A a \in 1..size : jobs[s[a]].wait <= jobs[j].wait}

FindDue(w) ==
  /\ pc[w] = "find"
  /\ \E s \in Batches(w) :
       /\ batch' = [batch EXCEPT ![w] =
             [a \in 1..Len(s) |-> [id |-> s[a], attempts |-> jobs[s[a]].attempts]]]
       /\ pc' = [pc EXCEPT ![w] = IF s = <<>> THEN "poll" ELSE "loop"]
  /\ age' = [age EXCEPT ![w] = 0]
  /\ UNCHANGED <<jobs, cur, outcome, held, producer, runs, spent>>

\* The loop over the batch goes on, or the pass ends.
NextInBatch(w) ==
  /\ batch' = [batch EXCEPT ![w] = Tail(@)]
  /\ pc' = [pc EXCEPT ![w] = IF Len(batch[w]) = 1 THEN "poll" ELSE "loop"]

\* _claim and _run work on the snapshot the pass read, attempts included.
Snapshot(w) == Head(batch[w])

UsedUp(w) == Snapshot(w).attempts + 1 > MaxAttempts

\* The condition of both updates in _claim.
Claimable(j) == jobs[j].status = "queued"

\* _claim, when the snapshot's attempts are used up: dead if still queued.
Bury(w) ==
  /\ pc[w] = "loop"
  /\ UsedUp(w)
  /\ jobs' = IF Claimable(Snapshot(w).id) THEN Buried(Snapshot(w).id) ELSE jobs
  /\ NextInBatch(w)
  /\ UNCHANGED <<cur, outcome, held, age, producer, runs, spent>>

\* _claim, when the conditional update matches.
ClaimWon(w) ==
  LET j == Snapshot(w).id
      n == Snapshot(w).attempts + 1
  IN  /\ pc[w] = "loop"
      /\ ~UsedUp(w)
      /\ Claimable(j)
      /\ jobs' = Claimed(j, w, n)
      /\ pc' = [pc EXCEPT ![w] = "run"]
      /\ cur' = [cur EXCEPT ![w] = [id |-> j, attempts |-> n]]
      /\ held' = [held EXCEPT ![w] = Lease]
      /\ runs' = [runs EXCEPT ![j] = @ + 1]
      /\ UNCHANGED <<batch, outcome, age, producer, spent>>

\* _claim, when another worker was first.
ClaimLost(w) ==
  /\ pc[w] = "loop"
  /\ ~UsedUp(w)
  /\ ~Claimable(Snapshot(w).id)
  /\ NextInBatch(w)
  /\ UNCHANGED <<jobs, cur, outcome, held, age, producer, runs, spent>>

\* A handler returns, raises (a time-out is an exception too), or raises a
\* LookupError; a missing handler is always the latter.
Outcomes(j) == IF j \in Unhandled THEN {"lookup"} ELSE {"ok", "error", "lookup"}

HandlerEnds(w) ==
  /\ pc[w] = "run"
  /\ \E o \in Outcomes(cur[w].id) : outcome' = [outcome EXCEPT ![w] = o]
  /\ pc' = [pc EXCEPT ![w] = "finish"]
  /\ UNCHANGED <<jobs, batch, cur, held, age, producer, runs, spent>>

\* _failed: a LookupError is permanent, and so is the last attempt.
Permanent(w) == outcome[w] = "lookup" \/ cur[w].attempts >= MaxAttempts

\* The records _run and _failed may write for the job a worker ran.
Endings(w) ==
  LET r == [jobs[cur[w].id] EXCEPT !.lease = -1]
  IN  IF outcome[w] = "ok"
      THEN {[r EXCEPT !.status = "done", !.finished = TRUE]}
      ELSE IF Permanent(w)
      THEN {[r EXCEPT !.status = "dead", !.finished = TRUE]}
      ELSE {[r EXCEPT !.status = "queued", !.wait = d] : d \in 0..Backoff(cur[w].attempts)}

\* Faulty variant: the outcome is not conditioned on the worker.
OwnClaimOfAnyone(w) == jobs[cur[w].id].status = "running"

\* _finish's condition: the job is running and the claim is still this worker's.
OwnClaim(w) ==
  /\ jobs[cur[w].id].status = "running"
  /\ jobs[cur[w].id].worker = w

\* _finish: a stale outcome matches nothing and is dropped.
Record(w) ==
  \/ OwnClaim(w) /\ \E r \in Endings(w) : jobs' = [jobs EXCEPT ![cur[w].id] = r]
  \/ ~OwnClaim(w) /\ jobs' = jobs

Idle(w) ==
  /\ cur' = [cur EXCEPT ![w] = NoClaim]
  /\ outcome' = [outcome EXCEPT ![w] = "none"]
  /\ held' = [held EXCEPT ![w] = -1]

Finish(w) ==
  /\ pc[w] = "finish"
  /\ Record(w)
  /\ NextInBatch(w)
  /\ Idle(w)
  /\ UNCHANGED <<age, producer, runs, spent>>

-----------------------------------------------------------------------------
(* Failures.                                                               *)

\* What the database made of the call that failed: nothing, or all of it.
Ambiguous(w) ==
  \/ jobs' = jobs
  \/ /\ pc[w] = "loop" /\ ~UsedUp(w) /\ Claimable(Snapshot(w).id)
     /\ jobs' = Claimed(Snapshot(w).id, w, Snapshot(w).attempts + 1)
  \/ /\ pc[w] = "loop" /\ UsedUp(w) /\ Claimable(Snapshot(w).id)
     /\ jobs' = Buried(Snapshot(w).id)
  \/ pc[w] = "finish" /\ Record(w)

\* A database call raises: run_forever logs it and starts a new pass.
PassFails(w) ==
  /\ pc[w] \in {"find", "loop", "finish"}
  /\ spent.fault < MaxFaults
  /\ Ambiguous(w)
  /\ pc' = [pc EXCEPT ![w] = "poll"]
  /\ batch' = [batch EXCEPT ![w] = <<>>]
  /\ Idle(w)
  /\ age' = [age EXCEPT ![w] = 0]
  /\ spent' = [spent EXCEPT !.fault = @ + 1]
  /\ UNCHANGED <<producer, runs>>

\* The process dies or is cancelled at shutdown: nothing is written, the lease stays.
Crash(w) ==
  /\ pc[w] # "stopped"
  /\ spent.crash < MaxCrashes
  /\ pc' = [pc EXCEPT ![w] = "stopped"]
  /\ batch' = [batch EXCEPT ![w] = <<>>]
  /\ Idle(w)
  /\ age' = [age EXCEPT ![w] = 0]
  /\ spent' = [spent EXCEPT !.crash = @ + 1]
  /\ UNCHANGED <<jobs, producer, runs>>

-----------------------------------------------------------------------------
(* Administration, retention and time.                                     *)

\* retry: a dead job starts from scratch.
Retry(j) ==
  /\ jobs[j].status = "dead"
  /\ spent.retry < MaxRetries
  /\ jobs' = Revived(j)
  /\ runs' = [runs EXCEPT ![j] = 0]
  /\ spent' = [spent EXCEPT !.retry = @ + 1]
  /\ UNCHANGED <<local, producer>>

\* The time-to-live on finished_at, whatever the status of the record.
Purge(j) ==
  /\ Stored(j)
  /\ jobs[j].finished
  /\ jobs' = [jobs EXCEPT ![j] = [Blank EXCEPT !.status = "gone"]]
  /\ UNCHANGED <<local, producer, runs, spent>>

\* asyncio.wait_for ends a handler at Timeout; a prompt worker then records the
\* outcome within another Timeout.
InTime(w) ==
  /\ pc[w] = "run" => Lease - held[w] < Timeout
  /\ pc[w] = "finish" => Lease - held[w] < 2 * Timeout

Tick ==
  /\ Prompt => \A w \in Worker : InTime(w)
  /\ jobs' = [j \in Job |->
       [jobs[j] EXCEPT
          !.wait = IF Stored(j) /\ @ > -Horizon THEN @ - 1 ELSE @,
          !.lease = IF jobs[j].status = "running" /\ @ >= 0 THEN @ - 1 ELSE @]]
  /\ held' = [w \in Worker |-> IF Running(w) /\ held[w] >= 0 THEN held[w] - 1 ELSE held[w]]
  /\ age' = [w \in Worker |-> IF pc[w] = "find" /\ age[w] < Horizon THEN age[w] + 1 ELSE age[w]]
  /\ UNCHANGED <<pc, batch, cur, outcome, producer, runs, spent>>

-----------------------------------------------------------------------------
WorkerStep(w) ==
  \/ StartPass(w)
  \/ FindDue(w)
  \/ Bury(w)
  \/ ClaimWon(w)
  \/ ClaimLost(w)
  \/ HandlerEnds(w)
  \/ Finish(w)

Next ==
  \/ \E p \in Producer, j \in Job, k \in Key \cup {NoKey}, d \in 0..MaxFuture :
       Insert(p, j, k, d)
  \/ \E p \in Producer, k \in Key : InsertRefused(p, k)
  \/ \E p \in Producer : LookUp(p)
  \/ \E w \in Worker : WorkerStep(w)
  \/ \E w \in Worker : PassFails(w)
  \/ \E w \in Worker : Crash(w)
  \/ \E j \in Job : Retry(j)
  \/ \E j \in Job : Purge(j)
  \/ Tick

Spec == Init /\ [][Next]_vars

\* run_forever loops until cancelled, wait_for bounds every handler, time passes.
Fairness == (\A w \in Worker : WF_vars(WorkerStep(w))) /\ WF_vars(Tick)
FairSpec == Spec /\ Fairness

-----------------------------------------------------------------------------
(* Properties.                                                             *)

JobRecord ==
  [status : Statuses, attempts : 0..MaxAttempts, wait : Int, lease : -1..Lease,
   worker : Worker \cup {NoWorker}, finished : BOOLEAN, key : Key \cup {NoKey}]

SnapshotRecord == [id : Job, attempts : 0..MaxAttempts]
Snapshots == Seq(SnapshotRecord)

\* Every record and every worker's local state has its type: in particular no
\* attempt is ever numbered beyond MaxAttempts.
TypeOK ==
  /\ jobs \in [Job -> JobRecord]
  /\ pc \in [Worker -> {"poll", "find", "loop", "run", "finish", "stopped"}]
  /\ batch \in [Worker -> Snapshots]
  /\ cur \in [Worker -> [id : Job \cup {NoJob}, attempts : 0..MaxAttempts]]
  /\ outcome \in [Worker -> {"none", "ok", "error", "lookup"}]
  /\ held \in [Worker -> -1..Lease]
  /\ age \in [Worker -> Nat]
  /\ producer \in [Producer -> [pc : {"idle", "lookup"}, key : Key \cup {NoKey},
                                got : Job \cup {NoJob}]]
  /\ runs \in [Job -> Nat]
  /\ spent \in [crash : Nat, fault : Nat, retry : Nat]

\* "Exactly one worker wins" (jobs.py:4): while the lease a worker took has time
\* left, the record still says that this worker runs the job.  No requeue, claim,
\* outcome, retry or purge by anyone else gets in between.
LeaseProtectsClaim ==
  \A w \in Worker : Running(w) /\ held[w] >= 0 =>
    /\ OwnClaim(w)
    /\ jobs[cur[w].id].lease = held[w]

\* Two workers never run one job at the same time, as long as handlers and
\* outcomes keep to the time limit the lease is derived from (jobs.py:50).
NoConcurrentRuns ==
  Prompt => \A v, w \in Worker :
    v # w /\ Running(v) /\ Running(w) => cur[v].id # cur[w].id

\* The time-to-live index only ever deletes jobs that are over: finished_at is set
\* on done and dead jobs and on no other, through retries and requeues too.
FinishedMeansOver ==
  \A j \in Job : Stored(j) => (jobs[j].finished <=> Over(jobs[j].status))

\* What the queue keeps at every moment: types, claims under their lease, and which records
\* the index may delete.
QueueIsSafe == TypeOK /\ LeaseProtectsClaim /\ FinishedMeansOver

\* A job that is done is never run or changed again, only deleted.
DoneIsFinal ==
  [][\A j \in Job : jobs[j].status = "done" =>
       /\ jobs'[j].status \in {"done", "gone"}
       /\ runs'[j] = runs[j]]_vars

\* An idempotency key names at most one stored job (jobs.py:80).
OneJobPerKey ==
  \A i, j \in Job : Stored(i) /\ Stored(j) /\ i # j /\ jobs[i].key = jobs[j].key
    => jobs[i].key = NoKey

\* Every queued job is run until it is done or dead, whichever workers crash, as
\* long as one of them keeps polling.
EveryJobEnds ==
  \A j \in Job : jobs[j].status = "queued" ~> jobs[j].status \in {"done", "dead", "gone"}

-----------------------------------------------------------------------------
(* What the documents say and the code does not keep.                      *)

\* "after jobs_max_attempts the job is dead" (jobs.py:6): no job is attempted more
\* often than that between being queued (or retried) and its end.
AttemptsBounded == \A j \in Job : runs[j] <= MaxAttempts

\* "Failures retry with exponential backoff" (jobs.py:5): no attempt starts before
\* the job's run_at.
BackoffRespected ==
  [][\A j \in Job : runs'[j] > runs[j] => jobs[j].wait <= 0]_vars

\* "Only reachable through expired leases: the job keeps killing its worker"
\* (jobs.py:152): a queued job is buried only if its attempts are used up.
BuriedOnlyWhenUsedUp ==
  [][\A j \in Job : jobs[j].status = "queued" /\ jobs'[j].status = "dead"
       => jobs[j].attempts >= MaxAttempts]_vars

\* "raise to retry" (run-background-jobs.md:21): a job with a handler whose attempt
\* fails dies only on its last attempt.
RaiseToRetry ==
  [][\A j \in Job \ Unhandled : jobs[j].status = "running" /\ jobs'[j].status = "dead"
       => jobs[j].attempts >= MaxAttempts]_vars

=============================================================================
