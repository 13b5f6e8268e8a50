------------------------------ MODULE JobQueue ------------------------------
(***************************************************************************)
(* What the job queue promises, without batches, snapshots, leases or      *)
(* clocks: a job waits, one worker holds it, and only the worker that      *)
(* holds it can say how it ended.  A worker that lost its job may still be *)
(* busy with it; what it finds out then changes nothing.                   *)
(***************************************************************************)
CONSTANTS Job, Worker, NoJob, NoWorker

VARIABLES
  state,   \* of each job
  holder,  \* the worker that holds a job, or NoWorker
  task     \* the job each worker is busy with, or NoJob

vars == <<state, holder, task>>

Init ==
  /\ state = [j \in Job |-> "none"]
  /\ holder = [j \in Job |-> NoWorker]
  /\ task = [w \in Worker |-> NoJob]

Submit(j) ==
  /\ state[j] = "none"
  /\ state' = [state EXCEPT ![j] = "queued"]
  /\ UNCHANGED <<holder, task>>

\* A free worker takes a queued job.
Take(j, w) ==
  /\ state[j] = "queued" /\ task[w] = NoJob
  /\ state' = [state EXCEPT ![j] = "held"]
  /\ holder' = [holder EXCEPT ![j] = w]
  /\ task' = [task EXCEPT ![w] = j]

\* A worker takes a job and never learns that it did.
TakeUnaware(j, w) ==
  /\ state[j] = "queued" /\ task[w] = NoJob
  /\ state' = [state EXCEPT ![j] = "held"]
  /\ holder' = [holder EXCEPT ![j] = w]
  /\ UNCHANGED task

Holds(w) == task[w] # NoJob /\ holder[task[w]] = w

\* The holder records how the job ended.
End(w, s) ==
  /\ Holds(w)
  /\ state' = [state EXCEPT ![task[w]] = s]
  /\ holder' = [holder EXCEPT ![task[w]] = NoWorker]
  /\ task' = [task EXCEPT ![w] = NoJob]

\* A worker stops caring about its job: it lost it, its write failed, or it died.
Abandon(w) ==
  /\ task[w] # NoJob
  /\ task' = [task EXCEPT ![w] = NoJob]
  /\ UNCHANGED <<state, holder>>

\* Held jobs go back to the queue.
Release(S) ==
  /\ \A j \in S : state[j] = "held"
  /\ state' = [j \in Job |-> IF j \in S THEN "queued" ELSE state[j]]
  /\ holder' = [j \in Job |-> IF j \in S THEN NoWorker ELSE holder[j]]
  /\ UNCHANGED task

\* A queued job is given up.
Bury(j) ==
  /\ state[j] = "queued"
  /\ state' = [state EXCEPT ![j] = "dead"]
  /\ UNCHANGED <<holder, task>>

Revive(j) ==
  /\ state[j] = "dead"
  /\ state' = [state EXCEPT ![j] = "queued"]
  /\ UNCHANGED <<holder, task>>

Forget(j) ==
  /\ state[j] \in {"done", "dead"}
  /\ state' = [state EXCEPT ![j] = "gone"]
  /\ UNCHANGED <<holder, task>>

Next ==
  \/ \E j \in Job : Submit(j) \/ Bury(j) \/ Revive(j) \/ Forget(j)
  \/ \E j \in Job, w \in Worker : Take(j, w) \/ TakeUnaware(j, w)
  \/ \E w \in Worker, s \in {"queued", "done", "dead"} : End(w, s)
  \/ \E w \in Worker : Abandon(w)
  \/ \E S \in SUBSET Job : Release(S)

Spec == Init /\ [][Next]_vars
=============================================================================
