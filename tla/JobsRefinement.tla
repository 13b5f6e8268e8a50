--------------------------- MODULE JobsRefinement ---------------------------
(* Jobs implements JobQueue: the holder of a job is the worker its record   *)
(* names while it is running, whatever lease is left.                       *)
EXTENDS Jobs

StateOf(j) == IF jobs[j].status = "running" THEN "held" ELSE jobs[j].status
HolderOf(j) == IF jobs[j].status = "running" THEN jobs[j].worker ELSE NoWorker

Queue == INSTANCE JobQueue WITH
  state <- [j \in Job |-> StateOf(j)],
  holder <- [j \in Job |-> HolderOf(j)],
  task <- [w \in Worker |-> cur[w].id]

\* Only the worker that holds a job decides its end; every other outcome is lost.
ImplementsJobQueue == Queue!Spec
=============================================================================
