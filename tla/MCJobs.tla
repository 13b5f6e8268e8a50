------------------------------- MODULE MCJobs -------------------------------
(* Small instances of Jobs for TLC.                                        *)
EXTENDS JobsRefinement, TLC

\* Workers are interchangeable, and so are jobs as long as none lacks a handler.
WorkerSymmetry == Permutations(Worker)
FullSymmetry == Permutations(Worker) \cup Permutations(Job \ Unhandled)

\* One producer at a time is refused and looks up who has its key.
LookUpsBound == Cardinality({p \in Producer : producer[p].pc = "lookup"}) <= 1

LiveSpec == Init /\ [][Next /\ LookUpsBound']_vars /\ Fairness

\* The actor that runs while others fail: the assumption behind EveryJobEnds.
ASSUME SomeWorkerSurvives == MaxCrashes < Cardinality(Worker)

\* A database call that fails, or a retry.
TroublesBound == spent.fault + spent.retry <= 1

SafetySpec == Init /\ [][Next /\ TroublesBound']_vars
=============================================================================
