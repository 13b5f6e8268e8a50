------------------------------- MODULE MCData -------------------------------
(* Processes that start on a database; the calls of one collection once they   *)
(* have; the chunks of an upload beside the records; the subscriptions and the *)
(* deliveries that stored changes lead to: a run takes one of them.            *)
EXTENDS Startup, Records, Uploads, Sequences

CONSTANTS MaxEvents, Hook, Wanting, MaxHooks, MaxMessages, MaxAttempts

VARIABLES
  hooks, jobs, phase, purpose, event, ahead, logged, received, owed, late, troubles,
  part

W == INSTANCE Webhooks
       WITH pc <- phase, op <- purpose, todo <- ahead, recorded <- logged, faults <- troubles

ASSUME W!HooksAssumption

webhookVars ==
  <<hooks, jobs, phase, purpose, event, ahead, logged, received, owed, late, troubles>>
MCVars == <<startupVars, recordVars, vars, webhookVars, part>>

\* What the others start from does not matter.
MCInit ==
  /\ StartupInit /\ RecordsInit /\ Init /\ W!Init
  /\ part \in {"startup", "records", "uploads", "webhooks"}
  /\ part # "startup" => index = "none" /\ \A f \in File : flags[f] = [v \in {} |-> "no"]
  /\ part # "records" => backend = "mongodb"
  /\ part # "uploads" => storage = "local"

\* Whoever starts while the janitor deletes what it has found could have started just before;
\* those who are at work go on.
Busy == {r \in Sender : stage[r] # "idle"}
StartedBefore == doomed = {} \/ Busy' \subseteq Busy

\* Whoever has begun can still be recorded.
Unrecorded == {r \in Request : phase[r] \in {"count", "insert", "record"}}
RecordBound == logged + Cardinality(Unrecorded) <= MaxEvents

MCNext ==
  /\ UNCHANGED part
  /\ \/ part = "startup" /\ StartupNext /\ UNCHANGED <<recordVars, vars, webhookVars>>
     \/ part = "records" /\ RecordsNext /\ UNCHANGED <<startupVars, vars, webhookVars>>
     \/ part = "uploads" /\ Next /\ StartedBefore /\ UNCHANGED <<startupVars, recordVars, webhookVars>>
     \/ part = "webhooks" /\ W!Next /\ RecordBound' /\ UNCHANGED <<startupVars, recordVars, vars>>

\* The fairness of each part: nothing is asked of those that are not taken.
MCFairness ==
  /\ \A p \in Process : WF_startupVars(part = "startup" /\ Starting(p))
  /\ WF_vars(part = "uploads" /\ Janitor)
  /\ \A r \in Request : WF_webhookVars(part = "webhooks" /\ W!Publishing(r))
  /\ \A i \in 1 .. MaxMessages :
       WF_webhookVars(part = "webhooks" /\ i <= Len(jobs) /\ W!Delivering(i))

MCSpec == MCInit /\ [][MCNext]_MCVars /\ MCFairness

\* Every process that starts serves in the end.
EveryoneStarts == part = "startup" => AllStart

\* Receivers can tell what they have already got, get what they are owed, and nothing once
\* they have unsubscribed.
DeliveriesHold == W!DeliveriesHold
OwedIsSent == W!OwedIsSent
=============================================================================
