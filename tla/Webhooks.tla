------------------------------ MODULE Webhooks ------------------------------
(***************************************************************************)
(* Outgoing webhooks (app/services/webhooks.py): administrators subscribe  *)
(* and unsubscribe, changes are recorded in the audit log, which publishes *)
(* them, and each delivery is a background job.  Of the jobs only what     *)
(* JobQueue promises is taken: a queued job is tried, again after a        *)
(* failure or a crash, and is done or dead in the end.                     *)
(***************************************************************************)
EXTENDS Naturals, Sequences, FiniteSets

CONSTANTS
  Request,      \* requests that change something
  MaxEvents,    \* bounds the events, which are numbered
  Hook,         \* subscriptions, each made at most once
  Wanting,      \* those whose filter matches the events that happen here
  MaxHooks,     \* MAX_WEBHOOKS
  MaxMessages,  \* bounds the deliveries
  MaxAttempts,  \* jobs_max_attempts
  MaxFaults     \* bounds what is cut short, crashes and is refused

HooksAssumption ==
  /\ MaxHooks \in Nat /\ MaxMessages \in Nat /\ MaxAttempts \in Nat /\ MaxFaults \in Nat
  /\ IsFiniteSet(Hook) /\ Wanting \subseteq Hook /\ MaxEvents \in Nat

VARIABLES
  hooks,     \* the state of each subscription
  jobs,      \* the deliveries queued, in the order of their message identifiers
  pc, op,    \* what each request does next, and what for
  event,     \* the event it records
  todo,      \* the subscriptions it has still to queue a delivery for
  recorded,  \* how many events there are in the audit log
  received,  \* what the receivers have got
  owed,      \* history: deliveries that must not be missing
  late,      \* history: deliveries begun after the subscription had ended
  faults

hookVars == <<hooks, jobs>>
request == <<pc, op, event, todo>>
history == <<owed, late>>
vars == <<hookVars, request, recorded, received, history, faults>>

NoEvent == 0

Init ==
  /\ hooks = [h \in Hook |-> "none"]
  /\ jobs = <<>>
  /\ pc = [r \in Request |-> "idle"]
  /\ op = [r \in Request |-> "none"]
  /\ event = [r \in Request |-> NoEvent]
  /\ todo = [r \in Request |-> {}]
  /\ recorded = 0 /\ received = {} /\ owed = {} /\ late = {} /\ faults = 0

-----------------------------------------------------------------------------
Live == {h \in Hook : hooks[h] = "live"}
Goto(r, label) == pc' = [pc EXCEPT ![r] = label]

Begin(r, kind, label) ==
  /\ pc[r] = "idle"
  /\ Goto(r, label)
  /\ op' = [op EXCEPT ![r] = kind]
  /\ UNCHANGED <<hookVars, event, todo, recorded, received, history, faults>>

Finish(r) ==
  /\ Goto(r, "idle")
  /\ op' = [op EXCEPT ![r] = "none"]
  /\ event' = [event EXCEPT ![r] = NoEvent]
  /\ todo' = [todo EXCEPT ![r] = {}]

-----------------------------------------------------------------------------
(* Subscriptions.                                                          *)

Subscribe(r) == Begin(r, "subscribe", "count")

CountHooks(r) ==
  /\ pc[r] = "count"
  /\ IF Cardinality(Live) >= MaxHooks
     THEN Finish(r)
     ELSE Goto(r, "insert") /\ UNCHANGED <<op, event, todo>>
  /\ UNCHANGED <<hookVars, recorded, received, history, faults>>

InsertHook(r) ==
  /\ pc[r] = "insert"
  /\ \E h \in Hook : hooks[h] = "none" /\ hooks' = [hooks EXCEPT ![h] = "live"]
  /\ Goto(r, "record")
  /\ UNCHANGED <<jobs, op, event, todo, recorded, received, history, faults>>

Unsubscribe(r, h) ==
  /\ pc[r] = "idle" /\ hooks[h] = "live"
  /\ hooks' = [hooks EXCEPT ![h] = "gone"]
  /\ op' = [op EXCEPT ![r] = "unsubscribe"]
  /\ Goto(r, "record")
  /\ UNCHANGED <<jobs, event, todo, recorded, received, history, faults>>

-----------------------------------------------------------------------------
(* Recording and publishing.                                               *)

\* Some other change that is recorded.
Change(r) == Begin(r, "change", "record")

\* publish_audit_event leaves out the changes of webhooks themselves.
Published(kind) == kind \notin {"subscribe", "unsubscribe"}

\* The event is stored, and published with what is left of the request.
Record(r) ==
  /\ pc[r] = "record"
  /\ recorded < MaxEvents /\ recorded' = recorded + 1
  /\ IF Published(op[r])
     THEN /\ event' = [event EXCEPT ![r] = recorded']
          /\ Goto(r, "list")
          /\ UNCHANGED <<op, todo>>
     ELSE Finish(r)
  /\ UNCHANGED <<hookVars, received, history, faults>>

\* The event is lost when the database refuses it: the change stands.
RecordFails(r) ==
  /\ pc[r] = "record" /\ faults < MaxFaults /\ faults' = faults + 1
  /\ Finish(r)
  /\ UNCHANGED <<hookVars, recorded, received, history>>

\* Faulty variant: the page is one short.
Shorter(S) == {T \in SUBSET S : Cardinality(T) < MaxHooks \/ T = {}}

\* publish: the subscriptions, at most MaxHooks of them and in no order.
Listed(S) == {T \in SUBSET S : Cardinality(T) = MaxHooks \/ (T = S /\ Cardinality(S) <= MaxHooks)}

ListHooks(r) ==
  /\ pc[r] = "list"
  /\ \E S \in Listed(Live) : todo' = [todo EXCEPT ![r] = S \cap Wanting]
  /\ owed' = owed \cup {[hook |-> h, event |-> event[r]] :
                            h \in IF Cardinality(Live) > MaxHooks THEN {} ELSE Live \cap Wanting}
  /\ Goto(r, "enqueue")
  /\ UNCHANGED <<hookVars, op, event, recorded, received, late, faults>>

NewJob(h, e) ==
  [hook |-> h, event |-> e, id |-> Len(jobs) + 1, status |-> "queued", attempts |-> 0, ended |-> FALSE]

Enqueue(r) ==
  /\ pc[r] = "enqueue"
  /\ IF todo[r] = {}
     THEN Finish(r) /\ UNCHANGED jobs
     ELSE /\ Len(jobs) < MaxMessages
          /\ \E h \in todo[r] :
               /\ jobs' = Append(jobs, NewJob(h, event[r]))
               /\ todo' = [todo EXCEPT ![r] = @ \ {h}]
          /\ UNCHANGED <<pc, op, event>>
  /\ UNCHANGED <<hooks, recorded, received, history, faults>>

\* A refused insert of a job, a time-out or a crash: what is left is not queued.
Cut(r) ==
  /\ pc[r] # "idle" /\ faults < MaxFaults /\ faults' = faults + 1
  /\ Finish(r)
  /\ owed' = {d \in owed : d.event # event[r]}
  /\ UNCHANGED <<hookVars, recorded, received, late>>

\* send_test, whatever the subscription asks for.
SendTest(h) ==
  /\ hooks[h] = "live" /\ Len(jobs) < MaxMessages
  /\ jobs' = Append(jobs, NewJob(h, NoEvent))
  /\ UNCHANGED <<hooks, request, recorded, received, history, faults>>

-----------------------------------------------------------------------------
(* Delivery.                                                               *)

\* The subscription is still there.
Subscribed(h) == hooks[h] = "live"

Update(i, how) == jobs' = [jobs EXCEPT ![i] = how]

\* A worker takes the job; ended tells that the subscription was over by then.
Take(i) ==
  /\ jobs[i].status = "queued"
  /\ Update(i, [jobs[i] EXCEPT !.status = "taken", !.attempts = @ + 1,
                               !.ended = hooks[jobs[i].hook] # "live"])
  /\ UNCHANGED <<hooks, request, recorded, received, history, faults>>

LookUp(i) ==
  /\ jobs[i].status = "taken"
  /\ Update(i, [jobs[i] EXCEPT !.status = IF Subscribed(jobs[i].hook) THEN "sending" ELSE "done"])
  /\ UNCHANGED <<hooks, request, recorded, received, history, faults>>

\* Faulty variant: every attempt is a message of its own.
PerAttempt(job) == <<job.id, job.attempts>>

\* webhook-id, fixed when the delivery was queued.
MessageId(job) == <<job.id, 1>>

Got(job) == received \cup {[hook |-> job.hook, event |-> job.event, id |-> MessageId(job)]}

\* The receiver has it; its answer may still be lost.
Post(i) ==
  /\ jobs[i].status = "sending"
  /\ received' = Got(jobs[i])
  /\ late' = late \cup {h \in {jobs[i].hook} : jobs[i].ended}
  /\ Update(i, [jobs[i] EXCEPT !.status = "answered"])
  /\ UNCHANGED <<hooks, request, recorded, owed, faults>>

Finished(i) ==
  /\ jobs[i].status = "answered"
  /\ Update(i, [jobs[i] EXCEPT !.status = "done"])
  /\ UNCHANGED <<hooks, request, recorded, received, history, faults>>

\* Any other answer or none, or the worker's crash, before the receiver has it or after.
Fails(i) ==
  /\ jobs[i].status \in {"taken", "sending", "answered"}
  /\ faults < MaxFaults /\ faults' = faults + 1
  /\ Update(i, [jobs[i] EXCEPT !.status = IF jobs[i].attempts < MaxAttempts THEN "queued" ELSE "dead"])
  /\ UNCHANGED <<hooks, request, recorded, received, history>>

-----------------------------------------------------------------------------
Publishing(r) ==
  CountHooks(r) \/ InsertHook(r) \/ Record(r) \/ ListHooks(r) \/ Enqueue(r)

Delivering(i) == Take(i) \/ LookUp(i) \/ Post(i) \/ Finished(i)

Next ==
  \/ \E r \in Request :
       \/ Subscribe(r) \/ Change(r) \/ Publishing(r) \/ RecordFails(r) \/ Cut(r)
       \/ \E h \in Hook : Unsubscribe(r, h)
  \/ \E h \in Hook : SendTest(h)
  \/ \E i \in 1 .. Len(jobs) : Delivering(i) \/ Fails(i)

Spec == Init /\ [][Next]_vars

\* Requests run on and workers take what is queued.
Fairness ==
  /\ \A r \in Request : WF_vars(Publishing(r))
  /\ \A i \in 1 .. MaxMessages : WF_vars(i <= Len(jobs) /\ Delivering(i))

FairSpec == Spec /\ Fairness

-----------------------------------------------------------------------------
\* What a subscription is sent twice it can tell: for one event there is one message identifier,
\* however often the delivery was tried, and crashed after the receiver had it.
OneMessagePerEvent ==
  \A m, n \in received : m.hook = n.hook /\ m.event = n.event /\ m.event # NoEvent => m.id = n.id

\* Queued deliveries to a subscription that has ended are dropped: nothing is sent to it by an
\* attempt that began after it was removed.
EndedIsLeftAlone == late = {}

\* A receiver can tell what it has already got, and is left alone once it has unsubscribed.
DeliveriesHold == OneMessagePerEvent /\ EndedIsLeftAlone

\* Every recorded change is sent to every subscription that wanted it when it was published,
\* unless that has ended or the delivery is among the dead: as long as there are no more
\* subscriptions, made together past the limit, than the listing takes.
Settled(d) ==
  \/ hooks[d.hook] # "live" \/ Len(jobs) = MaxMessages
  \/ \E m \in received : m.hook = d.hook /\ m.event = d.event
  \/ \E i \in 1 .. Len(jobs) :
       jobs[i].hook = d.hook /\ jobs[i].event = d.event /\ jobs[i].status = "dead"

OwedIsSent == <>[](\A d \in owed : Settled(d))
=============================================================================
