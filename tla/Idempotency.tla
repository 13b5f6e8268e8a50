---------------------------- MODULE Idempotency ----------------------------
(***************************************************************************)
(* What happens to the requests a client sends under one Idempotency-Key:  *)
(* the time-out, rate-limit and idempotency middlewares                    *)
(* (app/api/middleware) around a route, over the shared cache and its      *)
(* circuit breaker (app/services/cache.py).                                *)
(*                                                                         *)
(* The time-out middleware is the outermost of the three, so it cancels a  *)
(* request at any await of the other two.  One step is one cache call, one *)
(* effect of the route, or one answer.  Routes are external: each may have *)
(* its effect or not, and answer or raise at any point.                    *)
(***************************************************************************)
EXTENDS Naturals, FiniteSets

CONSTANTS
  Request,        \* requests under the key, retries included
  Worker,         \* worker processes
  NoWorker,
  Body,           \* request bodies (their hash, or their declared length)
  NoBody,
  Outcomes,       \* how routes end: "kept", "unkept", "raised"
  MaxConcurrent,  \* max_concurrent_requests
  MaxFaults       \* bound on time-outs, crashes and outages together

ASSUME NamesAssumption ==
  /\ NoWorker \notin Worker /\ NoBody \notin Body
  /\ Outcomes \subseteq {"kept", "unkept", "raised"}
ASSUME BoundsAssumption == MaxConcurrent \in Nat \ {0} /\ MaxFaults \in Nat

VARIABLES
  entry,      \* what the cache holds under the key
  up,         \* the cache backend answers
  shut,       \* workers whose circuit is open: they do not contact the cache
  pc,         \* where each request is
  on,         \* the worker that serves it
  body,       \* its body
  done,       \* its route has had its effect
  settle,     \* what it does to the entry once the route is over
  answer,     \* how it was answered
  effects,    \* history: how often a route had its effect since the key was new (2: or more)
  standing,   \* history: effects whose key was not released since
  completed,  \* history: bodies whose request was answered by the route itself
  faults      \* time-outs, crashes and outages so far

cache == <<entry, up, shut>>
request == <<pc, on, body, done, settle, answer>>
history == <<effects, standing, completed, faults>>
vars == <<cache, request, history>>

NoEntry == [state |-> "none", body |-> NoBody]
Running(b) == [state |-> "running", body |-> b]

Done(b) == [state |-> "done", body |-> b]

Init ==
  /\ entry = NoEntry
  /\ up = TRUE /\ shut = {}
  /\ pc = [r \in Request |-> "idle"]
  /\ on = [r \in Request |-> NoWorker]
  /\ body = [r \in Request |-> NoBody]
  /\ done = [r \in Request |-> FALSE]
  /\ settle = [r \in Request |-> "no"]
  /\ answer = [r \in Request |-> "none"]
  /\ effects = 0 /\ standing = 0
  /\ completed = {}
  /\ faults = 0

Goto(r, label) == pc' = [pc EXCEPT ![r] = label]

\* The request leaves the middlewares and gives its slot back.
Leave(r) ==
  /\ Goto(r, "idle")
  /\ on' = [on EXCEPT ![r] = NoWorker]
  /\ done' = [done EXCEPT ![r] = FALSE]
  /\ settle' = [settle EXCEPT ![r] = "no"]

Answered(r, how) == answer' = [answer EXCEPT ![r] = how]

Fault == faults < MaxFaults /\ faults' = faults + 1

-----------------------------------------------------------------------------
(* The time-out middleware: a slot, or 503.                                *)

Arrive(r, w, b) ==
  /\ pc[r] = "idle"
  /\ Goto(r, "queue")
  /\ on' = [on EXCEPT ![r] = w]
  /\ body' = [body EXCEPT ![r] = b]
  /\ Answered(r, "none")
  /\ UNCHANGED <<cache, done, settle, history>>

Holders(w) == {r \in Request : on[r] = w /\ pc[r] \notin {"idle", "queue"}}

Acquire(r) ==
  /\ pc[r] = "queue"
  /\ Cardinality(Holders(on[r])) < MaxConcurrent
  /\ Goto(r, "limit")
  /\ UNCHANGED <<cache, on, body, done, settle, answer, history>>

\* queue_wait_seconds are over.
Overloaded(r) ==
  /\ pc[r] = "queue"
  /\ Leave(r) /\ Answered(r, "refused")
  /\ UNCHANGED <<cache, body, history>>

-----------------------------------------------------------------------------
(* The cache as a worker sees it.                                          *)

Reaches(w) == up /\ w \notin shut

\* A call that fails opens the circuit; one that is not made changes nothing.
Fails(w) == ~Reaches(w) /\ shut' = shut \cup {w}

-----------------------------------------------------------------------------
(* The rate limiter counts in the cache and fails open.                    *)

Limit(r) ==
  /\ pc[r] = "limit"
  /\ \/ Reaches(on[r]) /\ UNCHANGED shut
     \/ Fails(on[r])
  /\ Goto(r, "claim")
  /\ UNCHANGED <<entry, up, on, body, done, settle, answer, history>>

\* Too many requests in the window; other clients fill it as well.
Limited(r) ==
  /\ pc[r] = "limit" /\ Reaches(on[r])
  /\ Leave(r) /\ Answered(r, "refused")
  /\ UNCHANGED <<cache, body, history>>

-----------------------------------------------------------------------------
(* The idempotency middleware.                                             *)

\* Faulty variant: an entry that is still running does not count.
FreeUnlessDone == entry.state # "done"

\* Faulty variant: a stored response does not count.
FreeUnlessRunning == entry.state # "running"

Free == entry.state = "none"

Claim(r) ==
  /\ pc[r] = "claim" /\ Reaches(on[r])
  /\ IF Free
     THEN entry' = Running(body[r]) /\ Goto(r, "route")
     ELSE UNCHANGED entry /\ Goto(r, "lookup")
  /\ UNCHANGED <<up, shut, on, body, done, settle, answer, history>>

\* Faulty variant: without the cache it runs unprotected.
RunUnprotected(r) ==
  /\ Goto(r, "route")
  /\ UNCHANGED <<on, done, settle, answer>>

Refuse(r) == Leave(r) /\ Answered(r, "refused")

\* Unprotected it could run twice: 503.
ClaimUnavailable(r) ==
  /\ pc[r] = "claim" /\ Fails(on[r])
  /\ Refuse(r)
  /\ UNCHANGED <<entry, up, body, history>>

\* The claim is made but its reply lost: the call fails, or the client library's retry
\* finds the key taken.
ClaimUnheard(r) ==
  /\ pc[r] = "claim" /\ Reaches(on[r]) /\ Free
  /\ Fault
  /\ entry' = Running(body[r])
  /\ \/ shut' = shut \cup {on[r]} /\ Leave(r) /\ Answered(r, "refused")
     \/ Goto(r, "lookup") /\ UNCHANGED <<shut, on, done, settle, answer>>
  /\ UNCHANGED <<up, body, effects, standing, completed>>

SameBody(b) == entry.body = b

\* A retry: replayed, 409 while the first one runs (or the entry is gone), 422 for another
\* body.  Without the cache it cannot tell, and answers 409.
LookUp(r) ==
  /\ pc[r] = "lookup"
  /\ \/ Reaches(on[r]) /\ UNCHANGED shut
     \/ Fails(on[r])
  /\ Leave(r)
  /\ Answered(r, IF ~Reaches(on[r]) \/ entry.state # "done" THEN "busy"
                 ELSE IF SameBody(body[r]) THEN "replayed" ELSE "refused")
  /\ UNCHANGED <<entry, up, body, history>>

\* The route does what it was asked for.
Effect(r) ==
  /\ pc[r] = "route" /\ ~done[r]
  /\ done' = [done EXCEPT ![r] = TRUE]
  /\ effects' = IF effects = 2 THEN 2 ELSE effects + 1
  /\ standing' = standing + 1
  /\ UNCHANGED <<cache, pc, on, body, settle, answer, completed, faults>>

\* 5xx, 401, 403, 408, 425 and 429 and very long responses are not kept, nor exceptions.
Keeps(how) == how = "kept"

\* The route answers, and the client has its answer; or it raises.
RouteEnds(r, how) ==
  /\ pc[r] = "route" /\ how \in Outcomes
  /\ Goto(r, "settle")
  /\ settle' = [settle EXCEPT ![r] = IF Keeps(how) THEN "store" ELSE "release"]
  /\ Answered(r, IF how = "raised" THEN "failed" ELSE "own")
  /\ completed' = IF how = "raised" THEN completed ELSE completed \cup {body[r]}
  /\ UNCHANGED <<cache, on, body, done, effects, standing, faults>>

Settled(r) == IF settle[r] = "store" THEN Done(body[r]) ELSE NoEntry

\* A released key lets the client repeat what was done.
Settle(r) ==
  /\ pc[r] = "settle" /\ Reaches(on[r])
  /\ entry' = Settled(r)
  /\ standing' = IF settle[r] = "release" /\ done[r] THEN standing - 1 ELSE standing
  /\ Leave(r)
  /\ UNCHANGED <<up, shut, body, answer, effects, completed, faults>>

\* Without the cache the claim stays until it lapses.
SettleSkipped(r) ==
  /\ pc[r] = "settle" /\ Fails(on[r])
  /\ Leave(r)
  /\ UNCHANGED <<entry, up, body, answer, history>>

-----------------------------------------------------------------------------
(* What cuts requests short.                                               *)

\* The time-out cancels a request that holds a slot.  In the route that releases the
\* claim, and is not cut a second time; a claim under way may have been made or not, and stays.
CutInRoute(r) ==
  /\ pc[r] = "route" /\ Fault
  /\ Goto(r, "settle")
  /\ settle' = [settle EXCEPT ![r] = "release"]
  /\ Answered(r, "cut")
  /\ UNCHANGED <<cache, on, body, done, effects, standing, completed>>

CutElsewhere(r) ==
  /\ pc[r] \in {"limit", "claim", "lookup", "settle"} /\ answer[r] # "cut"
  /\ Fault
  /\ Leave(r)
  /\ IF pc[r] = "settle" THEN UNCHANGED answer ELSE Answered(r, "cut")
  /\ \/ UNCHANGED entry
     \/ pc[r] = "claim" /\ Free /\ Reaches(on[r]) /\ entry' = Running(body[r])
  /\ UNCHANGED <<up, shut, body, effects, standing, completed>>

\* A worker is killed, and its requests with it; the new process starts afresh.
Crash(w) ==
  /\ \E r \in Request : on[r] = w
  /\ Fault
  /\ LET lost == {r \in Request : on[r] = w} IN
       /\ pc' = [r \in Request |-> IF r \in lost THEN "idle" ELSE pc[r]]
       /\ on' = [r \in Request |-> IF r \in lost THEN NoWorker ELSE on[r]]
       /\ done' = [r \in Request |-> r \notin lost /\ done[r]]
       /\ settle' = [r \in Request |-> IF r \in lost THEN "no" ELSE settle[r]]
  /\ shut' = shut \ {w}
  /\ UNCHANGED <<entry, up, body, answer, effects, standing, completed>>

-----------------------------------------------------------------------------
(* The cache and the clock.                                                *)

CacheFails ==
  /\ up /\ Fault
  /\ up' = FALSE
  /\ UNCHANGED <<entry, shut, request, effects, standing, completed>>

CacheHeals ==
  /\ ~up /\ up' = TRUE
  /\ UNCHANGED <<entry, shut, request, history>>

CircuitCloses(w) ==
  /\ w \in shut
  /\ shut' = shut \ {w}
  /\ UNCHANGED <<entry, up, request, history>>

Working(r) == pc[r] \in {"route", "settle"}

\* idempotency_ttl_seconds are longer than any route may take.
Lapses == entry.state # "none" /\ \A r \in Request : ~Working(r)

\* The key is new again.
Lapse ==
  /\ Lapses
  /\ entry' = NoEntry
  /\ effects' = 0 /\ standing' = 0
  /\ UNCHANGED <<up, shut, request, completed, faults>>

-----------------------------------------------------------------------------
Serve(r) ==
  \/ Acquire(r) \/ Overloaded(r)
  \/ Limit(r) \/ Limited(r)
  \/ Claim(r) \/ ClaimUnavailable(r) \/ LookUp(r)
  \/ \E how \in Outcomes : RouteEnds(r, how)
  \/ Settle(r) \/ SettleSkipped(r)

Next ==
  \/ \E r \in Request, w \in Worker, b \in Body : Arrive(r, w, b)
  \/ \E r \in Request :
       Serve(r) \/ Effect(r) \/ ClaimUnheard(r) \/ CutInRoute(r) \/ CutElsewhere(r)
  \/ \E w \in Worker : Crash(w) \/ CircuitCloses(w)
  \/ CacheFails \/ CacheHeals \/ Lapse

Spec == Init /\ [][Next]_vars

-----------------------------------------------------------------------------
(* What the key promises.                                                  *)

Labels == {"idle", "queue", "limit", "claim", "lookup", "route", "settle"}
\* "refused": 503, 429 or 422; "busy": 409; "failed": an exception; "cut": 504.
Answers == {"none", "refused", "busy", "replayed", "own", "failed", "cut"}

\* Every variable stays in its range; only a request that works has had an effect.
TypeOK ==
  /\ entry \in [state : {"none", "running", "done"}, body : Body \cup {NoBody}]
  /\ entry.state = "none" <=> entry.body = NoBody
  /\ up \in BOOLEAN /\ shut \subseteq Worker
  /\ pc \in [Request -> Labels] /\ on \in [Request -> Worker \cup {NoWorker}]
  /\ body \in [Request -> Body \cup {NoBody}] /\ done \in [Request -> BOOLEAN]
  /\ settle \in [Request -> {"no", "store", "release"}]
  /\ answer \in [Request -> Answers]
  /\ effects \in 0 .. 2 /\ standing \in Nat /\ completed \subseteq Body
  /\ faults \in 0 .. MaxFaults
  /\ \A r \in Request :
       /\ pc[r] = "idle" <=> on[r] = NoWorker
       /\ pc[r] # "idle" => body[r] \in Body
       /\ done[r] => Working(r)
       /\ pc[r] = "settle" <=> settle[r] # "no"

\* No two requests with one key are in their routes at once, on whatever workers, and the
\* claim of the one that is stays in the cache.
OneAtATime ==
  \A r \in Request : Working(r) =>
    /\ entry = Running(body[r])
    /\ \A q \in Request \ {r} : ~Working(q)

\* An effect is repeated only if the middleware released the key after it (it let a
\* failure, or a request cut short, be retried) or the key lapsed; what a crash or an
\* outage leaves behind blocks the key instead.
RepeatedOnlyIfReleased == standing <= 1

\* A stored response is neither replaced nor removed, by whichever request, until it lapses.
StoredStays ==
  [][entry.state = "done" => entry' = entry \/ (entry' = NoEntry /\ effects' = 0)]_vars

\* What is replayed was answered to a request with the same body.
ReplayIsEarned ==
  \A r \in Request : answer[r] = "replayed" => body[r] \in completed

\* Without time-outs, crashes and outages no claim outlives its request: whoever is told
\* that the first request still runs is told the truth.
NoOrphans ==
  faults = 0 /\ entry.state = "running" => \E r \in Request : Working(r)

\* Between them: a claim and the response it leaves belong to one request.
ClaimsHold == TypeOK /\ OneAtATime /\ ReplayIsEarned /\ NoOrphans

-----------------------------------------------------------------------------
(* What the documentation says, and the code does not do.                  *)

\* "A client that retries a POST/PUT/PATCH/DELETE after a timeout must not run it twice."
NeverTwice == effects <= 1

\* "A retry while the first request is still running gets 409": and only then.
BusyOnlyWhileRunning ==
  entry.state = "running" => \E r \in Request : Working(r)
=============================================================================
