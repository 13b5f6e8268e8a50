------------------------- MODULE IdempotencyProofs -------------------------
(***************************************************************************)
(* What the middlewares keep for any number of requests, workers, bodies   *)
(* and faults.  The argument is about the claim: whoever is in its route   *)
(* is alone there and the entry names its body, so nobody else settles,    *)
(* and the effects that still stand are those of the present claim.        *)
(* Then what the permission checks keep, for any number of roles, groups,  *)
(* grants and requests: a change drops the copies it made stale, and a     *)
(* request that read before it remembers that it was crossed.              *)
(* Last what the rate limiter keeps, for any number of processes and any   *)
(* limit, window, clocks and rounding: what a counter holds is never less  *)
(* than what it let through and is still in the window.                    *)
(***************************************************************************)
EXTENDS MCIdempotency, FiniteSetTheorems, WellFoundedInduction, TLAPS

-----------------------------------------------------------------------------
(* Types.                                                                  *)

LEMMA InitTyped == Init => TypeOK
  BY NamesAssumption, BoundsAssumption DEF Init, TypeOK, NoEntry, Working, Labels, Answers

-----------------------------------------------------------------------------
(* The invariant.                                                          *)

\* Effects that stand are those of the present claim, and of whoever still works on it.
Accounted ==
  /\ standing <= 1
  /\ entry.state = "none" => standing = 0
  /\ \A r \in Request : Working(r) => standing = IF done[r] THEN 1 ELSE 0

\* What is stored, or about to be, was answered.
Earned ==
  /\ ReplayIsEarned
  /\ entry.state = "done" => entry.body \in completed
  /\ \A r \in Request : settle[r] = "store" => body[r] \in completed

\* Until something fails every worker reaches the cache.
Undisturbed == NoOrphans /\ (faults = 0 => up /\ shut = {})

Inv == TypeOK /\ OneAtATime /\ Accounted /\ Earned /\ Undisturbed

LEMMA InvInit == Init => Inv
  BY InitTyped DEF Init, Inv, OneAtATime, Accounted, Earned, ReplayIsEarned, Undisturbed,
     NoOrphans, NoEntry, Working

LEMMA ArriveKeeps ==
  ASSUME Inv, NEW r \in Request, NEW w \in Worker, NEW b \in Body, Arrive(r, w, b)
  PROVE  Inv'
<1>1. /\ pc' = [pc EXCEPT ![r] = "queue"] /\ on' = [on EXCEPT ![r] = w]
      /\ body' = [body EXCEPT ![r] = b] /\ answer' = [answer EXCEPT ![r] = "none"]
      /\ pc[r] = "idle" /\ UNCHANGED <<entry, up, shut, done, settle, effects, standing, completed, faults>>
  BY DEF Arrive, Goto, Answered, cache, history
<1>2. TypeOK'
  BY <1>1, NamesAssumption DEF Inv, TypeOK, Labels, Answers, Working
<1>3. OneAtATime' /\ Accounted' /\ Undisturbed'
  BY <1>1 DEF Inv, TypeOK, OneAtATime, Accounted, Undisturbed, NoOrphans, Working
<1>4. Earned'
  BY <1>1 DEF Inv, TypeOK, Earned, ReplayIsEarned
<1> QED BY <1>2, <1>3, <1>4 DEF Inv

\* A request that is not in its route leaves, and changes neither entry nor accounts.
LEMMA RefusalKeeps ==
  ASSUME Inv, NEW r \in Request, NEW how \in Answers, Leave(r), Answered(r, how), ~Working(r),
         how = "replayed" => body[r] \in completed,
         faults = 0 => shut' = shut, shut' \subseteq Worker,
         UNCHANGED <<entry, up, body, history>>
  PROVE  Inv'
<1>1. /\ pc' = [pc EXCEPT ![r] = "idle"] /\ on' = [on EXCEPT ![r] = NoWorker]
      /\ done' = [done EXCEPT ![r] = FALSE] /\ settle' = [settle EXCEPT ![r] = "no"]
      /\ answer' = [answer EXCEPT ![r] = how]
      /\ UNCHANGED <<entry, up, body, effects, standing, completed, faults>>
  BY DEF Leave, Goto, Answered, history
<1>2. TypeOK'
  BY <1>1 DEF Inv, TypeOK, Labels, Working
<1>3. OneAtATime' /\ Accounted' /\ Undisturbed'
  BY <1>1 DEF Inv, TypeOK, OneAtATime, Accounted, Undisturbed, NoOrphans, Working
<1>4. Earned'
  BY <1>1 DEF Inv, TypeOK, Earned, ReplayIsEarned
<1> QED BY <1>2, <1>3, <1>4 DEF Inv

LEMMA ClaimKeeps ==
  ASSUME Inv, NEW r \in Request, Claim(r)
  PROVE  Inv'
<1>1. /\ pc[r] = "claim"
      /\ \/ entry.state = "none" /\ entry' = Running(body[r]) /\ pc' = [pc EXCEPT ![r] = "route"]
         \/ entry.state # "none" /\ entry' = entry /\ pc' = [pc EXCEPT ![r] = "lookup"]
      /\ UNCHANGED <<up, shut, on, body, done, settle, answer, effects, standing, completed, faults>>
  BY DEF Claim, Goto, Free, history
<1>2. TypeOK'
  BY <1>1, NamesAssumption DEF Inv, TypeOK, Labels, Working, Running
<1>3. OneAtATime' /\ Accounted' /\ Undisturbed'
  BY <1>1, NamesAssumption DEF Inv, TypeOK, OneAtATime, Accounted, Undisturbed, NoOrphans, Working, Running
<1>4. Earned'
  BY <1>1 DEF Inv, TypeOK, Earned, ReplayIsEarned, Running
<1> QED BY <1>2, <1>3, <1>4 DEF Inv

LEMMA PassesKeep ==
  ASSUME Inv, NEW r \in Request, Acquire(r) \/ Limit(r)
  PROVE  Inv'
<1>1. /\ \/ pc[r] = "queue" /\ pc' = [pc EXCEPT ![r] = "limit"]
         \/ pc[r] = "limit" /\ pc' = [pc EXCEPT ![r] = "claim"]
      /\ shut' \subseteq Worker /\ (faults = 0 => shut' = shut)
      /\ UNCHANGED <<entry, up, on, body, done, settle, answer, effects, standing, completed, faults>>
  <2>1. on[r] # NoWorker => on[r] \in Worker
    BY DEF Inv, TypeOK
  <2>2. pc[r] # "idle" => on[r] \in Worker
    BY <2>1 DEF Inv, TypeOK
  <2> QED BY <2>2 DEF Acquire, Limit, Fails, Reaches, Goto, cache, history, Inv, TypeOK, Undisturbed
<1>2. TypeOK'
  BY <1>1 DEF Inv, TypeOK, Labels, Working
<1>3. OneAtATime' /\ Accounted' /\ Undisturbed'
  BY <1>1 DEF Inv, TypeOK, OneAtATime, Accounted, Undisturbed, NoOrphans, Working
<1>4. Earned'
  BY <1>1 DEF Inv, TypeOK, Earned, ReplayIsEarned
<1> QED BY <1>2, <1>3, <1>4 DEF Inv

LEMMA RefusalsKeep ==
  ASSUME Inv, NEW r \in Request,
         Overloaded(r) \/ Limited(r) \/ ClaimUnavailable(r) \/ LookUp(r)
  PROVE  Inv'
<1>1. pc[r] # "idle" => on[r] \in Worker
  BY DEF Inv, TypeOK
<1>2. CASE Overloaded(r) \/ Limited(r)
  BY <1>2, RefusalKeeps DEF Overloaded, Limited, Answers, Working, cache, history, Inv, TypeOK
<1>3. CASE ClaimUnavailable(r)
  <2>1. Fails(on[r]) => shut' \subseteq Worker /\ (faults = 0 => shut' = shut)
    BY <1>1, <1>3 DEF ClaimUnavailable, Fails, Reaches, Inv, TypeOK, Undisturbed
  <2> QED BY <1>3, <2>1, RefusalKeeps DEF ClaimUnavailable, Refuse, Answers, Working
<1>4. CASE LookUp(r)
  <2> DEFINE how == IF ~Reaches(on[r]) \/ entry.state # "done" THEN "busy"
                    ELSE IF SameBody(body[r]) THEN "replayed" ELSE "refused"
  <2>1. how \in Answers /\ (how = "replayed" => body[r] \in completed)
    BY DEF Answers, SameBody, Inv, Earned
  <2>2. shut' \subseteq Worker /\ (faults = 0 => shut' = shut)
    BY <1>1, <1>4 DEF LookUp, Fails, Reaches, Inv, TypeOK, Undisturbed
  <2>3. Leave(r) /\ Answered(r, how) /\ ~Working(r) /\ UNCHANGED <<entry, up, body, history>>
    BY <1>4 DEF LookUp, Working
  <2> HIDE DEF how
  <2> QED BY <2>1, <2>2, <2>3, RefusalKeeps
<1> QED BY <1>2, <1>3, <1>4

\* A claim nobody hears of holds the key, and nobody works under it.
LEMMA ClaimUnheardKeeps ==
  ASSUME Inv, NEW r \in Request, ClaimUnheard(r)
  PROVE  Inv'
<1>1. /\ pc[r] = "claim" /\ entry.state = "none" /\ entry' = Running(body[r])
      /\ faults' = faults + 1 /\ faults < MaxFaults
      /\ UNCHANGED <<up, body, effects, standing, completed>>
  BY DEF ClaimUnheard, Free, Fault
<1>2. /\ shut' \subseteq Worker
      /\ \/ /\ pc' = [pc EXCEPT ![r] = "idle"] /\ on' = [on EXCEPT ![r] = NoWorker]
            /\ done' = [done EXCEPT ![r] = FALSE] /\ settle' = [settle EXCEPT ![r] = "no"]
            /\ answer' = [answer EXCEPT ![r] = "refused"]
         \/ pc' = [pc EXCEPT ![r] = "lookup"] /\ UNCHANGED <<on, done, settle, answer>>
  <2>1. on[r] \in Worker
    BY <1>1 DEF Inv, TypeOK
  <2> QED BY <2>1 DEF ClaimUnheard, Leave, Answered, Goto, Inv, TypeOK
<1>3. \A q \in Request : ~Working(q)
  BY <1>1, NamesAssumption DEF Inv, OneAtATime, Running
<1>4. TypeOK'
  <2>1. /\ entry' \in [state : {"none", "running", "done"}, body : Body \cup {NoBody}]
        /\ entry'.state = "running" /\ entry'.body # NoBody
    BY <1>1, NamesAssumption DEF Inv, TypeOK, Running
  <2>2. faults' \in 0 .. MaxFaults
    BY <1>1, BoundsAssumption DEF Inv, TypeOK
  <2>3. CASE pc' = [pc EXCEPT ![r] = "lookup"] /\ UNCHANGED <<on, done, settle, answer>>
    BY <1>1, <1>2, <2>1, <2>2, <2>3 DEF Inv, TypeOK, Labels, Working
  <2>4. CASE /\ pc' = [pc EXCEPT ![r] = "idle"] /\ on' = [on EXCEPT ![r] = NoWorker]
             /\ done' = [done EXCEPT ![r] = FALSE] /\ settle' = [settle EXCEPT ![r] = "no"]
             /\ answer' = [answer EXCEPT ![r] = "refused"]
    BY <1>1, <1>2, <2>1, <2>2, <2>4 DEF Inv, TypeOK, Labels, Answers, Working
  <2> QED BY <1>2, <2>3, <2>4
<1>5. OneAtATime' /\ Accounted' /\ Undisturbed'
  <2>1. \A q \in Request : ~Working(q)'
    BY <1>2, <1>3, <1>1 DEF Working, Inv, TypeOK
  <2> QED BY <1>1, <2>1, BoundsAssumption DEF Inv, TypeOK, OneAtATime, Accounted, Undisturbed, NoOrphans, Running
<1>6. Earned'
  BY <1>1, <1>2 DEF Inv, TypeOK, Earned, ReplayIsEarned, Running
<1> QED BY <1>4, <1>5, <1>6 DEF Inv

LEMMA RouteKeeps ==
  ASSUME Inv, NEW r \in Request, Effect(r) \/ CutInRoute(r) \/ \E how \in Outcomes : RouteEnds(r, how)
  PROVE  Inv'
<1>1. CASE Effect(r)
  <2>1. /\ pc[r] = "route" /\ ~done[r] /\ done' = [done EXCEPT ![r] = TRUE]
        /\ effects' = (IF effects = 2 THEN 2 ELSE effects + 1) /\ standing' = standing + 1
        /\ UNCHANGED <<entry, up, shut, pc, on, body, settle, answer, completed, faults>>
    BY <1>1 DEF Effect, cache
  <2>2. TypeOK'
    BY <2>1 DEF Inv, TypeOK, Working
  <2>3. OneAtATime' /\ Accounted' /\ Undisturbed'
    BY <2>1, NamesAssumption DEF Inv, TypeOK, OneAtATime, Accounted, Undisturbed, NoOrphans, Working, Running
  <2>4. Earned'
    BY <2>1 DEF Inv, TypeOK, Earned, ReplayIsEarned
  <2> QED BY <2>2, <2>3, <2>4 DEF Inv
<1>2. CASE CutInRoute(r) \/ \E how \in Outcomes : RouteEnds(r, how)
  <2>1. PICK what \in {"store", "release"}, how \in Answers :
          /\ pc[r] = "route" /\ pc' = [pc EXCEPT ![r] = "settle"]
          /\ settle' = [settle EXCEPT ![r] = what] /\ answer' = [answer EXCEPT ![r] = how]
          /\ completed \subseteq completed' /\ completed' \subseteq Body /\ how # "replayed"
          /\ what = "store" => body[r] \in completed'
          /\ faults' \in 0 .. MaxFaults /\ (faults' = 0 => faults = 0)
          /\ UNCHANGED <<entry, up, shut, on, body, done, effects, standing>>
    BY <1>2, BoundsAssumption
    DEF CutInRoute, RouteEnds, Keeps, Goto, Answered, Answers, Fault, cache, Inv, TypeOK
  <2>2. TypeOK'
    BY <2>1 DEF Inv, TypeOK, Labels, Working
  <2>3. OneAtATime' /\ Accounted' /\ Undisturbed'
    BY <2>1 DEF Inv, TypeOK, OneAtATime, Accounted, Undisturbed, NoOrphans, Working
  <2>4. Earned'
    BY <2>1 DEF Inv, TypeOK, Earned, ReplayIsEarned
  <2> QED BY <2>2, <2>3, <2>4 DEF Inv
<1> QED BY <1>1, <1>2

\* The entry a request settles is its own claim.
LEMMA SettleKeeps ==
  ASSUME Inv, NEW r \in Request, Settle(r)
  PROVE  Inv'
<1>1. /\ pc[r] = "settle" /\ entry' = Settled(r)
      /\ standing' = (IF settle[r] = "release" /\ done[r] THEN standing - 1 ELSE standing)
      /\ pc' = [pc EXCEPT ![r] = "idle"] /\ on' = [on EXCEPT ![r] = NoWorker]
      /\ done' = [done EXCEPT ![r] = FALSE] /\ settle' = [settle EXCEPT ![r] = "no"]
      /\ UNCHANGED <<up, shut, body, answer, effects, completed, faults>>
  BY DEF Settle, Leave, Goto
<1>2. /\ body[r] \in Body /\ body[r] # NoBody /\ settle[r] \in {"store", "release"}
      /\ standing = (IF done[r] THEN 1 ELSE 0)
      /\ \A q \in Request : ~Working(q)'
  BY <1>1, NamesAssumption DEF Inv, TypeOK, OneAtATime, Accounted, Working
<1>3. \/ settle[r] = "store" /\ entry' = Done(body[r]) /\ standing' = standing
      \/ settle[r] = "release" /\ entry' = NoEntry /\ standing' = 0
  BY <1>1, <1>2 DEF Settled
<1>4. TypeOK'
  <2>1. standing' \in Nat
    BY <1>3 DEF Inv, TypeOK
  <2>2. /\ entry' \in [state : {"none", "running", "done"}, body : Body \cup {NoBody}]
        /\ entry'.state = "none" <=> entry'.body = NoBody
    BY <1>2, <1>3 DEF Done, NoEntry
  <2> QED BY <1>1, <2>1, <2>2 DEF Inv, TypeOK, Labels, Working
<1>5. OneAtATime' /\ Accounted' /\ Undisturbed'
  BY <1>1, <1>2, <1>3 DEF Inv, OneAtATime, Accounted, Undisturbed, NoOrphans, Done, NoEntry
<1>6. Earned'
  BY <1>1, <1>2, <1>3 DEF Inv, TypeOK, Earned, ReplayIsEarned, Done, NoEntry
<1> QED BY <1>4, <1>5, <1>6 DEF Inv

\* Requests that are lost leave what they claimed behind, or the claim they were about to make.
LEMMA LossKeeps ==
  ASSUME Inv, NEW S \in SUBSET Request,
         pc' = [q \in Request |-> IF q \in S THEN "idle" ELSE pc[q]],
         on' = [q \in Request |-> IF q \in S THEN NoWorker ELSE on[q]],
         done' = [q \in Request |-> IF q \in S THEN FALSE ELSE done[q]],
         settle' = [q \in Request |-> IF q \in S THEN "no" ELSE settle[q]],
         answer' \in [Request -> Answers],
         \A q \in Request : answer'[q] \in {answer[q], "cut"},
         entry' = entry \/ (Free /\ \E b \in Body : entry' = Running(b)),
         shut' \subseteq Worker, faults' \in 1 .. MaxFaults,
         UNCHANGED <<up, body, effects, standing, completed>>
  PROVE  Inv'
<1>1. \A q \in Request : Working(q)' => Working(q) /\ entry' = entry
  BY NamesAssumption DEF Working, Inv, OneAtATime, Free, Running
<1>2. TypeOK'
  <2>1. /\ entry' \in [state : {"none", "running", "done"}, body : Body \cup {NoBody}]
        /\ entry'.state = "none" <=> entry'.body = NoBody
    BY NamesAssumption DEF Inv, TypeOK, Running
  <2>2. /\ pc' \in [Request -> Labels] /\ on' \in [Request -> Worker \cup {NoWorker}]
        /\ done' \in [Request -> BOOLEAN] /\ settle' \in [Request -> {"no", "store", "release"}]
    BY DEF Inv, TypeOK, Labels
  <2>3. faults' \in 0 .. MaxFaults
    BY BoundsAssumption
  <2> QED BY <2>1, <2>2, <2>3 DEF Inv, TypeOK, Working
<1>3. OneAtATime' /\ Accounted' /\ Undisturbed'
  BY <1>1 DEF Inv, TypeOK, OneAtATime, Accounted, Undisturbed, NoOrphans, Working, Running, Free
<1>4. Earned'
  BY DEF Inv, TypeOK, Earned, ReplayIsEarned, Running
<1> QED BY <1>2, <1>3, <1>4 DEF Inv

LEMMA CutKeeps ==
  ASSUME Inv, NEW r \in Request, CutElsewhere(r)
  PROVE  Inv'
<1>1. /\ pc' = [q \in Request |-> IF q \in {r} THEN "idle" ELSE pc[q]]
      /\ on' = [q \in Request |-> IF q \in {r} THEN NoWorker ELSE on[q]]
      /\ done' = [q \in Request |-> IF q \in {r} THEN FALSE ELSE done[q]]
      /\ settle' = [q \in Request |-> IF q \in {r} THEN "no" ELSE settle[q]]
  BY DEF CutElsewhere, Leave, Goto, Inv, TypeOK
<1>2. /\ answer' \in [Request -> Answers]
      /\ \A q \in Request : answer'[q] \in {answer[q], "cut"}
  BY DEF CutElsewhere, Answered, Answers, Inv, TypeOK
<1>3. entry' = entry \/ (Free /\ \E b \in Body : entry' = Running(b))
  BY DEF CutElsewhere, Inv, TypeOK
<1>4. /\ shut' \subseteq Worker /\ faults' \in 1 .. MaxFaults
      /\ UNCHANGED <<up, body, effects, standing, completed>>
  BY BoundsAssumption DEF CutElsewhere, Fault, Inv, TypeOK
<1>5. {r} \in SUBSET Request
  OBVIOUS
<1> QED BY <1>1, <1>2, <1>3, <1>4, <1>5, LossKeeps

LEMMA CrashKeeps ==
  ASSUME Inv, NEW w \in Worker, Crash(w)
  PROVE  Inv'
<1> DEFINE gone == {r \in Request : on[r] = w}
<1>1. /\ pc' = [q \in Request |-> IF q \in gone THEN "idle" ELSE pc[q]]
      /\ on' = [q \in Request |-> IF q \in gone THEN NoWorker ELSE on[q]]
      /\ settle' = [q \in Request |-> IF q \in gone THEN "no" ELSE settle[q]]
  BY DEF Crash
<1>2. done' = [q \in Request |-> IF q \in gone THEN FALSE ELSE done[q]]
  BY Zenon DEF Crash, Inv, TypeOK
<1>3. /\ answer' \in [Request -> Answers]
      /\ \A q \in Request : answer'[q] \in {answer[q], "cut"}
      /\ entry' = entry /\ shut' \subseteq Worker /\ faults' \in 1 .. MaxFaults
      /\ UNCHANGED <<up, body, effects, standing, completed>>
  BY BoundsAssumption DEF Crash, Fault, Inv, TypeOK
<1>4. gone \in SUBSET Request
  OBVIOUS
<1> HIDE DEF gone
<1> QED BY <1>1, <1>2, <1>3, <1>4, LossKeeps

LEMMA SettleSkippedKeeps ==
  ASSUME Inv, NEW r \in Request, SettleSkipped(r)
  PROVE  Inv'
<1>1. /\ pc[r] = "settle" /\ shut' = shut \cup {on[r]} /\ on[r] \in Worker /\ faults # 0
      /\ pc' = [pc EXCEPT ![r] = "idle"] /\ on' = [on EXCEPT ![r] = NoWorker]
      /\ done' = [done EXCEPT ![r] = FALSE] /\ settle' = [settle EXCEPT ![r] = "no"]
      /\ UNCHANGED <<entry, up, body, answer, effects, standing, completed, faults>>
  BY DEF SettleSkipped, Fails, Reaches, Leave, Goto, history, Inv, TypeOK, Undisturbed
<1>2. TypeOK'
  BY <1>1 DEF Inv, TypeOK, Labels, Working
<1>3. OneAtATime' /\ Accounted' /\ Undisturbed'
  BY <1>1 DEF Inv, TypeOK, OneAtATime, Accounted, Undisturbed, NoOrphans, Working
<1>4. Earned'
  BY <1>1 DEF Inv, TypeOK, Earned, ReplayIsEarned
<1> QED BY <1>2, <1>3, <1>4 DEF Inv

LEMMA WorldKeeps ==
  ASSUME Inv, CacheFails \/ CacheHeals \/ Lapse \/ \E w \in Worker : CircuitCloses(w)
  PROVE  Inv'
<1>1. CASE CacheFails \/ CacheHeals \/ \E w \in Worker : CircuitCloses(w)
  <2>1. /\ up' \in BOOLEAN /\ shut' \subseteq shut
        /\ faults' \in 0 .. MaxFaults /\ (faults' = 0 => faults = 0 /\ up')
        /\ UNCHANGED <<entry, pc, on, body, done, settle, answer, effects, standing, completed>>
    <3>1. CASE CacheFails
      <4>1. faults' \in 0 .. MaxFaults /\ faults' # 0
        BY <3>1, BoundsAssumption DEF CacheFails, Fault, Inv, TypeOK
      <4>2. /\ up' = FALSE /\ shut' = shut
            /\ UNCHANGED <<entry, pc, on, body, done, settle, answer, effects, standing, completed>>
        BY <3>1 DEF CacheFails, request
      <4> QED BY <4>1, <4>2
    <3>2. CASE CacheHeals
      BY <3>2 DEF CacheHeals, request, history, Inv, TypeOK
    <3>3. ASSUME NEW w \in Worker, CircuitCloses(w)
          PROVE  /\ up' = up /\ shut' \subseteq shut /\ faults' = faults
                 /\ UNCHANGED <<entry, pc, on, body, done, settle, answer, effects, standing, completed>>
      BY <3>3 DEF CircuitCloses, request, history
    <3>4. up \in BOOLEAN /\ faults \in 0 .. MaxFaults /\ (faults = 0 => up)
      BY DEF Inv, TypeOK, Undisturbed
    <3> QED BY <1>1, <3>1, <3>2, <3>3, <3>4
  <2>2. TypeOK'
    BY <2>1 DEF Inv, TypeOK, Working
  <2>3. OneAtATime' /\ Accounted' /\ Undisturbed'
    BY <2>1 DEF Inv, TypeOK, OneAtATime, Accounted, Undisturbed, NoOrphans, Working
  <2>4. Earned'
    BY <2>1 DEF Inv, Earned, ReplayIsEarned
  <2> QED BY <2>2, <2>3, <2>4 DEF Inv
<1>2. CASE Lapse
  <2>1. /\ entry' = NoEntry /\ effects' = 0 /\ standing' = 0 /\ \A q \in Request : ~Working(q)
        /\ UNCHANGED <<up, shut, pc, on, body, done, settle, answer, completed, faults>>
    BY <1>2 DEF Lapse, Lapses, request
  <2>2. TypeOK'
    BY <2>1 DEF Inv, TypeOK, Working, NoEntry
  <2>3. OneAtATime' /\ Accounted' /\ Undisturbed'
    BY <2>1 DEF Inv, OneAtATime, Accounted, Undisturbed, NoOrphans, Working, NoEntry
  <2>4. Earned'
    BY <2>1 DEF Inv, Earned, ReplayIsEarned, NoEntry
  <2> QED BY <2>2, <2>3, <2>4 DEF Inv
<1> QED BY <1>1, <1>2

LEMMA InvStep == Inv /\ [Next]_vars => Inv'
<1> SUFFICES ASSUME Inv, [Next]_vars PROVE Inv'
  OBVIOUS
<1>1. ASSUME NEW r \in Request, Serve(r) PROVE Inv'
  BY <1>1, PassesKeep, RefusalsKeep, ClaimKeeps, RouteKeeps, SettleKeeps, SettleSkippedKeeps DEF Serve
<1>2. ASSUME NEW r \in Request, Effect(r) \/ ClaimUnheard(r) \/ CutInRoute(r) \/ CutElsewhere(r)
      PROVE  Inv'
  BY <1>2, RouteKeeps, ClaimUnheardKeeps, CutKeeps
<1>3. CASE UNCHANGED vars
  BY <1>3 DEF vars, cache, request, history, Inv, TypeOK, OneAtATime, Accounted, Undisturbed,
              NoOrphans, Earned, ReplayIsEarned, Working
<1> QED BY <1>1, <1>2, <1>3, ArriveKeeps, CrashKeeps, WorldKeeps DEF Next

\* The invariant holds in every state of the middlewares, whatever fails.
THEOREM InvHolds == Spec => []Inv
  BY InvInit, InvStep, PTL DEF Spec

-----------------------------------------------------------------------------
(* What follows.                                                           *)

\* Every variable stays in its range.
THEOREM TypeCorrect == Spec => []TypeOK
<1>1. Inv => TypeOK
  BY DEF Inv
<1> QED BY <1>1, InvHolds, PTL

\* No two requests with one key are in their routes at once (idempotency.py:88-91): the claim
\* of the first is there until it settles, through time-outs, crashes and outages.
THEOREM RunsAlone == Spec => []OneAtATime
<1>1. Inv => OneAtATime
  BY DEF Inv
<1> QED BY <1>1, InvHolds, PTL

\* A route has its effect again only if its claim was released or lapsed
\* (idempotency.py:123-130).
THEOREM RepetitionsAreReleased == Spec => []RepeatedOnlyIfReleased
<1>1. Inv => RepeatedOnlyIfReleased
  BY DEF Inv, Accounted, RepeatedOnlyIfReleased
<1> QED BY <1>1, InvHolds, PTL

\* Nobody is sent a response that was not given to the same body (idempotency.py:164-176).
THEOREM ReplaysAreEarned == Spec => []ReplayIsEarned
<1>1. Inv => ReplayIsEarned
  BY DEF Inv, Earned
<1> QED BY <1>1, InvHolds, PTL

\* Before anything fails no claim outlives its request (idempotency.py:105-146).
THEOREM ClaimsAreSettled == Spec => []NoOrphans
<1>1. Inv => NoOrphans
  BY DEF Inv, Undisturbed
<1> QED BY <1>1, InvHolds, PTL

\* No step replaces or removes a stored response before it lapses (idempotency.py:88-91).
THEOREM ResponsesStay == Spec => StoredStays
<1> DEFINE Stays == entry.state = "done" => entry' = entry \/ (entry' = NoEntry /\ effects' = 0)
<1>1. Inv /\ [Next]_vars => [Stays]_vars
  <2> SUFFICES ASSUME Inv, Next, entry.state = "done"
               PROVE  entry' = entry \/ (entry' = NoEntry /\ effects' = 0)
    OBVIOUS
  <2>1. ~Free /\ \A r \in Request : ~Working(r)
    BY DEF Inv, OneAtATime, Running, Free
  <2>2. ASSUME NEW r \in Request, Serve(r) PROVE entry' = entry
    BY <2>1, <2>2 DEF Serve, Acquire, Overloaded, Limit, Limited, Claim, ClaimUnavailable, LookUp,
                      RouteEnds, Settle, SettleSkipped, Working, cache
  <2>3. ASSUME NEW r \in Request, Effect(r) \/ ClaimUnheard(r) \/ CutInRoute(r) \/ CutElsewhere(r)
        PROVE  entry' = entry
    BY <2>1, <2>3 DEF Effect, ClaimUnheard, CutInRoute, CutElsewhere, cache
  <2> QED BY <2>2, <2>3 DEF Next, Arrive, Crash, CircuitCloses, CacheFails, CacheHeals, Lapse, cache
<1>2. Spec => [][Stays]_vars
  BY <1>1, InvHolds, PTL DEF Spec
<1> QED BY <1>2 DEF StoredStays

\* A claim is alone, settled, and answers only what it was made for (idempotency.py:86-176).
THEOREM ClaimsStay == Spec => []ClaimsHold
<1>1. TypeOK /\ OneAtATime /\ ReplayIsEarned /\ NoOrphans => ClaimsHold
  BY DEF ClaimsHold
<1> QED BY <1>1, TypeCorrect, RunsAlone, ReplaysAreEarned, ClaimsAreSettled, PTL

-----------------------------------------------------------------------------
(* Permissions: the roles that a role inherits.  The code follows inheritance  *)
(* until nothing is new; the property speaks of paths between roles.           *)

LEMMA SameCountOfRoles == \A S : P!Cardinality(S) = Cardinality(S) /\ P!IsFiniteSet(S) = IsFiniteSet(S)
BY DEF P!Cardinality, Cardinality, P!IsFiniteSet, IsFiniteSet

PLess == {p \in Nat \X Nat : p[1] < p[2]}

\* A set of numbers that has 0 and, with each number, the next has them all.
LEMMA AllNumbers ==
  ASSUME NEW S, 0 \in S, \A n \in Nat : n \in S => n + 1 \in S
  PROVE  \A n \in Nat : n \in S
<1> DEFINE Bad == {n \in Nat : n \notin S}
<1> SUFFICES ASSUME Bad # {} PROVE FALSE
  OBVIOUS
<1>1. PICK n \in Bad : \A k \in Bad : <<k, n>> \notin PLess
  <2>1. Bad \subseteq Nat
    OBVIOUS
  <2>2. PLess = OpToRel(<, Nat)
    BY DEF PLess, OpToRel
  <2>3. IsWellFoundedOn(PLess, Nat)
    BY <2>2, NatLessThanWellFounded
  <2> HIDE DEF Bad
  <2> QED BY <2>1, <2>3, WFMin
<1>2. n # 0 /\ n - 1 \in Nat /\ <<n - 1, n>> \in PLess
  BY DEF PLess
<1>3. n - 1 \in S
  BY <1>1, <1>2
<1>4. (n - 1) + 1 \in S
  BY <1>2, <1>3
<1> QED BY <1>1, <1>4

\* The roles that n steps of inheritance reach, for every n up to m.
Wave(S) == S \cup UNION {inherits[q] : q \in S}
Waves(f, role, m) == f[0] = {role} /\ \A n \in 1 .. m : f[n] = Wave(f[n - 1])
Inherits == inherits \in [Role -> SUBSET Role]

LEMMA WavesExist ==
  ASSUME Inherits, NEW role \in Role
  PROVE  \A m \in Nat : \E f \in [0 .. m -> SUBSET Role] : Waves(f, role, m)
<1> DEFINE S == {m \in Nat : \E f \in [0 .. m -> SUBSET Role] : Waves(f, role, m)}
<1>1. 0 \in S
  <2> DEFINE f == [n \in 0 .. 0 |-> {role}]
  <2>1. f \in [0 .. 0 -> SUBSET Role]
    OBVIOUS
  <2>2. Waves(f, role, 0)
    BY DEF Waves
  <2> QED BY <2>1, <2>2
<1>2. ASSUME NEW m \in Nat, m \in S PROVE m + 1 \in S
  <2>1. PICK f \in [0 .. m -> SUBSET Role] : Waves(f, role, m)
    BY <1>2
  <2> DEFINE g == [n \in 0 .. m + 1 |-> IF n = m + 1 THEN Wave(f[m]) ELSE f[n]]
  <2>2. Wave(f[m]) \in SUBSET Role
    BY DEF Wave, Inherits
  <2>3. g \in [0 .. m + 1 -> SUBSET Role]
    BY <2>2
  <2>4. g[0] = {role}
    BY <2>1 DEF Waves
  <2>5. ASSUME NEW n \in 1 .. m + 1 PROVE g[n] = Wave(g[n - 1])
    <3>1. CASE n = m + 1
      BY <3>1
    <3>2. CASE n # m + 1
      <4>1. n \in 1 .. m /\ n - 1 \in 0 .. m
        BY <3>2
      <4>2. f[n] = Wave(f[n - 1])
        BY <2>1, <4>1 DEF Waves
      <4> QED BY <4>1, <4>2, <3>2
    <3> QED BY <3>1, <3>2
  <2>6. Waves(g, role, m + 1)
    <3> HIDE DEF g
    <3> QED BY <2>4, <2>5 DEF Waves
  <2> HIDE DEF g
  <2> QED BY <2>3, <2>6
<1> HIDE DEF S
<1>3. \A m \in Nat : m \in S
  BY <1>1, <1>2, AllNumbers
<1> QED BY <1>3 DEF S

\* Expanded is the last of them.
LEMMA ExpandedIs ==
  ASSUME Inherits, NEW role \in Role, Cardinality(Role) \in Nat
  PROVE  \E f \in [0 .. Cardinality(Role) -> SUBSET Role] :
           Waves(f, role, Cardinality(Role)) /\ P!Expanded(role) = f[Cardinality(Role)]
<1> DEFINE N == Cardinality(Role)
           F(f) == [n \in 0 .. N |-> IF n = 0 THEN {role}
                      ELSE f[n - 1] \cup UNION {inherits[q] : q \in f[n - 1]}]
           g == CHOOSE f : f = F(f)
<1>1. PICK f \in [0 .. N -> SUBSET Role] : Waves(f, role, N)
  BY WavesExist
<1>2. \A n \in 0 .. N : f[n] = F(f)[n]
  <2> SUFFICES ASSUME NEW n \in 0 .. N PROVE f[n] = F(f)[n]
    OBVIOUS
  <2>1. CASE n = 0
    BY <1>1, <2>1 DEF Waves
  <2>2. CASE n # 0
    <3>1. n \in 1 .. N
      BY <2>2
    <3> QED BY <1>1, <3>1, <2>2 DEF Waves, Wave
  <2> QED BY <2>1, <2>2
<1>3. f = F(f)
  BY <1>1, <1>2
<1>4. g = F(g)
  BY <1>3
<1>5. \A n \in 0 .. N : g[n] = IF n = 0 THEN {role} ELSE Wave(g[n - 1])
  BY <1>4 DEF Wave
<1>6. P!Expanded(role) = g[N]
  BY SameCountOfRoles DEF P!Expanded
<1> HIDE DEF g, F
<1>7. Waves(g, role, N)
  BY <1>5 DEF Waves
<1>8. \A n \in Nat : n \in {k \in Nat : k <= N => g[k] \in SUBSET Role}
  <2> DEFINE S == {k \in Nat : k <= N => g[k] \in SUBSET Role}
  <2>1. 0 \in S
    BY <1>7 DEF Waves
  <2>2. ASSUME NEW n \in Nat, n \in S PROVE n + 1 \in S
    <3>1. CASE n + 1 <= N
      <4>1. n + 1 \in 1 .. N /\ (n + 1) - 1 = n /\ n <= N
        BY <3>1
      <4>2. g[n + 1] = Wave(g[n])
        BY <1>7, <4>1 DEF Waves
      <4> QED BY <2>2, <4>1, <4>2 DEF Wave, Inherits
    <3> QED BY <3>1
  <2> HIDE DEF S
  <2>3. \A n \in Nat : n \in S
    BY <2>1, <2>2, AllNumbers
  <2> QED BY <2>3 DEF S
<1>9. g = [n \in 0 .. N |-> g[n]]
  BY <1>4 DEF F
<1>10. g \in [0 .. N -> SUBSET Role]
  BY <1>8, <1>9
<1> QED BY <1>6, <1>7, <1>10

\* A part of a finite set has fewer elements.
LEMMA Fewer ==
  ASSUME NEW S, IsFiniteSet(S), NEW U \in SUBSET S, U # S
  PROVE  Cardinality(U) <= Cardinality(S) /\ Cardinality(U) # Cardinality(S)
BY FS_Subset

\* They grow, and no more than there are roles: the last step adds none.
LEMMA WavesEnd ==
  ASSUME Inherits, IsFiniteSet(Role), NEW role \in Role, NEW N \in Nat \ {0}, N = Cardinality(Role),
         NEW f \in [0 .. N -> SUBSET Role], Waves(f, role, N)
  PROVE  f[N] = f[N - 1]
<1> DEFINE S == {n \in Nat : n + 1 <= N =>
                   f[n + 1] = f[n] \/ Cardinality(f[n + 1]) >= n + 2}
<1>1. \A n \in 0 .. N : IsFiniteSet(f[n]) /\ Cardinality(f[n]) \in Nat /\ Cardinality(f[n]) <= N
  <2> SUFFICES ASSUME NEW n \in 0 .. N
               PROVE  IsFiniteSet(f[n]) /\ Cardinality(f[n]) \in Nat /\ Cardinality(f[n]) <= N
    OBVIOUS
  <2>1. f[n] \in SUBSET Role
    OBVIOUS
  <2>2. IsFiniteSet(f[n]) /\ Cardinality(f[n]) <= Cardinality(Role)
    BY <2>1, FS_Subset
  <2> QED BY <2>2, FS_CardinalityType
<1>2. \A n \in 0 .. N - 1 : f[n + 1] = Wave(f[n]) /\ f[n] \subseteq f[n + 1]
  <2> SUFFICES ASSUME NEW n \in 0 .. N - 1 PROVE f[n + 1] = Wave(f[n])
    BY DEF Wave
  <2>1. n + 1 \in 1 .. N /\ (n + 1) - 1 = n
    OBVIOUS
  <2> QED BY <2>1 DEF Waves
<1>3. \A n \in 0 .. N - 1 : f[n + 1] = f[n] \/ Cardinality(f[n + 1]) >= Cardinality(f[n]) + 1
  <2> SUFFICES ASSUME NEW n \in 0 .. N - 1, f[n + 1] # f[n]
               PROVE  Cardinality(f[n + 1]) >= Cardinality(f[n]) + 1
    OBVIOUS
  <2>1. f[n] \in SUBSET f[n + 1] /\ n \in 0 .. N /\ n + 1 \in 0 .. N
    BY <1>2
  <2>2. IsFiniteSet(f[n + 1]) /\ Cardinality(f[n]) \in Nat /\ Cardinality(f[n + 1]) \in Nat
    BY <1>1, <2>1
  <2>3. Cardinality(f[n]) <= Cardinality(f[n + 1]) /\ Cardinality(f[n]) # Cardinality(f[n + 1])
    BY <2>1, <2>2, Fewer
  <2>4. \A a \in Nat, b \in Nat : a <= b /\ a # b => b >= a + 1
    OBVIOUS
  <2> QED BY <2>2, <2>3, <2>4
<1>4. 0 \in S
  <2>1. Cardinality(f[0]) = 1
    BY FS_Singleton DEF Waves
  <2> QED BY <1>3, <2>1
<1>5. ASSUME NEW n \in Nat, n \in S PROVE n + 1 \in S
  <2> SUFFICES ASSUME n + 2 <= N
               PROVE  f[(n + 1) + 1] = f[n + 1] \/ Cardinality(f[(n + 1) + 1]) >= n + 3
    OBVIOUS
  <2>1. n \in 0 .. N - 1 /\ n + 1 \in 0 .. N - 1 /\ (n + 1) + 1 = n + 2 /\ n + 2 \in 0 .. N
    OBVIOUS
  <2>2. CASE f[n + 1] = f[n]
    <3>1. f[n + 2] = Wave(f[n]) /\ f[n + 1] = Wave(f[n])
      BY <1>2, <2>1, <2>2
    <3> QED BY <3>1, <2>1
  <2>3. CASE Cardinality(f[n + 1]) >= n + 2
    <3>1. f[n + 2] = f[n + 1] \/ Cardinality(f[n + 2]) >= Cardinality(f[n + 1]) + 1
      BY <1>3, <2>1
    <3> QED BY <1>1, <2>1, <2>3, <3>1
  <2> QED BY <1>5, <2>1, <2>2, <2>3
<1>6. \A n \in Nat : n \in S
  <2> HIDE DEF S
  <2> QED BY <1>4, <1>5, AllNumbers
<1>7. N - 1 \in S /\ N - 1 \in Nat /\ (N - 1) + 1 = N /\ N \in 0 .. N
  BY <1>6
<1>8. f[N] = f[N - 1] \/ Cardinality(f[N]) >= N + 1
  BY <1>7
<1> QED BY <1>1, <1>7, <1>8

\* A role expands to what can be reached from it.
LEMMA ExpandedIsReachable ==
  ASSUME Inherits, IsFiniteSet(Role), NEW role \in Role
  PROVE  P!Expanded(role) = P!Reachable(role)
<1> DEFINE N == Cardinality(Role)
<1>1. N \in Nat /\ N # 0
  BY FS_CardinalityType, FS_EmptySet
<1>2. PICK f \in [0 .. N -> SUBSET Role] : Waves(f, role, N) /\ P!Expanded(role) = f[N]
  BY <1>1, ExpandedIs
<1>3. f[N] = f[N - 1]
  BY <1>1, <1>2, WavesEnd
<1> DEFINE Path(path, m) ==
             /\ path[1] = role
             /\ \A i \in 1 .. m - 1 : path[i] = path[i + 1] \/ <<path[i], path[i + 1]>> \in P!Inherited
           S == {n \in Nat : n < N =>
                   \A s \in f[n] : \E path \in [1 .. n + 1 -> Role] : Path(path, n + 1) /\ path[n + 1] = s}
           T(path) == {n \in Nat : n < N => path[n + 1] \in f[n]}
<1> HIDE DEF N
<1>4. \A n \in 1 .. N : f[n] = Wave(f[n - 1])
  BY <1>2 DEF Waves
<1>5. f[0] = {role}
  BY <1>2 DEF Waves
<1>6. \A n \in Nat : n \in S
  <2>1. 0 \in S
    <3> DEFINE path == [i \in 1 .. 1 |-> role]
    <3>1. path \in [1 .. 0 + 1 -> Role] /\ Path(path, 0 + 1) /\ path[0 + 1] = role
      OBVIOUS
    <3> HIDE DEF path, Path
    <3> QED BY <3>1, <1>5
  <2>2. ASSUME NEW n \in Nat, n \in S PROVE n + 1 \in S
    <3> SUFFICES ASSUME n + 1 < N, NEW s \in f[n + 1]
                 PROVE  \E path \in [1 .. n + 2 -> Role] : Path(path, n + 2) /\ path[n + 2] = s
      <4>1. (n + 1) + 1 = n + 2
        OBVIOUS
      <4> QED BY <4>1
    <3>1. n + 1 \in 1 .. N /\ (n + 1) - 1 = n /\ n < N
      BY <1>1
    <3>2. s \in Wave(f[n])
      BY <1>4, <3>1
    <3>3. f[n] \in SUBSET Role /\ f[n + 1] \in SUBSET Role
      BY <1>1, <3>1
    <3>4. PICK q \in f[n] : s = q \/ s \in inherits[q]
      BY <3>2 DEF Wave
    <3>5. PICK path \in [1 .. n + 1 -> Role] : Path(path, n + 1) /\ path[n + 1] = q
      BY <2>2, <3>1
    <3> DEFINE walk == [i \in 1 .. n + 2 |-> IF i = n + 2 THEN s ELSE path[i]]
    <3>6. walk \in [1 .. n + 2 -> Role] /\ walk[1] = role /\ walk[n + 2] = s
      BY <3>3, <3>5
    <3>7. ASSUME NEW i \in 1 .. (n + 2) - 1
          PROVE  walk[i] = walk[i + 1] \/ <<walk[i], walk[i + 1]>> \in P!Inherited
      <4>1. CASE i = n + 1
        <5>1. walk[i] = q /\ walk[i + 1] = s
          BY <3>5, <4>1
        <5> QED BY <3>3, <3>4, <5>1 DEF P!Inherited
      <4>2. CASE i # n + 1
        <5>1. i \in 1 .. (n + 1) - 1
          BY <4>2
        <5>2. walk[i] = path[i] /\ walk[i + 1] = path[i + 1]
          BY <5>1
        <5> QED BY <3>5, <5>1, <5>2
      <4> QED BY <4>1, <4>2
    <3> HIDE DEF walk
    <3> QED BY <3>6, <3>7
  <2> HIDE DEF S
  <2> QED BY <2>1, <2>2, AllNumbers
<1>7. ASSUME NEW s \in P!Expanded(role) PROVE s \in P!Reachable(role)
  <2>1. PICK n \in Nat : n < N /\ n + 1 = N /\ N - 1 = n
    BY <1>1
  <2>4. s \in f[n] /\ n \in S
    BY <1>2, <1>3, <1>6, <1>7, <2>1
  <2>5. \E path \in [1 .. n + 1 -> Role] : Path(path, n + 1) /\ path[n + 1] = s
    BY <2>1, <2>4
  <2>2. PICK path \in [1 .. N -> Role] : Path(path, N) /\ path[N] = s
    <3> HIDE DEF S, T, Path
    <3> QED BY <2>1, <2>5
  <2>3. s \in Role
    BY <2>2, <1>1
  <2> QED BY <2>2, <2>3, SameCountOfRoles DEF P!Reachable, N
<1>8. ASSUME NEW s \in P!Reachable(role) PROVE s \in P!Expanded(role)
  <2>1. PICK path \in [1 .. N -> Role] : Path(path, N) /\ path[N] = s
    BY SameCountOfRoles DEF P!Reachable, N
  <2>2. 0 \in T(path)
    BY <1>5, <2>1
  <2>3. ASSUME NEW n \in Nat, n \in T(path) PROVE n + 1 \in T(path)
    <3> SUFFICES ASSUME n + 1 < N PROVE path[n + 2] \in f[n + 1]
      <4>1. (n + 1) + 1 = n + 2
        OBVIOUS
      <4> QED BY <4>1
    <3>1. n + 1 \in 1 .. N - 1 /\ n + 1 \in 1 .. N /\ (n + 1) - 1 = n /\ (n + 1) + 1 = n + 2
      BY <1>1
    <3>2. path[n + 1] \in f[n]
      BY <2>3, <1>1
    <3>3. path[n + 1] = path[n + 2] \/ path[n + 2] \in inherits[path[n + 1]]
      BY <2>1, <3>1 DEF P!Inherited
    <3> QED BY <1>4, <3>1, <3>2, <3>3 DEF Wave
  <2>4. \A n \in Nat : n \in T(path)
    <3> HIDE DEF T
    <3> QED BY <2>2, <2>3, AllNumbers
  <2>5. N - 1 \in Nat /\ N - 1 < N /\ (N - 1) + 1 = N
    BY <1>1
  <2>6. path[(N - 1) + 1] \in f[N - 1]
    BY <2>4, <2>5
  <2>7. s \in f[N - 1]
    BY <2>1, <2>5, <2>6
  <2> QED BY <1>2, <1>3, <2>7
<1> QED BY <1>7, <1>8

-----------------------------------------------------------------------------
(* The invariant.                                                          *)

\* What a request is for.
Ops ==
  [kind : {"none"}, of : {"none"}] \cup [kind : {"check"}, of : Permission]
    \cup [kind : {"role"} \cup P!RoleChanges, of : Role] \cup [kind : {"join"}, of : Group]
    \cup [kind : P!GrantChanges, of : Grant]

\* What it can be for at each label.
KindsAt(label) ==
  CASE label = "idle" -> {"none"}
    [] label \in {"permissions", "grants", "group_grants"} -> {"check"}
    [] label = "decide" -> {"role"}
    [] label \in {"user", "read", "fill"} -> P!Checks \cup P!ListChanges
    [] label \in {"drop", "drop_again"} -> P!ListChanges
    [] OTHER -> P!ListChanges \cup P!GrantChanges

RequestsTyped == op \in [Request -> Ops] /\ \A r \in Request : op[r].kind \in KindsAt(stage[r])

\* Whoever is not crossed runs while nobody changes anything.
Dirty == {"drop", "drop_again", "forget"}
NoneChanges(r) == stage[r] # "idle" /\ ~crossed[r] => ~P!Changing

\* The history knows what is so now.
Remembered(r) ==
  op[r].kind \in P!Checks =>
    /\ P!Holds(account, op[r]) => held[r]
    /\ P!Lacks(account, op[r]) => missing[r]

Clean == ~raced /\ ~skipped

\* The permissions of those of the grants that are in one of the states.
Within(S, states) == {Granted[g] : g \in {h \in S : grants[h] \in states}}

Current(have) == P!AtLeast(account) \subseteq have /\ have \subseteq P!AtMost(account)

\* A copy is what is stored, or somebody is about to drop it.
CopiesDropped ==
  /\ userCopy \in {NoCopy, account} \/ \E r \in Request : stage[r] = "drop"
  /\ permCopy = NoCopy \/ Current(permCopy) \/ P!Changing

\* Whoever is not crossed has read what is stored.
Reading == {"fill", "grants", "group_grants", "decide"}
ReadIsStored(r) ==
  stage[r] # "idle" /\ ~crossed[r] =>
    /\ stage[r] \in Reading => seen[r] = account
    /\ stage[r] = "group_grants" =>
         /\ unread[r] \subseteq account.groups
         /\ Within(P!OwnGrants \cup P!GroupGrants(account.groups \ unread[r]), {"active"}) \subseteq found[r]
         /\ found[r] \subseteq P!AtMost(account)

\* What the record allows is known to have been so.
Vouched(r, user) ==
  IF op[r].kind = "check" THEN P!Covers(P!FromRoles(user), op[r].of) => held[r]
  ELSE op[r].of \in user.roles => held[r]

\* So is what a check has read or may yet read.
ReadWasSo(r) ==
  op[r].kind \in P!Checks =>
    /\ stage[r] = "permissions" /\ permCopy # NoCopy => (P!Covers(permCopy, op[r].of) => held[r])
    /\ stage[r] \in {"permissions", "user"} /\ userCopy # NoCopy => Vouched(r, userCopy)
    /\ stage[r] \in Reading => Vouched(r, seen[r])
    /\ stage[r] = "group_grants" => (P!Covers(found[r], op[r].of) => held[r])

\* Groups are only joined, so one that was read is still there.
CopiedGroupsStay == userCopy # NoCopy => userCopy.groups \subseteq account.groups
GroupsStay(r) ==
  /\ stage[r] \in {"fill", "grants"} => seen[r].groups \subseteq account.groups
  /\ unread[r] \subseteq account.groups

Lists == {"roles", "groups"}
ChangesOf(list) == IF list = "roles" THEN P!RoleChanges ELSE {"join"}

\* One change of a list at a time.
OneChange(list) ==
  \A r, q \in Request :
    op[r].kind \in ChangesOf(list) /\ op[q].kind \in ChangesOf(list) => r = q

\* It may read the list in the copy, and has read the one that is stored.
ListCopied(list) ==
  \/ userCopy = NoCopy \/ userCopy[list] = account[list]
  \/ \E r \in Request : stage[r] = "drop" /\ op[r].kind \in ChangesOf(list)
ListRead(r, list) ==
  op[r].kind \in ChangesOf(list) /\ stage[r] \in {"fill", "write"} => seen[r][list] = account[list]

\* What holds of each request.
InOrder(r) ==
  /\ NoneChanges(r) /\ Remembered(r)
  /\ Clean => ReadIsStored(r)
  /\ Clean => \A list \in Lists \ overlap : ListRead(r, list)
  /\ Clean /\ "groups" \notin overlap => ReadWasSo(r) /\ GroupsStay(r)

\* And of the copies.
CopiesInOrder ==
  /\ CopiesDropped
  /\ "groups" \notin overlap => CopiedGroupsStay
  /\ \A list \in Lists \ overlap : ListCopied(list)

PermissionsTyped == P!TypeOK /\ RequestsTyped

PermissionsInv ==
  /\ PermissionsTyped
  /\ \A r \in Request : InOrder(r)
  /\ \A list \in Lists \ overlap : OneChange(list)
  /\ Clean => CopiesInOrder
  /\ P!AnswersAreHonest /\ P!ChangesAreKept

-----------------------------------------------------------------------------
(* Permissions.                                                            *)

LEMMA CoversMore ==
  /\ \A S, T, p : S \subseteq T /\ P!Covers(S, p) => P!Covers(T, p)
  /\ \A S, T, p : P!Covers(S \cup T, p) => P!Covers(S, p) \/ P!Covers(T, p)
BY DEF P!Covers

LEMMA FromRolesBetween ==
  \A user : P!FromRoles(user) \subseteq P!AtLeast(user) /\ P!AtLeast(user) \subseteq P!AtMost(user)
BY DEF P!AtLeast, P!AtMost, P!Of

LEMMA ResolvedIs ==
  ASSUME P!NamesAssumption, P!PermissionsAssumption, P!TypeOK, NEW user \in P!Account
  PROVE  P!RolePermissions(user) = P!FromRoles(user) /\ P!RolePermissions(user) \subseteq Permission
<1>1. Inherits /\ IsFiniteSet(Role)
  BY SameCountOfRoles DEF P!NamesAssumption, P!PermissionsAssumption, P!TypeOK, Inherits
<1>2. P!RolesOf(user) \subseteq Role
  BY DEF P!RolesOf, P!Account, P!NamesAssumption
<1>3. \A role \in P!RolesOf(user) : P!Expanded(role) = P!Reachable(role)
  BY <1>1, <1>2, ExpandedIsReachable
<1>4. \A role \in P!RolesOf(user) : P!Reachable(role) \subseteq Role
  BY DEF P!Reachable
<1>5. P!RolePermissions(user) = P!FromRoles(user)
  BY <1>3 DEF P!RolePermissions, P!FromRoles
<1>6. P!FromRoles(user) \subseteq Permission
  BY <1>4 DEF P!FromRoles, P!NamesAssumption
<1> QED BY <1>5, <1>6

LEMMA ActiveIs ==
  ASSUME P!NamesAssumption, NEW S \in SUBSET Grant
  PROVE  /\ P!Active(S) = Within(S, {"active", "begun"})
         /\ P!Active(S) \subseteq Permission
BY DEF P!Active, Within, P!NamesAssumption

\* Roles and grants of a record depend on nothing else.
LEMMA SameWorld ==
  ASSUME inherits' = inherits, grants' = grants
  PROVE  /\ \A user : P!FromRoles(user)' = P!FromRoles(user)
         /\ \A user : P!AtMost(user)' = P!AtMost(user)
         /\ \A user : P!AtLeast(user)' = P!AtLeast(user)
         /\ \A user, o : P!Holds(user, o)' = P!Holds(user, o)
         /\ \A user, o : P!Lacks(user, o)' = P!Lacks(user, o)
         /\ \A S, states : Within(S, states)' = Within(S, states)
<1>1. \A user : P!FromRoles(user)' = P!FromRoles(user)
  BY DEF P!FromRoles, P!Reachable, P!Inherited, P!RolesOf
<1>2. \A user, states : P!Of(user, states)' = P!Of(user, states)
  BY DEF P!Of, P!OwnGrants, P!GroupGrants
<1>3. /\ \A user : P!AtMost(user)' = P!AtMost(user)
      /\ \A user : P!AtLeast(user)' = P!AtLeast(user)
  BY <1>1, <1>2 DEF P!AtMost, P!AtLeast
<1>4. /\ \A user, o : P!Holds(user, o)' = P!Holds(user, o)
      /\ \A user, o : P!Lacks(user, o)' = P!Lacks(user, o)
  BY <1>3 DEF P!Holds, P!Lacks, P!Covers
<1>5. \A S, states : Within(S, states)' = Within(S, states)
  BY DEF Within
<1> QED BY <1>1, <1>3, <1>4, <1>5

-----------------------------------------------------------------------------
(* Types.                                                                  *)

LEMMA PermissionsStart ==
  ASSUME P!NamesAssumption, P!PermissionsAssumption, P!Init PROVE PermissionsInv
<1>1. PermissionsTyped
  <2>1. P!NoOp \in Ops /\ P!NoOp.kind \in KindsAt("idle") /\ P!NoUser \in P!Account
    BY DEF P!NoOp, P!NoUser, P!Account, Ops, KindsAt
  <2>2. RequestsTyped
    BY <2>1 DEF P!Init, RequestsTyped
  <2>3. spent \in 0 .. MaxEvents
    BY DEF P!Init, P!PermissionsAssumption
  <2>4. grants \in [Grant -> {"none", "future", "active", "begun", "ended", "revoked"}]
    BY DEF P!Init
  <2>5. P!TypeOK
    BY <2>1, <2>3, <2>4 DEF P!Init, P!TypeOK
  <2> QED BY <2>2, <2>5 DEF PermissionsTyped
<1>2. \A r \in Request : op[r].kind = "none" /\ stage[r] = "idle"
  BY DEF P!Init, P!NoOp
<1>3. ASSUME NEW r \in Request PROVE InOrder(r)
  BY <1>2, <1>3 DEF P!Init, InOrder, NoneChanges, Remembered, ReadIsStored, ListRead, ReadWasSo, GroupsStay,
     Reading, P!Checks, ChangesOf, P!RoleChanges, P!NoOp
<1>4. \A list \in Lists \ overlap : OneChange(list)
  BY <1>2 DEF OneChange, ChangesOf, P!RoleChanges
<1>5. CopiesInOrder
  BY DEF P!Init, CopiesInOrder, CopiesDropped, CopiedGroupsStay, ListCopied
<1> QED BY <1>1, <1>3, <1>4, <1>5 DEF PermissionsInv, P!AnswersAreHonest, P!ChangesAreKept, P!Init

\* A request for a list or a grant, and where it goes.
Wanted(kind, of, label) ==
  \/ kind = "check" /\ of \in Permission /\ label = "permissions"
  \/ kind \in {"role"} \cup P!RoleChanges /\ of \in Role /\ label = "user"
  \/ kind = "join" /\ of \in Group /\ label = "user"
  \/ kind \in P!GrantChanges /\ of \in Grant /\ label = "write"

\* overlap is set by the second of two changes of one list.
Overlaps(kind) ==
  overlap' = IF kind \in P!RoleChanges /\ \E q \in Request : op[q].kind \in P!RoleChanges
             THEN overlap \cup {"roles"}
             ELSE IF kind = "join" /\ \E q \in Request : op[q].kind = "join"
                  THEN overlap \cup {"groups"} ELSE overlap

LEMMA BeginningIs ==
  ASSUME P!NamesAssumption, P!PermissionsAssumption, PermissionsTyped,
         NEW r \in Request, P!Check(r) \/ P!Change(r)
  PROVE  \E kind, of, label :
           Wanted(kind, of, label) /\ P!Begin(r, kind, of, label) /\ Overlaps(kind) /\ spent' \in 0 .. MaxEvents
<1>1. spent' \in 0 .. MaxEvents
  BY DEF P!Check, P!Change, P!Spend, PermissionsTyped, P!TypeOK, P!PermissionsAssumption
<1>2. CASE P!Check(r)
  <2>1. ASSUME NEW p \in Asked, P!Begin(r, "check", p, "permissions"), UNCHANGED overlap
        PROVE  Wanted("check", p, "permissions") /\ Overlaps("check")
    BY <2>1 DEF Wanted, Overlaps, P!NamesAssumption, P!RoleChanges
  <2>2. ASSUME NEW role \in Given, P!Begin(r, "role", role, "user"), UNCHANGED overlap
        PROVE  Wanted("role", role, "user") /\ Overlaps("role")
    BY <2>2 DEF Wanted, Overlaps, P!NamesAssumption, P!RoleChanges
  <2> QED BY <1>1, <1>2, <2>1, <2>2 DEF P!Check
<1>3. CASE P!Change(r)
  <2>1. ASSUME NEW role \in Given, NEW kind \in P!RoleChanges, P!Begin(r, kind, role, "user"),
               overlap' = IF \E q \in Request : op[q].kind \in P!RoleChanges
                          THEN overlap \cup {"roles"} ELSE overlap
        PROVE  Wanted(kind, role, "user") /\ Overlaps(kind)
    BY <2>1 DEF Wanted, Overlaps, P!NamesAssumption, P!RoleChanges
  <2>2. ASSUME NEW group \in Group, P!Begin(r, "join", group, "user"),
               overlap' = IF \E q \in Request : op[q].kind = "join"
                          THEN overlap \cup {"groups"} ELSE overlap
        PROVE  Wanted("join", group, "user") /\ Overlaps("join")
    BY <2>2 DEF Wanted, Overlaps, P!RoleChanges
  <2>3. ASSUME NEW g \in Grant, NEW kind \in P!GrantChanges, P!Begin(r, kind, g, "write"), UNCHANGED overlap
        PROVE  Wanted(kind, g, "write") /\ Overlaps(kind)
    BY <2>3 DEF Wanted, Overlaps, P!RoleChanges, P!GrantChanges
  <2> QED BY <1>1, <1>3, <2>1, <2>2, <2>3 DEF P!Change, P!GrantChanges
<1> QED BY <1>2, <1>3

LEMMA BeginTyped ==
  ASSUME PermissionsTyped, NEW r \in Request, NEW kind, NEW of, NEW label,
         Wanted(kind, of, label), P!Begin(r, kind, of, label), Overlaps(kind), spent' \in 0 .. MaxEvents
  PROVE  PermissionsTyped'
<1> DEFINE o == [kind |-> kind, of |-> of]
<1>1. o \in Ops /\ o.kind = kind /\ kind \in KindsAt(label) /\ label \in {"permissions", "user", "write"}
  BY DEF Wanted, Ops, KindsAt, P!Checks, P!ListChanges, P!RoleChanges, P!GrantChanges
<1>2. op' = [op EXCEPT ![r] = o] /\ stage' = [stage EXCEPT ![r] = label]
  BY DEF P!Begin, P!Goto
<1>3. RequestsTyped'
  BY <1>1, <1>2 DEF PermissionsTyped, RequestsTyped, P!TypeOK
<1>4. overlap' \subseteq {"roles", "groups"}
  BY DEF Overlaps, PermissionsTyped, P!TypeOK
<1>5. crossed' \in [Request -> BOOLEAN] /\ held' \in [Request -> BOOLEAN] /\ missing' \in [Request -> BOOLEAN]
  BY DEF PermissionsTyped, P!TypeOK, P!Begin, P!Changing, P!Holds, P!Lacks
<1>6. P!TypeOK'
  BY <1>1, <1>2, <1>4, <1>5 DEF PermissionsTyped, P!TypeOK, P!Begin, P!store
<1> QED BY <1>3, <1>6 DEF PermissionsTyped

LEMMA FinishTyped ==
  ASSUME PermissionsTyped, NEW r \in Request, NEW verdict, P!Finish(r, verdict),
         UNCHANGED <<inherits, account, grants, userCopy, reachable, lost, overlap>>,
         permCopy' \in {NoCopy} \cup SUBSET Permission, raced' \in BOOLEAN, skipped' \in BOOLEAN,
         spent' \in 0 .. MaxEvents
  PROVE  PermissionsTyped'
<1>1. RequestsTyped'
  BY DEF PermissionsTyped, RequestsTyped, P!TypeOK, P!Finish, P!Goto, P!NoOp, Ops, KindsAt
<1>2. untrue' \subseteq {"yes", "no"}
  BY DEF PermissionsTyped, P!TypeOK, P!Finish
<1>3. P!TypeOK'
  BY <1>2 DEF PermissionsTyped, P!TypeOK, P!Finish, P!Goto, P!NoUser, P!Account
<1> QED BY <1>1, <1>3 DEF PermissionsTyped

\* A request goes on.
LEMMA GoTyped ==
  ASSUME PermissionsTyped, NEW r \in Request, NEW label, P!Goto(r, label),
         label \in {"user", "read", "fill", "decide", "grants", "group_grants", "write", "drop", "drop_again", "forget"},
         op[r].kind \in KindsAt(label), UNCHANGED op
  PROVE  RequestsTyped' /\ stage' \in [Request -> {"idle", "permissions", "user", "read", "fill", "decide", "grants",
                         "group_grants", "write", "drop", "drop_again", "forget"}]
BY DEF PermissionsTyped, RequestsTyped, P!TypeOK, P!Goto

LEMMA KindsFollow ==
  ASSUME RequestsTyped, NEW r \in Request
  PROVE  /\ stage[r] = "permissions" => op[r].kind \in KindsAt("user")
         /\ stage[r] = "user" => op[r].kind \in KindsAt("read")
         /\ stage[r] = "read" => op[r].kind \in KindsAt("fill")
         /\ stage[r] \in {"user", "fill"} =>
              op[r].kind \in KindsAt(CASE op[r].kind = "check" -> "grants"
                                       [] op[r].kind = "role" -> "decide" [] OTHER -> "write")
         /\ stage[r] = "grants" => op[r].kind \in KindsAt("group_grants")
         /\ stage[r] = "write" => op[r].kind \in KindsAt(IF op[r].kind \in P!ListChanges THEN "drop" ELSE "forget")
         /\ stage[r] \in {"drop", "drop_again"} => op[r].kind \in KindsAt(P!AfterDrop(stage[r]))
BY DEF RequestsTyped, KindsAt, P!Checks, P!ListChanges, P!RoleChanges, P!GrantChanges, P!AfterDrop

LEMMA ReadersTyped ==
  ASSUME P!NamesAssumption, PermissionsTyped, NEW r \in Request,
         \/ P!GetUser(r) \/ P!ReadUser(r) \/ P!FillUser(r) \/ P!ReadGrants(r) \/ P!ReadGroupGrants(r)
  PROVE  PermissionsTyped'
<1> USE KindsFollow DEF PermissionsTyped
<1>1. CASE P!GetUser(r)
  <2>1. CASE reachable /\ userCopy # NoCopy
    <3>1. RequestsTyped' /\ P!TypeOK'
      BY <1>1, <2>1, GoTyped DEF P!GetUser, P!Proceed, P!TypeOK, P!Goto, P!store, P!history, P!moments, P!flags
    <3> QED BY <3>1
  <2>2. CASE ~(reachable /\ userCopy # NoCopy)
    <3>1. RequestsTyped' /\ P!TypeOK'
      BY <1>1, <2>2, GoTyped DEF P!GetUser, P!TypeOK, P!Goto, P!store, P!history, P!moments, P!flags
    <3> QED BY <3>1
  <2> QED BY <2>1, <2>2
<1>2. CASE P!ReadUser(r)
  <2>1. RequestsTyped' /\ P!TypeOK'
    BY <1>2, GoTyped DEF P!ReadUser, P!TypeOK, P!Goto, P!store, P!history, P!moments, P!flags
  <2> QED BY <2>1
<1>3. CASE P!FillUser(r)
  <2>1. RequestsTyped'
    BY <1>3, GoTyped DEF P!FillUser, P!Proceed
  <2>2. P!TypeOK'
    BY <1>3 DEF P!FillUser, P!Proceed, P!TypeOK, P!Goto, P!moments
  <2> QED BY <2>1, <2>2
<1>4. CASE P!ReadGrants(r)
  <2>1. P!Active(P!OwnGrants) \subseteq Permission
    BY ActiveIs DEF P!OwnGrants
  <2>2. RequestsTyped'
    BY <1>4, GoTyped DEF P!ReadGrants
  <2>3. P!TypeOK'
    BY <1>4, <2>1 DEF P!ReadGrants, P!TypeOK, P!Goto, P!store, P!history, P!moments, P!flags, P!Account
  <2> QED BY <2>2, <2>3
<1>5. CASE P!ReadGroupGrants(r)
  <2>1. \A groups : P!Active(P!GroupGrants(groups)) \subseteq Permission
    <3>1. \A groups : P!GroupGrants(groups) \subseteq Grant
      BY DEF P!GroupGrants, P!NamesAssumption
    <3> QED BY <3>1, ActiveIs
  <2>2. RequestsTyped'
    BY <1>5 DEF P!ReadGroupGrants, RequestsTyped
  <2>3. P!TypeOK'
    BY <1>5, <2>1 DEF P!ReadGroupGrants, P!TypeOK, P!store, P!history, P!moments, P!flags
  <2> QED BY <2>2, <2>3
<1> QED BY <1>1, <1>2, <1>3, <1>4, <1>5

LEMMA AnswersTyped ==
  ASSUME P!NamesAssumption, P!PermissionsAssumption, PermissionsTyped, NEW r \in Request,
         P!GetPermissions(r) \/ P!Decide(r) \/ P!FillPermissions(r) \/ P!Forget(r) \/ P!Cut(r)
  PROVE  PermissionsTyped'
<1>0. /\ reachable \in BOOLEAN /\ raced \in BOOLEAN /\ skipped \in BOOLEAN /\ spent \in 0 .. MaxEvents
      /\ permCopy \in {NoCopy} \cup SUBSET Permission /\ crossed[r] \in BOOLEAN
  BY DEF PermissionsTyped, P!TypeOK
<1>1. CASE P!GetPermissions(r)
  <2>1. CASE reachable /\ permCopy # NoCopy
    BY <1>0, <1>1, <2>1, FinishTyped DEF P!GetPermissions, P!store, P!flags
  <2>2. CASE ~(reachable /\ permCopy # NoCopy)
    <3>1. RequestsTyped' /\ P!TypeOK'
      BY <1>1, <2>2, GoTyped, KindsFollow
         DEF P!GetPermissions, PermissionsTyped, P!TypeOK, P!Goto, P!store, P!moments, P!flags
    <3> QED BY <3>1 DEF PermissionsTyped
  <2> QED BY <2>1, <2>2
<1>2. CASE P!Decide(r)
  BY <1>0, <1>2, FinishTyped DEF P!Decide, P!store, P!flags
<1>3. CASE P!FillPermissions(r)
  <2>1. P!RolePermissions(seen[r]) \cup found[r] \subseteq Permission
    BY ResolvedIs DEF PermissionsTyped, P!TypeOK
  <2> QED BY <1>0, <1>3, <2>1, FinishTyped DEF P!FillPermissions
<1>4. CASE P!Forget(r)
  BY <1>0, <1>4, FinishTyped DEF P!Forget
<1>5. CASE P!Cut(r)
  <2>1. spent' \in 0 .. MaxEvents
    BY <1>0, <1>5 DEF P!Cut, P!Spend, P!PermissionsAssumption
  <2> QED BY <1>0, <1>5, <2>1, FinishTyped DEF P!Cut, P!store
<1> QED BY <1>1, <1>2, <1>3, <1>4, <1>5

LEMMA WritersTyped ==
  ASSUME P!NamesAssumption, PermissionsTyped, NEW r \in Request,
         P!WriteList(r) \/ P!WriteGrant(r) \/ P!DropUser(r)
  PROVE  PermissionsTyped'
<1> USE KindsFollow DEF PermissionsTyped
<1>0. P!Cross => crossed' \in [Request -> BOOLEAN] /\ held' \in [Request -> BOOLEAN] /\ missing' \in [Request -> BOOLEAN]
  BY DEF P!TypeOK, P!Cross, P!Holds, P!Lacks
<1>1. CASE P!WriteList(r)
  <2>1. P!Changed(account, seen[r], op[r]) \in P!Account
    <3>1. account \in P!Account /\ seen[r] \in P!Account
      BY DEF P!TypeOK
    <3>2. op[r] \in Ops /\ op[r].kind \in P!ListChanges
      BY <1>1 DEF P!WriteList, RequestsTyped
    <3>3. op[r].kind \in P!RoleChanges => op[r].of \in Role
      BY <3>2 DEF Ops, P!RoleChanges, P!GrantChanges
    <3>4. op[r].kind = "join" => op[r].of \in Group
      BY <3>2 DEF Ops, P!RoleChanges, P!GrantChanges
    <3>5. CASE op[r].kind = "assign"
      BY <3>1, <3>3, <3>5 DEF P!Changed, P!Account, P!RoleChanges
    <3>6. CASE op[r].kind = "remove"
      BY <3>1, <3>3, <3>6 DEF P!Changed, P!Account, P!RoleChanges
    <3>7. CASE op[r].kind = "join"
      BY <3>1, <3>4, <3>7 DEF P!Changed, P!Account
    <3> QED BY <3>2, <3>5, <3>6, <3>7 DEF P!ListChanges, P!RoleChanges
  <2>2. RequestsTyped'
    BY <1>1, GoTyped DEF P!WriteList
  <2>3. P!TypeOK'
    BY <1>0, <1>1, <2>1 DEF P!WriteList, P!TypeOK, P!Goto, P!flags
  <2> QED BY <2>2, <2>3
<1>2. CASE P!WriteGrant(r)
  <2>1. RequestsTyped'
    <3>1. op[r].kind \in KindsAt("forget")
      BY <1>2 DEF P!WriteGrant, KindsAt
    <3> QED BY <1>2, <3>1, GoTyped DEF P!WriteGrant
  <2>2. grants' \in [Grant -> {"none", "future", "active", "begun", "ended", "revoked"}]
    BY <1>2 DEF P!WriteGrant, P!TypeOK
  <2>3. stage' \in [Request -> {"idle", "permissions", "user", "read", "fill", "decide", "grants",
                               "group_grants", "write", "drop", "drop_again", "forget"}]
    BY <1>2 DEF P!WriteGrant, P!TypeOK, P!Goto
  <2>4. /\ crossed' \in [Request -> BOOLEAN] /\ held' \in [Request -> BOOLEAN]
        /\ missing' \in [Request -> BOOLEAN]
    BY <1>0, <1>2 DEF P!WriteGrant
  <2>5. UNCHANGED <<inherits, account, userCopy, permCopy, reachable, seen, found, unread, untrue, lost,
                    overlap, raced, skipped, spent>>
    BY <1>2 DEF P!WriteGrant, P!flags
  <2>6. P!TypeOK'
    BY <2>2, <2>3, <2>4, <2>5 DEF P!TypeOK
  <2> QED BY <2>1, <2>6
<1>3. CASE P!DropUser(r)
  <2>1. P!AfterDrop(stage[r]) \in {"drop_again", "forget"}
    BY DEF P!AfterDrop
  <2>2. RequestsTyped'
    BY <1>3, <2>1, GoTyped DEF P!DropUser
  <2>3. P!TypeOK'
    BY <1>3, <2>1 DEF P!DropUser, P!TypeOK, P!Goto, P!moments
  <2> QED BY <2>2, <2>3
<1> QED BY <1>1, <1>2, <1>3

LEMMA WorldTyped ==
  ASSUME P!PermissionsAssumption, PermissionsTyped,
         \/ \E g \in Grant : P!GrantBegins(g) \/ P!GrantEnds(g)
         \/ P!UserCopyExpires \/ P!PermissionsExpire \/ P!CacheFails \/ P!CacheHeals
         \/ UNCHANGED P!vars
  PROVE  PermissionsTyped'
<1>1. RequestsTyped'
  BY DEF PermissionsTyped, RequestsTyped, P!GrantBegins, P!GrantEnds, P!UserCopyExpires, P!PermissionsExpire,
         P!CacheFails, P!CacheHeals, P!request, P!vars
<1>2. ASSUME NEW g \in Grant, P!GrantBegins(g) PROVE P!TypeOK'
  <2>1. held' \in [Request -> BOOLEAN]
    BY <1>2 DEF P!GrantBegins, PermissionsTyped, P!TypeOK, P!Holds
  <2> QED BY <1>2, <2>1 DEF P!GrantBegins, PermissionsTyped, P!TypeOK, P!request, P!flags
<1>3. ASSUME NEW g \in Grant, P!GrantEnds(g) PROVE P!TypeOK'
  <2>1. missing' \in [Request -> BOOLEAN]
    BY <1>3 DEF P!GrantEnds, PermissionsTyped, P!TypeOK, P!Lacks
  <2> QED BY <1>3, <2>1 DEF P!GrantEnds, PermissionsTyped, P!TypeOK, P!request, P!flags
<1>4. ASSUME P!UserCopyExpires PROVE P!TypeOK'
  BY <1>4 DEF P!UserCopyExpires, PermissionsTyped, P!TypeOK, P!request, P!history, P!moments, P!flags
<1>5. ASSUME P!PermissionsExpire PROVE P!TypeOK'
  BY <1>5 DEF P!PermissionsExpire, PermissionsTyped, P!TypeOK, P!request, P!history, P!moments, P!flags
<1>6. ASSUME P!CacheHeals PROVE P!TypeOK'
  BY <1>6 DEF P!CacheHeals, PermissionsTyped, P!TypeOK, P!request, P!history, P!moments, P!flags
<1>7. ASSUME P!CacheFails PROVE P!TypeOK'
  <2>1. spent' \in 0 .. MaxEvents
    BY <1>7 DEF P!CacheFails, P!Spend, PermissionsTyped, P!TypeOK, P!PermissionsAssumption
  <2> QED BY <1>7, <2>1 DEF P!CacheFails, PermissionsTyped, P!TypeOK, P!request, P!history, P!moments, P!flags
<1>8. ASSUME UNCHANGED P!vars PROVE P!TypeOK'
  <2>1. UNCHANGED <<P!store, P!request, P!moments, untrue, lost, P!flags, spent>>
    BY <1>8 DEF P!vars, P!history
  <2> QED BY <2>1 DEF PermissionsTyped, P!TypeOK, P!store, P!request, P!moments, P!flags
<1>9. P!TypeOK'
  BY <1>2, <1>3, <1>4, <1>5, <1>6, <1>7, <1>8
<1> QED BY <1>1, <1>9 DEF PermissionsTyped

-----------------------------------------------------------------------------
(* Steps that change neither the record nor a grant.                       *)

LEMMA RecordCovers ==
  ASSUME NEW r \in Request, Remembered(r), op[r].kind \in P!Checks
  PROVE  /\ \A S : S \subseteq P!AtMost(account) /\ op[r].kind = "check" /\ P!Covers(S, op[r].of) => held[r]
         /\ Vouched(r, account)
<1>1. ASSUME NEW S, S \subseteq P!AtMost(account), op[r].kind = "check", P!Covers(S, op[r].of) PROVE held[r]
  BY <1>1, CoversMore DEF Remembered, P!Holds
<1>2. CASE op[r].kind = "check"
  BY <1>1, <1>2, FromRolesBetween DEF Vouched
<1>3. CASE op[r].kind # "check"
  BY <1>3 DEF Vouched, Remembered, P!Holds
<1> QED BY <1>1, <1>2, <1>3

Idle(r) == stage[r] = "idle" /\ op[r] = P!NoOp /\ unread[r] = {}

LEMMA IdleInOrder == ASSUME NEW r \in Request, Idle(r) PROVE InOrder(r)
BY DEF Idle, InOrder, NoneChanges, Remembered, ReadIsStored, ListRead, ReadWasSo, GroupsStay, P!NoOp, P!Checks,
       Reading, ChangesOf, P!RoleChanges

\* The requests of a set do something by themselves; a copy is dropped, or filled with what is stored.
Still == inherits' = inherits /\ account' = account /\ grants' = grants /\ lost' = lost
Latched == (raced => raced') /\ (skipped => skipped') /\ overlap \subseteq overlap'

Apart(q) ==
  /\ stage'[q] = stage[q] /\ op'[q] = op[q] /\ seen'[q] = seen[q] /\ found'[q] = found[q]
  /\ unread'[q] = unread[q] /\ crossed'[q] = crossed[q] /\ held'[q] = held[q] /\ missing'[q] = missing[q]

Cleared(r) ==
  Clean' => /\ stage[r] = "drop" => userCopy' = NoCopy
            /\ stage[r] \in Dirty /\ stage'[r] \notin Dirty => permCopy' = NoCopy

Filled ==
  Clean' => /\ userCopy' \in {userCopy, NoCopy, account}
            /\ permCopy' \in {permCopy, NoCopy} \/ Current(permCopy')

Calm(R) ==
  /\ Still /\ Latched /\ Filled
  /\ \A q \in Request \ R : Apart(q)
  /\ \A r \in R : (stage'[r] \in Dirty => stage[r] \in Dirty) /\ Cleared(r)

LEMMA CalmOthers ==
  ASSUME PermissionsInv, NEW R \in SUBSET Request, Calm(R), NEW q \in Request \ R
  PROVE  InOrder(q)'
<1>1. InOrder(q) /\ q \in Request
  BY DEF PermissionsInv
<1>2. Apart(q) /\ Still /\ Latched /\ Filled
  BY DEF Calm
<1>3. NoneChanges(q)'
  <2>1. P!Changing' => P!Changing
    BY DEF Calm, Apart, P!Changing, Dirty
  <2> QED BY <1>1, <1>2, <2>1 DEF InOrder, NoneChanges, Apart
<1>4. Remembered(q)'
  BY <1>1, <1>2, SameWorld DEF InOrder, Remembered, Still, Apart
<1>5. Clean' => Clean
  BY <1>2 DEF Latched, Clean
<1>6. ReadIsStored(q) => ReadIsStored(q)'
  <2>1. P!OwnGrants' = P!OwnGrants /\ \A groups : P!GroupGrants(groups)' = P!GroupGrants(groups)
    BY DEF P!OwnGrants, P!GroupGrants
  <2> QED BY <1>2, <2>1, SameWorld DEF ReadIsStored, Still, Apart
<1>7. \A list : ListRead(q, list) => ListRead(q, list)'
  BY <1>2 DEF ListRead, Still, Apart, ChangesOf
<1>8. GroupsStay(q) => GroupsStay(q)'
  BY <1>2 DEF GroupsStay, Still, Apart
<1>9. \A user : Vouched(q, user) => Vouched(q, user)'
  BY <1>2, SameWorld DEF Vouched, Still, Apart, P!Covers
<1>10. ASSUME ReadWasSo(q), Clean' PROVE ReadWasSo(q)'
  <2> SUFFICES ASSUME op[q].kind \in P!Checks
               PROVE  /\ stage[q] = "permissions" /\ permCopy' # NoCopy => (P!Covers(permCopy', op[q].of) => held[q])
                      /\ stage[q] \in {"permissions", "user"} /\ userCopy' # NoCopy => Vouched(q, userCopy)'
                      /\ stage[q] \in Reading => Vouched(q, seen[q])'
    <3>1. \A S, p : P!Covers(S, p)' = P!Covers(S, p)
      BY DEF P!Covers
    <3> QED BY <1>2, <1>10, <3>1 DEF ReadWasSo, Apart
  <2>1. Remembered(q)
    BY <1>1 DEF InOrder
  <2>2. /\ \A S : S \subseteq P!AtMost(account) /\ op[q].kind = "check" /\ P!Covers(S, op[q].of) => held[q]
        /\ Vouched(q, account)
    BY <2>1, <1>1, RecordCovers
  <2>3. ASSUME stage[q] \in Reading PROVE Vouched(q, seen[q])'
    <3>1. Vouched(q, seen[q]) /\ seen'[q] = seen[q]
      BY <1>2, <1>10, <2>3 DEF ReadWasSo, Apart
    <3>2. PICK user : user = seen[q]
      OBVIOUS
    <3>3. Vouched(q, user)'
      BY <1>9, <3>1, <3>2
    <3> QED BY <3>1, <3>2, <3>3 DEF Vouched
  <2>4. ASSUME stage[q] \in {"permissions", "user"}, userCopy' # NoCopy PROVE Vouched(q, userCopy)'
    <3>1. PICK user : user = userCopy'
      OBVIOUS
    <3>2. Vouched(q, user)
      BY <1>2, <1>10, <2>2, <2>4, <3>1 DEF ReadWasSo, Filled
    <3>3. Vouched(q, user)'
      BY <1>9, <3>2
    <3> QED BY <3>1, <3>3 DEF Vouched
  <2>5. ASSUME stage[q] = "permissions", permCopy' # NoCopy, P!Covers(permCopy', op[q].of) PROVE held[q]
    <3>1. op[q].kind = "check"
      BY <2>5 DEF PermissionsInv, PermissionsTyped, RequestsTyped, KindsAt
    <3> QED BY <1>2, <1>10, <2>2, <2>5, <3>1 DEF ReadWasSo, Filled, Current
  <2> QED BY <2>3, <2>4, <2>5
<1> QED BY <1>1, <1>2, <1>3, <1>4, <1>5, <1>6, <1>7, <1>8, <1>10 DEF InOrder, Latched

LEMMA CalmCopies ==
  ASSUME PermissionsInv, NEW R \in SUBSET Request, Calm(R), Clean'
  PROVE  CopiesInOrder'
<1>1. Clean /\ CopiesInOrder
  BY DEF Calm, Latched, Clean, PermissionsInv
<1>2. Still /\ Latched /\ userCopy' \in {userCopy, NoCopy, account}
  BY DEF Calm, Filled
<1>3. userCopy' = NoCopy \/ \A r \in Request : stage[r] = "drop" => stage'[r] = "drop" /\ op'[r] = op[r]
  BY DEF Calm, Cleared, Apart
<1>4. CopiesDropped'
  <2>1. userCopy' \in {NoCopy, account'} \/ \E r \in Request : stage'[r] = "drop"
    BY <1>1, <1>2, <1>3 DEF CopiesInOrder, CopiesDropped, Still
  <2>2. permCopy' = NoCopy \/ \A r \in Request : stage[r] \in Dirty => stage'[r] \in Dirty
    BY DEF Calm, Cleared, Apart
  <2>3. permCopy' \in {permCopy, NoCopy} \/ Current(permCopy')
    BY DEF Calm, Filled
  <2>4. Current(permCopy') => Current(permCopy)'
    BY <1>2, SameWorld DEF Current, Still
  <2>5. permCopy' = permCopy /\ permCopy' # NoCopy => Current(permCopy') \/ P!Changing'
    BY <1>1, <2>2 DEF CopiesInOrder, CopiesDropped, P!Changing, Dirty
  <2>6. permCopy' = NoCopy \/ Current(permCopy)' \/ P!Changing'
    BY <2>3, <2>4, <2>5
  <2> QED BY <2>1, <2>6 DEF CopiesDropped
<1>5. ("groups" \notin overlap => CopiedGroupsStay)'
  BY <1>1, <1>2 DEF CopiesInOrder, CopiedGroupsStay, Still, Latched
<1>6. ASSUME NEW list \in Lists \ overlap' PROVE ListCopied(list)'
  BY <1>1, <1>2, <1>3 DEF CopiesInOrder, ListCopied, Still, Latched, ChangesOf
<1>7. (\A list \in Lists \ overlap : ListCopied(list))'
  BY <1>6 DEF Lists
<1> QED BY <1>4, <1>5, <1>7 DEF CopiesInOrder

\* What remains to be shown of such a step.
LEMMA CalmStep ==
  ASSUME PermissionsInv, PermissionsTyped', NEW R \in SUBSET Request, Calm(R),
         \A r \in R : InOrder(r)',
         (\A list \in Lists \ overlap : OneChange(list))',
         P!AnswersAreHonest'
  PROVE  PermissionsInv'
<1>1. ASSUME NEW q \in Request PROVE InOrder(q)'
  BY CalmOthers
<1>2. Clean' => CopiesInOrder'
  BY CalmCopies
<1>3. P!ChangesAreKept'
  BY DEF PermissionsInv, P!ChangesAreKept, Calm, Latched, Still
<1> QED BY <1>1, <1>2, <1>3 DEF PermissionsInv

\* No change is begun by it.
LEMMA NoNewChange ==
  ASSUME PermissionsInv, overlap' = overlap, \A r \in Request : op'[r] \in {op[r], P!NoOp}
  PROVE  (\A list \in Lists \ overlap : OneChange(list))'
<1>1. ASSUME NEW list \in Lists \ overlap PROVE OneChange(list)'
  <2>1. OneChange(list)
    BY DEF PermissionsInv
  <2>2. P!NoOp.kind \notin ChangesOf(list)
    BY DEF P!NoOp, ChangesOf, P!RoleChanges
  <2> QED BY <2>1, <2>2 DEF OneChange, ChangesOf
<1> QED BY <1>1 DEF Lists

\* A request reads.
LEMMA QuietStep ==
  ASSUME PermissionsInv, PermissionsTyped', NEW r \in Request,
         Still, UNCHANGED <<userCopy, permCopy, raced, skipped, overlap, untrue, op, crossed, held, missing>>,
         stage[r] \notin Dirty, stage[r] # "idle", stage'[r] \notin Dirty,
         \A q \in Request \ {r} :
           stage'[q] = stage[q] /\ seen'[q] = seen[q] /\ found'[q] = found[q] /\ unread'[q] = unread[q],
         Clean /\ InOrder(r) => ReadIsStored(r)' /\ \A list \in Lists \ overlap : ListRead(r, list)',
         Clean /\ InOrder(r) /\ "groups" \notin overlap => ReadWasSo(r)' /\ GroupsStay(r)'
  PROVE  PermissionsInv'
<1>1. Clean' = Clean /\ Latched
  BY DEF Clean, Latched
<1>2. Calm({r})
  BY <1>1 DEF Calm, Filled, Apart, Cleared, Dirty
<1>3. InOrder(r)'
  <2>1. InOrder(r)
    BY DEF PermissionsInv
  <2>2. NoneChanges(r)'
    <3>1. P!Changing' => P!Changing
      BY DEF P!Changing, Dirty
    <3> QED BY <2>1, <3>1 DEF InOrder, NoneChanges
  <2>3. Remembered(r)'
    BY <2>1, SameWorld DEF InOrder, Remembered, Still
  <2> QED BY <1>1, <2>1, <2>2, <2>3 DEF InOrder
<1>4. (\A list \in Lists \ overlap : OneChange(list))'
  BY NoNewChange
<1>5. P!AnswersAreHonest'
  BY DEF PermissionsInv, P!AnswersAreHonest
<1> QED BY <1>2, <1>3, <1>4, <1>5, CalmStep

\* A request is answered, or ends otherwise.
LEMMA FinishStep ==
  ASSUME PermissionsInv, PermissionsTyped', NEW r \in Request, NEW verdict, P!Finish(r, verdict),
         Still, overlap' = overlap, raced => raced', skipped => skipped', Filled, Cleared(r),
         Clean' /\ "groups" \notin overlap =>
           (verdict = "yes" => held[r]) /\ (verdict = "no" => missing[r] \/ crossed[r])
  PROVE  PermissionsInv'
<1>1. Calm({r})
  BY DEF Calm, Latched, P!Finish, P!Goto, Apart, Dirty, PermissionsInv, PermissionsTyped, P!TypeOK, RequestsTyped
<1>2. Idle(r)'
  BY DEF Idle, P!Finish, P!Goto, P!NoOp, PermissionsInv, PermissionsTyped, P!TypeOK, RequestsTyped
<1>3. InOrder(r)'
  BY <1>2 DEF Idle, InOrder, NoneChanges, Remembered, ReadIsStored, ListRead, ReadWasSo, GroupsStay, P!NoOp, P!Checks,
       Reading, ChangesOf, P!RoleChanges
<1>4. (\A list \in Lists \ overlap : OneChange(list))'
  <2>1. \A q \in Request : op'[q] \in {op[q], P!NoOp}
    BY DEF P!Finish, PermissionsInv, PermissionsTyped, RequestsTyped
  <2> QED BY <2>1, NoNewChange
<1>5. P!AnswersAreHonest'
  BY DEF PermissionsInv, P!AnswersAreHonest, P!Finish, Clean
<1> QED BY <1>1, <1>3, <1>4, <1>5, CalmStep

\* What is current and does not cover what is asked for did not.
LEMMA RefusedIsSo ==
  ASSUME NEW r \in Request, Remembered(r), op[r].kind = "check", NEW have, Current(have),
         ~P!Covers(have, op[r].of)
  PROVE  missing[r]
BY CoversMore DEF Remembered, P!Lacks, P!Checks, Current

LEMMA GetPermissionsKeeps ==
  ASSUME PermissionsInv, PermissionsTyped', NEW r \in Request, P!GetPermissions(r)
  PROVE  PermissionsInv'
<1> USE DEF P!GetPermissions
<1>1. stage[r] = "permissions" /\ InOrder(r) /\ op[r].kind = "check"
  BY DEF PermissionsInv, PermissionsTyped, RequestsTyped, KindsAt
<1>2. CASE reachable /\ permCopy # NoCopy
  <2>1. P!Finish(r, P!Decided(r, permCopy)) /\ UNCHANGED <<P!store, lost, P!flags, spent>>
    BY <1>2
  <2>2. ASSUME Clean, "groups" \notin overlap, P!Decided(r, permCopy) = "yes" PROVE held[r]
    BY <1>1, <1>2, <2>2 DEF P!Decided, InOrder, ReadWasSo, P!Checks
  <2>3. ASSUME Clean, P!Decided(r, permCopy) = "no", ~crossed[r] PROVE missing[r]
    <3>1. ~P!Changing
      BY <1>1, <2>3 DEF InOrder, NoneChanges
    <3>2. Current(permCopy)
      BY <1>2, <2>3, <3>1 DEF PermissionsInv, CopiesInOrder, CopiesDropped
    <3>3. ~P!Covers(permCopy, op[r].of)
      BY <2>3 DEF P!Decided
    <3> QED BY <1>1, <3>2, <3>3, RefusedIsSo DEF InOrder
  <2>4. Still /\ Filled /\ Cleared(r) /\ Clean' = Clean
    BY <1>1, <2>1 DEF Still, Filled, Cleared, Clean, P!store, P!flags, Dirty
  <2> QED BY <2>1, <2>2, <2>3, <2>4, FinishStep DEF P!store, P!flags
<1>3. CASE ~(reachable /\ permCopy # NoCopy)
  <2>1. P!Goto(r, "user") /\ UNCHANGED <<op, seen, found, unread, P!moments, untrue>>
    BY <1>3
  <2>2. stage' = [stage EXCEPT ![r] = "user"] /\ stage'[r] = "user"
    BY <2>1 DEF P!Goto, PermissionsInv, PermissionsTyped, P!TypeOK
  <2>3. Still /\ UNCHANGED <<userCopy, permCopy, raced, skipped, overlap, untrue, op, crossed, held, missing>>
    BY <2>1 DEF Still, P!store, P!flags, P!moments
  <2>4. InOrder(r) => ReadIsStored(r)' /\ \A list \in Lists \ overlap : ListRead(r, list)'
    BY <2>2 DEF ReadIsStored, ListRead, Reading
  <2>5. ASSUME Clean, "groups" \notin overlap PROVE ReadWasSo(r)' /\ GroupsStay(r)'
    <3>1. ReadWasSo(r) /\ GroupsStay(r)
      BY <1>1, <2>5 DEF InOrder
    <3>2. \A user : Vouched(r, user)' = Vouched(r, user)
      BY <2>3, SameWorld DEF Vouched, P!Covers, Still
    <3>3. Vouched(r, userCopy)' = Vouched(r, userCopy)
      BY <2>3, SameWorld DEF Vouched, P!Covers, Still
    <3> QED BY <1>1, <2>1, <2>2, <2>3, <3>1, <3>3 DEF ReadWasSo, GroupsStay, Reading, Still
  <2>6. \A q \in Request \ {r} :
           stage'[q] = stage[q] /\ seen'[q] = seen[q] /\ found'[q] = found[q] /\ unread'[q] = unread[q]
    BY <2>1, <2>2
  <2> QED BY <1>1, <2>2, <2>3, <2>4, <2>5, <2>6, QuietStep DEF Dirty
<1> QED BY <1>2, <1>3

LEMMA DecideKeeps ==
  ASSUME PermissionsInv, PermissionsTyped', NEW r \in Request, P!Decide(r)
  PROVE  PermissionsInv'
<1>1. stage[r] = "decide" /\ InOrder(r) /\ op[r].kind = "role"
  BY DEF P!Decide, PermissionsInv, PermissionsTyped, RequestsTyped, KindsAt
<1> DEFINE verdict == IF op[r].of \in seen[r].roles THEN "yes" ELSE "no"
<1>2. P!Finish(r, verdict) /\ UNCHANGED <<P!store, lost, P!flags, spent>>
  BY DEF P!Decide
<1>3. ASSUME Clean, "groups" \notin overlap, verdict = "yes" PROVE held[r]
  BY <1>1, <1>3 DEF InOrder, ReadWasSo, P!Checks, Reading, Vouched
<1>4. ASSUME Clean, verdict = "no", ~crossed[r] PROVE missing[r]
  <2>1. seen[r] = account /\ Remembered(r)
    BY <1>1, <1>4 DEF InOrder, ReadIsStored, Reading
  <2> QED BY <1>1, <1>4, <2>1 DEF Remembered, P!Lacks, P!Checks
<1>5. Still /\ Filled /\ Cleared(r) /\ Clean' = Clean
  BY <1>1, <1>2 DEF Still, Filled, Cleared, Clean, P!store, P!flags, Dirty
<1> HIDE DEF verdict
<1> QED BY <1>2, <1>3, <1>4, <1>5, FinishStep DEF P!store, P!flags

\* What a request sees of the copy or of the record.
LEMMA CopyIsRead ==
  ASSUME PermissionsInv, Clean, NEW r \in Request, stage[r] = "user", userCopy # NoCopy
  PROVE  /\ ~crossed[r] => userCopy = account
         /\ \A list \in Lists \ overlap : op[r].kind \in ChangesOf(list) => userCopy[list] = account[list]
         /\ "groups" \notin overlap => userCopy.groups \subseteq account.groups
<1>1. InOrder(r) /\ CopiesInOrder
  BY DEF PermissionsInv
<1>2. ASSUME ~crossed[r] PROVE userCopy = account
  <2>1. ~P!Changing
    BY <1>1, <1>2 DEF InOrder, NoneChanges
  <2> QED BY <1>1, <2>1 DEF CopiesInOrder, CopiesDropped, P!Changing
<1>3. ASSUME NEW list \in Lists \ overlap, op[r].kind \in ChangesOf(list) PROVE userCopy[list] = account[list]
  <2>1. \A q \in Request : op[q].kind \in ChangesOf(list) => q = r
    BY <1>3 DEF PermissionsInv, OneChange
  <2>2. ListCopied(list)
    BY <1>1 DEF CopiesInOrder
  <2> QED BY <2>1, <2>2 DEF ListCopied
<1> QED BY <1>1, <1>2, <1>3 DEF CopiesInOrder, CopiedGroupsStay

LEMMA GetUserKeeps ==
  ASSUME PermissionsInv, PermissionsTyped', NEW r \in Request, P!GetUser(r)
  PROVE  PermissionsInv'
<1>1. stage[r] = "user" /\ InOrder(r)
  BY DEF P!GetUser, PermissionsInv
<1>2. Still /\ UNCHANGED <<userCopy, permCopy, raced, skipped, overlap, untrue, op, crossed, held, missing,
                           found, unread>>
  BY DEF P!GetUser, Still, P!store, P!history, P!flags, P!moments
<1>3. stage \in [Request -> {"idle", "permissions", "user", "read", "fill", "decide", "grants",
                         "group_grants", "write", "drop", "drop_again", "forget"}]
      /\ seen \in [Request -> P!Account] /\ unread[r] = unread'[r]
  BY <1>2 DEF PermissionsInv, PermissionsTyped, P!TypeOK
<1>4. CASE reachable /\ userCopy # NoCopy
  <2> DEFINE label == CASE op[r].kind = "check" -> "grants"
                        [] op[r].kind = "role" -> "decide"
                        [] OTHER -> "write"
  <2>1. seen' = [seen EXCEPT ![r] = userCopy] /\ stage' = [stage EXCEPT ![r] = label]
    BY <1>4 DEF P!GetUser, P!Proceed, P!Goto
  <2>2. seen'[r] = userCopy /\ stage'[r] = label /\ label \in {"grants", "decide", "write"}
    BY <1>3, <2>1
  <2>3. \A q \in Request \ {r} : stage'[q] = stage[q] /\ seen'[q] = seen[q]
    BY <2>1
  <2> HIDE DEF label
  <2>4. ASSUME Clean PROVE ReadIsStored(r)'
    <3>1. ~crossed[r] => userCopy = account
      BY <1>1, <1>4, <2>4, CopyIsRead
    <3> QED BY <1>2, <2>2, <3>1 DEF ReadIsStored, Still
  <2>5. ASSUME Clean, NEW list \in Lists \ overlap PROVE ListRead(r, list)'
    <3>1. op[r].kind \in ChangesOf(list) => userCopy[list] = account[list]
      BY <1>1, <1>4, <2>5, CopyIsRead
    <3> QED BY <1>2, <2>2, <3>1 DEF ListRead, Still, ChangesOf
  <2>6. ASSUME Clean, "groups" \notin overlap PROVE ReadWasSo(r)' /\ GroupsStay(r)'
    <3>1. op[r].kind \in P!Checks => Vouched(r, userCopy)
      BY <1>1, <1>4, <2>6 DEF InOrder, ReadWasSo
    <3>2. Vouched(r, seen[r])' <=> Vouched(r, userCopy)
      BY <1>2, <2>2, SameWorld DEF Vouched, P!Covers, Still
    <3>3. userCopy.groups \subseteq account.groups /\ unread[r] \subseteq account.groups
      BY <1>1, <1>4, <2>6, CopyIsRead DEF InOrder, GroupsStay
    <3> QED BY <1>2, <2>2, <3>1, <3>2, <3>3 DEF ReadWasSo, GroupsStay, Still, Reading
  <2> QED BY <1>1, <1>2, <2>2, <2>3, <2>4, <2>5, <2>6, QuietStep DEF Dirty
<1>5. CASE ~(reachable /\ userCopy # NoCopy)
  <2>1. stage' = [stage EXCEPT ![r] = "read"] /\ seen' = seen
    BY <1>5 DEF P!GetUser, P!Goto
  <2>2. stage'[r] = "read" /\ \A q \in Request \ {r} : stage'[q] = stage[q]
    BY <1>3, <2>1
  <2>3. ReadIsStored(r)' /\ \A list \in Lists \ overlap : ListRead(r, list)'
    BY <2>2 DEF ReadIsStored, ListRead, Reading
  <2>4. ASSUME Clean, "groups" \notin overlap PROVE ReadWasSo(r)' /\ GroupsStay(r)'
    BY <1>1, <1>2, <2>2, <2>4 DEF ReadWasSo, GroupsStay, Reading, InOrder, Still
  <2> QED BY <1>1, <1>2, <2>1, <2>2, <2>3, <2>4, QuietStep DEF Dirty
<1> QED BY <1>4, <1>5

LEMMA ReadUserKeeps ==
  ASSUME PermissionsInv, PermissionsTyped', NEW r \in Request, P!ReadUser(r)
  PROVE  PermissionsInv'
<1>1. stage[r] = "read" /\ InOrder(r)
  BY DEF P!ReadUser, PermissionsInv
<1>2. Still /\ UNCHANGED <<userCopy, permCopy, raced, skipped, overlap, untrue, op, crossed, held, missing,
                           found, unread>>
  BY DEF P!ReadUser, Still, P!store, P!history, P!flags, P!moments
<1>3. stage' = [stage EXCEPT ![r] = "fill"] /\ seen' = [seen EXCEPT ![r] = account]
  BY DEF P!ReadUser, P!Goto
<1>4. stage'[r] = "fill" /\ seen'[r] = account
  BY <1>3 DEF PermissionsInv, PermissionsTyped, P!TypeOK
<1>5. \A q \in Request \ {r} : stage'[q] = stage[q] /\ seen'[q] = seen[q]
  BY <1>3
<1>6. ReadIsStored(r)' /\ \A list \in Lists \ overlap : ListRead(r, list)'
  BY <1>2, <1>4 DEF ReadIsStored, ListRead, Still
<1>7. ASSUME Clean, "groups" \notin overlap PROVE ReadWasSo(r)' /\ GroupsStay(r)'
  <2>1. op[r].kind \in P!Checks => Vouched(r, account)
    BY <1>1, RecordCovers DEF InOrder
  <2>2. Vouched(r, seen[r])' <=> Vouched(r, account)
    BY <1>2, <1>4, SameWorld DEF Vouched, P!Covers, Still
  <2>3. unread[r] \subseteq account.groups
    BY <1>1, <1>7 DEF InOrder, GroupsStay
  <2> QED BY <1>2, <1>4, <2>1, <2>2, <2>3 DEF ReadWasSo, GroupsStay, Still, Reading
<1> QED BY <1>1, <1>2, <1>4, <1>5, <1>6, <1>7, QuietStep DEF Dirty

LEMMA ReadGrantsKeeps ==
  ASSUME P!NamesAssumption, PermissionsInv, PermissionsTyped', NEW r \in Request, P!ReadGrants(r)
  PROVE  PermissionsInv'
<1>1. stage[r] = "grants" /\ InOrder(r) /\ op[r].kind = "check"
  BY DEF P!ReadGrants, PermissionsInv, PermissionsTyped, RequestsTyped, KindsAt
<1>2. Still /\ UNCHANGED <<userCopy, permCopy, raced, skipped, overlap, untrue, op, crossed, held, missing, seen>>
  BY DEF P!ReadGrants, Still, P!store, P!history, P!flags, P!moments
<1> DEFINE have == P!Active(P!OwnGrants)
<1>3. /\ stage' = [stage EXCEPT ![r] = "group_grants"] /\ found' = [found EXCEPT ![r] = have]
      /\ unread' = [unread EXCEPT ![r] = seen[r].groups]
  BY DEF P!ReadGrants, P!Goto
<1>4. stage'[r] = "group_grants" /\ found'[r] = have /\ unread'[r] = seen[r].groups
  BY <1>3 DEF PermissionsInv, PermissionsTyped, P!TypeOK
<1>5. \A q \in Request \ {r} : stage'[q] = stage[q] /\ found'[q] = found[q] /\ unread'[q] = unread[q]
  BY <1>3
<1>6. have \subseteq P!AtMost(account)
  BY DEF P!Active, P!AtMost, P!Of
<1>7. \A groups : Within(P!OwnGrants \cup P!GroupGrants(groups \ groups), {"active"}) \subseteq have
  BY DEF Within, P!GroupGrants, P!Active
<1> HIDE DEF have
<1>8. ASSUME Clean PROVE ReadIsStored(r)'
  <2> SUFFICES ASSUME ~crossed[r]
               PROVE  /\ seen[r] = account
                      /\ Within(P!OwnGrants \cup P!GroupGrants(account.groups \ seen[r].groups), {"active"})' \subseteq have
    <3>1. P!OwnGrants' = P!OwnGrants /\ \A groups : P!GroupGrants(groups)' = P!GroupGrants(groups)
      BY DEF P!OwnGrants, P!GroupGrants
    <3> QED BY <1>2, <1>4, <1>6, <3>1, SameWorld DEF ReadIsStored, Still
  <2>1. seen[r] = account
    BY <1>1, <1>8 DEF InOrder, ReadIsStored, Reading
  <2>2. Within(P!OwnGrants \cup P!GroupGrants(account.groups \ seen[r].groups), {"active"}) \subseteq have
    BY <1>7, <2>1
  <2> QED BY <1>2, <2>1, <2>2 DEF Within, P!OwnGrants, P!GroupGrants, Still
<1>9. \A list \in Lists \ overlap : ListRead(r, list)'
  BY <1>4 DEF ListRead
<1>10. ASSUME Clean, "groups" \notin overlap PROVE ReadWasSo(r)' /\ GroupsStay(r)'
  <2>1. Vouched(r, seen[r]) /\ seen[r].groups \subseteq account.groups
    BY <1>1, <1>10 DEF InOrder, ReadWasSo, GroupsStay, Reading, P!Checks
  <2>2. Vouched(r, seen[r])'
    BY <1>2, <2>1, SameWorld DEF Vouched, P!Covers, Still
  <2>3. P!Covers(have, op[r].of) => held[r]
    BY <1>1, <1>6, RecordCovers DEF InOrder, P!Checks
  <2> QED BY <1>2, <1>4, <2>1, <2>2, <2>3 DEF ReadWasSo, GroupsStay, Still, P!Covers
<1> QED BY <1>1, <1>2, <1>4, <1>5, <1>8, <1>9, <1>10, QuietStep DEF Dirty

LEMMA ReadGroupGrantsKeeps ==
  ASSUME P!NamesAssumption, PermissionsInv, PermissionsTyped', NEW r \in Request, P!ReadGroupGrants(r)
  PROVE  PermissionsInv'
<1>1. stage[r] = "group_grants" /\ InOrder(r) /\ op[r].kind = "check"
  BY DEF P!ReadGroupGrants, PermissionsInv, PermissionsTyped, RequestsTyped, KindsAt
<1>2. Still /\ UNCHANGED <<userCopy, permCopy, raced, skipped, overlap, untrue, op, crossed, held, missing, seen, stage>>
  BY DEF P!ReadGroupGrants, Still, P!store, P!history, P!flags, P!moments
<1>3. PICK group \in unread[r] :
        /\ found' = [found EXCEPT ![r] = @ \cup P!Active(P!GroupGrants({group}))]
        /\ unread' = [unread EXCEPT ![r] = @ \ {group}]
  BY DEF P!ReadGroupGrants
<1> DEFINE have == P!Active(P!GroupGrants({group}))
<1>4. found'[r] = found[r] \cup have /\ unread'[r] = unread[r] \ {group}
  BY <1>3 DEF PermissionsInv, PermissionsTyped, P!TypeOK
<1>5. \A q \in Request \ {r} : stage'[q] = stage[q] /\ found'[q] = found[q] /\ unread'[q] = unread[q]
  BY <1>2, <1>3
<1>6. group \in account.groups => have \subseteq P!AtMost(account)
  BY DEF P!Active, P!AtMost, P!Of, P!GroupGrants
<1>7. \A groups, rest : Within(P!OwnGrants \cup P!GroupGrants(groups \ (rest \ {group})), {"active"})
                          \subseteq Within(P!OwnGrants \cup P!GroupGrants(groups \ rest), {"active"}) \cup have
  BY DEF Within, P!GroupGrants, P!Active
<1> HIDE DEF have
<1>8. ASSUME Clean PROVE ReadIsStored(r)'
  <2> SUFFICES ASSUME ~crossed[r]
               PROVE  /\ seen[r] = account /\ found[r] \cup have \subseteq P!AtMost(account)
                      /\ unread[r] \subseteq account.groups
                      /\ Within(P!OwnGrants \cup P!GroupGrants(account.groups \ (unread[r] \ {group})), {"active"})
                           \subseteq found[r] \cup have
    <3>1. P!AtMost(account)' = P!AtMost(account)
      BY <1>2, SameWorld DEF Still
    <3>2. Within(P!OwnGrants \cup P!GroupGrants(account.groups \ unread[r]), {"active"})'
            = Within(P!OwnGrants \cup P!GroupGrants(account.groups \ (unread[r] \ {group})), {"active"})
      BY <1>2, <1>4 DEF Still, Within, P!OwnGrants, P!GroupGrants
    <3> QED BY <1>2, <1>4, <3>1, <3>2 DEF ReadIsStored, Still
  <2>1. /\ seen[r] = account /\ found[r] \subseteq P!AtMost(account) /\ unread[r] \subseteq account.groups
        /\ Within(P!OwnGrants \cup P!GroupGrants(account.groups \ unread[r]), {"active"}) \subseteq found[r]
    BY <1>1, <1>8 DEF InOrder, ReadIsStored, Reading
  <2>2. have \subseteq P!AtMost(account)
    <3>1. group \in account.groups
      BY <2>1
    <3> QED BY <1>6, <3>1
  <2> QED BY <1>7, <2>1, <2>2
<1>9. \A list \in Lists \ overlap : ListRead(r, list)'
  BY <1>1, <1>2 DEF ListRead
<1>10. ASSUME Clean, "groups" \notin overlap PROVE ReadWasSo(r)' /\ GroupsStay(r)'
  <2>1. Vouched(r, seen[r]) /\ (P!Covers(found[r], op[r].of) => held[r]) /\ unread[r] \subseteq account.groups
    BY <1>1, <1>10 DEF InOrder, ReadWasSo, GroupsStay, Reading, P!Checks
  <2>2. Vouched(r, seen[r])'
    BY <1>2, <2>1, SameWorld DEF Vouched, P!Covers, Still
  <2>3. P!Covers(have, op[r].of) => held[r]
    BY <1>1, <1>6, <2>1, RecordCovers DEF InOrder, P!Checks
  <2>4. P!Covers(found[r] \cup have, op[r].of) => held[r]
    BY <2>1, <2>3, CoversMore
  <2> QED BY <1>1, <1>2, <1>4, <2>1, <2>2, <2>4 DEF ReadWasSo, GroupsStay, Still, P!Covers
<1> QED BY <1>1, <1>2, <1>5, <1>8, <1>9, <1>10, QuietStep DEF Dirty

LEMMA FillUserKeeps ==
  ASSUME PermissionsInv, PermissionsTyped', NEW r \in Request, P!FillUser(r)
  PROVE  PermissionsInv'
<1> DEFINE label == CASE op[r].kind = "check" -> "grants"
                      [] op[r].kind = "role" -> "decide"
                      [] OTHER -> "write"
<1>1. stage[r] = "fill" /\ InOrder(r)
  BY DEF P!FillUser, PermissionsInv
<1>2. /\ Still /\ userCopy' = (IF reachable THEN seen[r] ELSE userCopy) /\ raced' = (raced \/ (reachable /\ crossed[r]))
      /\ UNCHANGED <<permCopy, skipped, overlap, untrue, op, crossed, held, missing, found, unread>>
  BY DEF P!FillUser, Still, P!moments
<1>3. seen' = [seen EXCEPT ![r] = seen[r]] /\ stage' = [stage EXCEPT ![r] = label]
  BY DEF P!FillUser, P!Proceed, P!Goto
<1>4. stage'[r] = label /\ label \in {"grants", "decide", "write"} /\ seen' = seen
  BY <1>3 DEF PermissionsInv, PermissionsTyped, P!TypeOK
<1>5. \A q \in Request \ {r} : stage'[q] = stage[q]
  BY <1>3
<1> HIDE DEF label
<1>6. Latched /\ (Clean' => Clean /\ (reachable => ~crossed[r]))
  BY <1>2 DEF Latched, Clean
<1>7. ASSUME Clean', reachable PROVE seen[r] = account
  BY <1>1, <1>6, <1>7 DEF InOrder, ReadIsStored, Reading
<1>8. Calm({r})
  <2>1. Filled
    BY <1>2, <1>7 DEF Filled
  <2> QED BY <1>1, <1>2, <1>4, <1>5, <1>6, <2>1 DEF Calm, Apart, Cleared, Dirty
<1>9. InOrder(r)'
  <2>1. NoneChanges(r)'
    <3>1. P!Changing' => P!Changing
      BY <1>4, <1>5 DEF P!Changing, Dirty
    <3> QED BY <1>1, <1>2, <3>1 DEF InOrder, NoneChanges
  <2>2. Remembered(r)'
    BY <1>1, <1>2, SameWorld DEF InOrder, Remembered, Still
  <2>3. ReadIsStored(r) => ReadIsStored(r)'
    BY <1>1, <1>2, <1>4 DEF ReadIsStored, Still, Reading
  <2>4. \A list : ListRead(r, list) => ListRead(r, list)'
    BY <1>1, <1>2, <1>4 DEF ListRead, Still, ChangesOf
  <2>5. ReadWasSo(r) => ReadWasSo(r)'
    <3>1. Vouched(r, seen[r])' <=> Vouched(r, seen[r])
      BY <1>2, <1>4, SameWorld DEF Vouched, P!Covers, Still
    <3> QED BY <1>1, <1>2, <1>4, <3>1 DEF ReadWasSo, Reading
  <2>6. GroupsStay(r) => GroupsStay(r)'
    BY <1>1, <1>2, <1>4 DEF GroupsStay, Still
  <2> QED BY <1>1, <1>2, <1>6, <2>1, <2>2, <2>3, <2>4, <2>5, <2>6 DEF InOrder
<1>10. (\A list \in Lists \ overlap : OneChange(list))'
  BY <1>2, NoNewChange
<1>11. P!AnswersAreHonest'
  BY <1>2, <1>6 DEF PermissionsInv, P!AnswersAreHonest, Clean
<1> QED BY <1>8, <1>9, <1>10, <1>11, CalmStep

LEMMA FillPermissionsKeeps ==
  ASSUME P!NamesAssumption, P!PermissionsAssumption,
         PermissionsInv, PermissionsTyped', NEW r \in Request, P!FillPermissions(r)
  PROVE  PermissionsInv'
<1>1. stage[r] = "group_grants" /\ unread[r] = {} /\ InOrder(r) /\ op[r].kind = "check" /\ seen[r] \in P!Account
  BY DEF P!FillPermissions, PermissionsInv, PermissionsTyped, RequestsTyped, KindsAt, P!TypeOK
<1> DEFINE have == P!RolePermissions(seen[r]) \cup found[r]
<1>2. /\ Still /\ permCopy' = (IF reachable THEN have ELSE permCopy) /\ raced' = (raced \/ (reachable /\ crossed[r]))
      /\ UNCHANGED <<userCopy, skipped, overlap>> /\ P!Finish(r, P!Decided(r, have))
  BY DEF P!FillPermissions, Still
<1>3. have = P!FromRoles(seen[r]) \cup found[r]
  BY <1>1, ResolvedIs DEF PermissionsInv, PermissionsTyped
<1> HIDE DEF have
<1>4. Clean' => Clean /\ (reachable => ~crossed[r])
  BY <1>2 DEF Clean
<1>5. ASSUME Clean, ~crossed[r] PROVE Current(have)
  <2>1. /\ seen[r] = account /\ found[r] \subseteq P!AtMost(account)
        /\ Within(P!OwnGrants \cup P!GroupGrants(account.groups \ unread[r]), {"active"}) \subseteq found[r]
    BY <1>1, <1>5 DEF InOrder, ReadIsStored, Reading
  <2>2. account.groups \ unread[r] = account.groups
    BY <1>1
  <2>3. P!AtLeast(account) = P!FromRoles(account) \cup Within(P!OwnGrants \cup P!GroupGrants(account.groups), {"active"})
    BY DEF P!AtLeast, P!Of, Within
  <2> QED BY <1>3, <2>1, <2>2, <2>3, FromRolesBetween DEF Current
<1>6. Filled /\ Cleared(r)
  BY <1>1, <1>2, <1>4, <1>5 DEF Filled, Cleared, Dirty
<1>7. ASSUME Clean', "groups" \notin overlap, P!Decided(r, have) = "yes" PROVE held[r]
  <2>1. P!Covers(P!FromRoles(seen[r]), op[r].of) \/ P!Covers(found[r], op[r].of)
    BY <1>3, <1>7, CoversMore DEF P!Decided
  <2> QED BY <1>1, <1>4, <1>7, <2>1 DEF InOrder, ReadWasSo, Vouched, Reading, P!Checks
<1>8. ASSUME Clean', P!Decided(r, have) = "no", ~crossed[r] PROVE missing[r]
  <2>1. Current(have) /\ ~P!Covers(have, op[r].of)
    BY <1>4, <1>5, <1>8 DEF P!Decided
  <2> QED BY <1>1, <2>1, RefusedIsSo DEF InOrder
<1> QED BY <1>2, <1>6, <1>7, <1>8, FinishStep

LEMMA ForgetKeeps ==
  ASSUME PermissionsInv, PermissionsTyped', NEW r \in Request, P!Forget(r)
  PROVE  PermissionsInv'
<1>1. /\ stage[r] = "forget" /\ Still /\ permCopy' = (IF reachable THEN NoCopy ELSE permCopy)
      /\ skipped' = (skipped \/ (~reachable /\ permCopy # NoCopy))
      /\ UNCHANGED <<userCopy, raced, overlap>> /\ P!Finish(r, "changed")
  BY DEF P!Forget, Still
<1>2. Filled /\ Cleared(r)
  BY <1>1 DEF Filled, Cleared, Clean
<1> QED BY <1>1, <1>2, FinishStep

LEMMA CutPermissionKeeps ==
  ASSUME PermissionsInv, PermissionsTyped', NEW r \in Request, P!Cut(r)
  PROVE  PermissionsInv'
<1>1. /\ Still /\ skipped' = (skipped \/ stage[r] \in Dirty)
      /\ UNCHANGED <<userCopy, permCopy, raced, overlap>> /\ P!Finish(r, "cut")
  BY DEF P!Cut, Still, P!store, Dirty
<1>2. Filled /\ Cleared(r)
  BY <1>1 DEF Filled, Cleared, Clean, Dirty
<1> QED BY <1>1, <1>2, FinishStep

LEMMA DropUserKeeps ==
  ASSUME PermissionsInv, PermissionsTyped', NEW r \in Request, P!DropUser(r)
  PROVE  PermissionsInv'
<1>1. /\ stage[r] \in {"drop", "drop_again"} /\ InOrder(r) /\ op[r].kind \in P!ListChanges
      /\ Still /\ userCopy' = (IF reachable THEN NoCopy ELSE userCopy)
      /\ skipped' = (skipped \/ (~reachable /\ userCopy # NoCopy))
      /\ UNCHANGED <<permCopy, op, seen, found, unread, crossed, held, missing, untrue, overlap, raced>>
      /\ stage' = [stage EXCEPT ![r] = P!AfterDrop(stage[r])]
  BY DEF P!DropUser, Still, PermissionsInv, PermissionsTyped, RequestsTyped, KindsAt, P!moments, P!Goto
<1>2. stage'[r] = P!AfterDrop(stage[r]) /\ stage'[r] \in {"drop_again", "forget"}
  BY <1>1 DEF PermissionsInv, PermissionsTyped, P!TypeOK, P!AfterDrop
<1>3. \A q \in Request \ {r} : stage'[q] = stage[q]
  BY <1>1
<1>4. Latched /\ (Clean' => Clean)
  BY <1>1 DEF Latched, Clean
<1>5. Calm({r})
  <2>1. Filled /\ Cleared(r)
    BY <1>1, <1>2 DEF Filled, Cleared, Dirty, Clean
  <2> QED BY <1>1, <1>2, <1>3, <1>4, <2>1 DEF Calm, Apart, Dirty
<1>6. InOrder(r)'
  <2>1. op[r].kind \notin P!Checks
    BY <1>1 DEF P!ListChanges, P!RoleChanges, P!Checks
  <2>2. NoneChanges(r)'
    <3>1. P!Changing
      BY <1>1 DEF P!Changing
    <3> QED BY <1>1, <1>2, <3>1 DEF InOrder, NoneChanges
  <2>3. Remembered(r)' /\ ReadWasSo(r)'
    BY <1>1, <2>1 DEF Remembered, ReadWasSo, P!Checks
  <2>4. ReadIsStored(r)' /\ \A list \in Lists \ overlap : ListRead(r, list)'
    BY <1>2 DEF ReadIsStored, ListRead, Reading
  <2>5. GroupsStay(r) => GroupsStay(r)'
    BY <1>1, <1>2 DEF GroupsStay, Still
  <2> QED BY <1>1, <1>4, <2>2, <2>3, <2>4, <2>5 DEF InOrder
<1>7. (\A list \in Lists \ overlap : OneChange(list))'
  BY <1>1, NoNewChange
<1>8. P!AnswersAreHonest'
  BY <1>1, <1>4 DEF PermissionsInv, P!AnswersAreHonest, Clean
<1> QED BY <1>5, <1>6, <1>7, <1>8, CalmStep

\* A request comes: it is crossed if a change is under way, and what is copied is what is stored
\* if none is.
LEMMA BeginKeeps ==
  ASSUME PermissionsInv, PermissionsTyped', NEW r \in Request, NEW kind, NEW of, NEW label,
         Wanted(kind, of, label), P!Begin(r, kind, of, label), Overlaps(kind)
  PROVE  PermissionsInv'
<1> DEFINE o == [kind |-> kind, of |-> of]
<1>1. /\ stage[r] = "idle" /\ stage' = [stage EXCEPT ![r] = label] /\ op' = [op EXCEPT ![r] = o]
      /\ Still /\ UNCHANGED <<userCopy, permCopy, seen, found, unread, untrue, raced, skipped>>
  BY DEF P!Begin, P!Goto, Still, P!store
<1>2. /\ stage'[r] = label /\ op'[r] = o /\ o.kind = kind /\ o.of = of
      /\ label \in {"permissions", "user", "write"} /\ op[r].kind = "none"
  BY <1>1 DEF PermissionsInv, PermissionsTyped, P!TypeOK, RequestsTyped, Wanted, KindsAt
<1>3. /\ crossed'[r] = P!Changing
      /\ held'[r] = (kind \in P!Checks /\ (P!Changing \/ P!Holds(account, o)))
      /\ missing'[r] = (kind \in P!Checks /\ (P!Changing \/ P!Lacks(account, o)))
  BY DEF P!Begin, PermissionsInv, PermissionsTyped, P!TypeOK
<1>4. \A q \in Request \ {r} : Apart(q)
  BY DEF P!Begin, P!Goto, Apart
<1>5. kind \in {"check", "role", "assign", "remove", "join", "grant", "revoke"}
  BY DEF Wanted, P!RoleChanges, P!GrantChanges
<1> HIDE DEF o
<1>6. Latched /\ Clean' = Clean /\ overlap \subseteq overlap'
  BY <1>1 DEF Latched, Clean, Overlaps
<1>7. Calm({r})
  <2>1. Filled /\ Cleared(r)
    BY <1>1, <1>2 DEF Filled, Cleared, Dirty
  <2> QED BY <1>1, <1>2, <1>4, <1>6, <2>1 DEF Calm, Dirty
<1>8. InOrder(r)'
  <2>1. NoneChanges(r)'
    <3>1. P!Changing' => P!Changing
      BY <1>2, <1>4 DEF P!Changing, Apart
    <3> QED BY <1>3, <3>1 DEF NoneChanges
  <2>2. Remembered(r)'
    BY <1>1, <1>2, <1>3, SameWorld DEF Remembered, Still
  <2>3. ReadIsStored(r)'
    BY <1>2 DEF ReadIsStored, Reading
  <2>4. \A list : ListRead(r, list)'
    BY <1>2 DEF ListRead, ChangesOf, P!RoleChanges, Wanted, P!GrantChanges
  <2>5. ASSUME Clean, "groups" \notin overlap PROVE ReadWasSo(r)' /\ GroupsStay(r)'
    <3>1. GroupsStay(r)'
      BY <1>1, <1>2, <2>5 DEF GroupsStay, Still, PermissionsInv, InOrder
    <3>2. CASE P!Changing
      <4>1. kind \in P!Checks => held'[r]
        BY <1>3, <3>2
      <4> QED BY <1>2, <3>1, <4>1 DEF ReadWasSo, Vouched
    <3>3. CASE ~P!Changing
      <4>1. userCopy \in {NoCopy, account} /\ (permCopy = NoCopy \/ Current(permCopy))
        BY <2>5, <3>3 DEF PermissionsInv, CopiesInOrder, CopiesDropped, P!Changing
      <4>2. userCopy' # NoCopy => userCopy' = account'
        BY <1>1, <4>1 DEF Still
      <4>3. r \in Request /\ Remembered(r)' /\ (kind \in P!Checks => op'[r].kind \in P!Checks)
        BY <1>2, <2>2
      <4>4. kind \in P!Checks => Vouched(r, account)'
        <5>1. CASE kind = "check"
          <6>1. P!Covers(P!FromRoles(account), of) => P!Holds(account, o)
            BY <1>2, <5>1, CoversMore, FromRolesBetween DEF P!Holds
          <6> QED BY <1>1, <1>2, <1>3, <5>1, <6>1, SameWorld DEF Vouched, Still, P!Covers, P!Checks
        <5>2. CASE kind = "role"
          <6>1. of \in account.roles => P!Holds(account, o)
            BY <1>2, <5>2 DEF P!Holds
          <6> QED BY <1>1, <1>2, <1>3, <5>2, <6>1 DEF Vouched, Still, P!Checks
        <5> QED BY <5>1, <5>2 DEF P!Checks
      <4>5. kind = "check" /\ permCopy # NoCopy => (P!Covers(permCopy, of) => held'[r])
        <5>1. kind = "check" /\ permCopy # NoCopy /\ P!Covers(permCopy, of) => P!Holds(account, o)
          BY <1>2, <4>1, CoversMore DEF P!Holds, Current
        <5> QED BY <1>3, <5>1 DEF P!Checks
      <4>6. userCopy' # NoCopy /\ kind \in P!Checks => Vouched(r, userCopy)'
        BY <4>2, <4>4 DEF Vouched
      <4>7. label = "permissions" => kind = "check"
        BY DEF Wanted
      <4> QED BY <1>1, <1>2, <3>1, <4>5, <4>6, <4>7 DEF ReadWasSo, Reading, P!Covers
    <3> QED BY <3>2, <3>3
  <2> QED BY <1>6, <2>1, <2>2, <2>3, <2>4, <2>5 DEF InOrder
<1>9. (\A list \in Lists \ overlap : OneChange(list))'
  <2>1. ASSUME NEW list \in Lists \ overlap' PROVE OneChange(list)'
    <3>1. OneChange(list)
      BY <1>6, <2>1 DEF PermissionsInv
    <3>2. ASSUME kind \in ChangesOf(list), NEW q \in Request PROVE op[q].kind \notin ChangesOf(list)
      BY <2>1, <3>2 DEF Overlaps, Lists, ChangesOf, P!RoleChanges
    <3>3. ASSUME NEW p \in Request, NEW q \in Request, op'[p].kind \in ChangesOf(list), op'[q].kind \in ChangesOf(list)
          PROVE  p = q
      <4>1. CASE p = r \/ q = r
        BY <1>2, <1>4, <3>2, <3>3, <4>1 DEF Apart
      <4>2. CASE p # r /\ q # r
        BY <1>4, <3>1, <3>3, <4>2 DEF Apart, OneChange
      <4> QED BY <4>1, <4>2
    <3> QED BY <3>3 DEF OneChange, ChangesOf
  <2> QED BY <2>1 DEF Lists
<1>10. P!AnswersAreHonest'
  BY <1>1, <1>6 DEF PermissionsInv, P!AnswersAreHonest, Clean
<1> QED BY <1>7, <1>8, <1>9, <1>10, CalmStep

\* Copies expire, and the cache fails and answers again.
LEMMA CopiesGoKeeps ==
  ASSUME PermissionsInv, PermissionsTyped',
         P!UserCopyExpires \/ P!PermissionsExpire \/ P!CacheFails \/ P!CacheHeals \/ UNCHANGED P!vars
  PROVE  PermissionsInv'
<1>1. /\ Still /\ userCopy' \in {userCopy, NoCopy} /\ permCopy' \in {permCopy, NoCopy}
      /\ UNCHANGED <<stage, op, seen, found, unread, crossed, held, missing, untrue, overlap, raced, skipped>>
  <2>1. CASE UNCHANGED <<inherits, account, grants, P!request, P!history>>
    <3>1. Still /\ UNCHANGED <<stage, op, seen, found, unread, crossed, held, missing, untrue, overlap, raced, skipped>>
      BY <2>1 DEF Still, P!request, P!history, P!moments, P!flags
    <3>2. userCopy' \in {userCopy, NoCopy} /\ permCopy' \in {permCopy, NoCopy}
      BY DEF P!UserCopyExpires, P!PermissionsExpire, P!CacheFails, P!CacheHeals, P!vars, P!store
    <3> QED BY <3>1, <3>2
  <2>2. UNCHANGED <<inherits, account, grants, P!request, P!history>>
    BY DEF P!UserCopyExpires, P!PermissionsExpire, P!CacheFails, P!CacheHeals, P!vars, P!store
  <2> QED BY <2>1, <2>2
<1>2. Calm({})
  BY <1>1 DEF Calm, Latched, Filled, Apart
<1>3. (\A list \in Lists \ overlap : OneChange(list))'
  BY <1>1, NoNewChange
<1>4. P!AnswersAreHonest'
  BY <1>1 DEF PermissionsInv, P!AnswersAreHonest
<1> QED BY <1>2, <1>3, <1>4, CalmStep

-----------------------------------------------------------------------------
(* Steps that do change the record or a grant.                             *)

\* Whoever is crossed has seen both what was and what is.
LEMMA CrossRemembers ==
  ASSUME PermissionsTyped, P!Cross, op' = op, NEW q \in Request,
         Remembered(q)
  PROVE  /\ Remembered(q)' /\ (held[q] => held'[q]) /\ (missing[q] => missing'[q])
         /\ crossed'[q] = (crossed[q] \/ stage[q] # "idle")
<1>1. /\ held'[q] = (held[q] \/ (op[q].kind \in P!Checks /\ (P!Holds(account, op[q]) \/ P!Holds(account, op[q])')))
      /\ missing'[q] = (missing[q] \/ (op[q].kind \in P!Checks /\ (P!Lacks(account, op[q]) \/ P!Lacks(account, op[q])')))
      /\ crossed'[q] = (crossed[q] \/ stage[q] # "idle")
  BY DEF P!Cross
<1> QED BY <1>1 DEF Remembered

LEMMA VouchedStays ==
  ASSUME NEW q \in Request, inherits' = inherits, op'[q] = op[q], held[q] => held'[q]
  PROVE  /\ \A user : Vouched(q, user) => Vouched(q, user)'
         /\ userCopy' = userCopy /\ Vouched(q, userCopy) => Vouched(q, userCopy)'
         /\ seen'[q] = seen[q] /\ Vouched(q, seen[q]) => Vouched(q, seen[q])'
<1>1. \A role : P!Reachable(role)' = P!Reachable(role)
  BY DEF P!Reachable, P!Inherited
<1>2. \A user : P!FromRoles(user)' = P!FromRoles(user)
  BY <1>1 DEF P!FromRoles, P!RolesOf
<1>3. userCopy' = userCopy => P!FromRoles(userCopy)' = P!FromRoles(userCopy)
  BY <1>1 DEF P!FromRoles, P!RolesOf
<1>4. seen'[q] = seen[q] => P!FromRoles(seen[q])' = P!FromRoles(seen[q])
  BY <1>1 DEF P!FromRoles, P!RolesOf
<1> QED BY <1>2, <1>3, <1>4 DEF Vouched, P!Covers

LEMMA WriteListKeeps ==
  ASSUME PermissionsInv, PermissionsTyped', NEW r \in Request, P!WriteList(r)
  PROVE  PermissionsInv'
<1>1. /\ stage[r] = "write" /\ op[r].kind \in P!ListChanges /\ account' = P!Changed(account, seen[r], op[r])
      /\ lost' = (lost \/ account' # P!Changed(account, account, op[r])) /\ stage' = [stage EXCEPT ![r] = "drop"]
      /\ UNCHANGED <<inherits, grants, userCopy, permCopy, reachable, op, seen, found, unread, untrue,
                     overlap, raced, skipped>>
      /\ P!Cross /\ InOrder(r)
  BY DEF P!WriteList, P!Goto, P!flags, PermissionsInv
<1>2. stage'[r] = "drop" /\ \A q \in Request \ {r} : stage'[q] = stage[q]
  BY <1>1 DEF PermissionsInv, PermissionsTyped, P!TypeOK
<1>3. account \in P!Account /\ account' \in P!Account /\ seen[r] \in P!Account
  BY DEF PermissionsInv, PermissionsTyped, P!TypeOK
<1>4. Clean' = Clean
  BY <1>1 DEF Clean
\* Only the list it is for changes.
<1>5. \A list \in Lists : op[r].kind \notin ChangesOf(list) => account'[list] = account[list]
  BY <1>1, <1>3 DEF P!Changed, Lists, ChangesOf, P!RoleChanges, P!ListChanges, P!Account
<1>6. ASSUME Clean, NEW list \in Lists \ overlap, op[r].kind \in ChangesOf(list)
      PROVE  seen[r][list] = account[list]
  BY <1>1, <1>6 DEF InOrder, ListRead
<1>7. ASSUME Clean, "groups" \notin overlap PROVE account.groups \subseteq account'.groups
  <2>1. CASE op[r].kind = "join"
    <3>1. seen[r].groups = account.groups
      BY <1>6, <1>7, <2>1 DEF Lists, ChangesOf
    <3> QED BY <1>1, <1>3, <2>1, <3>1 DEF P!Changed, P!Account
  <2>2. CASE op[r].kind # "join"
    <3>1. account'["groups"] = account["groups"]
      BY <1>5, <2>2 DEF Lists, ChangesOf
    <3> QED BY <3>1
  <2> QED BY <2>1, <2>2
<1>8. ASSUME NEW q \in Request PROVE InOrder(q)'
  <2>1. InOrder(q) /\ stage'[q] # "idle" => stage[q] # "idle"
    BY <1>1, <1>2
  <2>2. Remembered(q) /\ InOrder(q)
    BY DEF PermissionsInv, InOrder
  <2>3. /\ Remembered(q)' /\ (held[q] => held'[q])
        /\ crossed'[q] = (crossed[q] \/ stage[q] # "idle")
    BY <1>1, <2>2, CrossRemembers DEF PermissionsInv
  <2>4. stage'[q] # "idle" => crossed'[q]
    BY <1>1, <1>2, <2>3
  <2>5. NoneChanges(q)' /\ ReadIsStored(q)'
    BY <2>4 DEF NoneChanges, ReadIsStored
  <2>6. ASSUME Clean, NEW list \in Lists \ overlap PROVE ListRead(q, list)'
    <3>1. CASE op[q].kind \in ChangesOf(list) /\ op[r].kind \in ChangesOf(list)
      <4>1. q = r
        BY <2>6, <3>1 DEF PermissionsInv, OneChange
      <4> QED BY <1>2, <4>1 DEF ListRead
    <3>2. CASE op[r].kind \notin ChangesOf(list)
      <4>1. account'[list] = account[list] /\ ListRead(q, list)
        BY <1>5, <2>2, <2>6, <3>2 DEF InOrder
      <4> QED BY <1>1, <1>2, <4>1 DEF ListRead, ChangesOf
    <3>3. CASE op[q].kind \notin ChangesOf(list)
      BY <1>1, <3>3 DEF ListRead, ChangesOf
    <3> QED BY <3>1, <3>2, <3>3
  <2>7. ASSUME Clean, "groups" \notin overlap PROVE ReadWasSo(q)' /\ GroupsStay(q)'
    <3>1. ReadWasSo(q) /\ GroupsStay(q)
      BY <2>2, <2>7 DEF InOrder
    <3>2. GroupsStay(q)'
      BY <1>1, <1>2, <1>7, <2>7, <3>1 DEF GroupsStay
    <3>3. /\ Vouched(q, userCopy) => Vouched(q, userCopy)'
          /\ Vouched(q, seen[q]) => Vouched(q, seen[q])'
      BY <1>1, <2>3, VouchedStays
    <3>4. \A S, p : P!Covers(S, p)' = P!Covers(S, p)
      BY DEF P!Covers
    <3>5. stage'[q] = stage[q] \/ stage'[q] = "drop"
      BY <1>2
    <3> QED BY <1>1, <2>3, <3>1, <3>2, <3>3, <3>4, <3>5 DEF ReadWasSo, Reading
  <2> QED BY <1>1, <1>4, <2>3, <2>5, <2>6, <2>7 DEF InOrder
<1>9. ASSUME Clean PROVE CopiesInOrder'
  <2>1. CopiesInOrder
    BY <1>9 DEF PermissionsInv
  <2>2. CopiesDropped'
    BY <1>2 DEF CopiesDropped, P!Changing
  <2>3. "groups" \notin overlap => CopiedGroupsStay'
    BY <1>1, <1>7, <1>9, <2>1 DEF CopiesInOrder, CopiedGroupsStay
  <2>4. ASSUME NEW list \in Lists \ overlap PROVE ListCopied(list)'
    <3>1. CASE op[r].kind \in ChangesOf(list)
      BY <1>1, <1>2, <3>1 DEF ListCopied, ChangesOf
    <3>2. CASE op[r].kind \notin ChangesOf(list)
      <4>1. account'[list] = account[list] /\ ListCopied(list)
        BY <1>5, <2>1, <2>4, <3>2 DEF CopiesInOrder
      <4>2. \A q \in Request : stage[q] = "drop" => stage'[q] = "drop"
        BY <1>2
      <4> QED BY <1>1, <4>1, <4>2 DEF ListCopied, ChangesOf
    <3> QED BY <3>1, <3>2
  <2> QED BY <1>1, <2>2, <2>3, <2>4 DEF CopiesInOrder, Lists
<1>10. (\A list \in Lists \ overlap : OneChange(list))'
  BY <1>1, NoNewChange DEF PermissionsInv
<1>11. P!AnswersAreHonest'
  BY <1>1 DEF PermissionsInv, P!AnswersAreHonest
<1>12. P!ChangesAreKept'
  <2> SUFFICES ASSUME overlap = {}, Clean PROVE ~lost'
    BY <1>1 DEF P!ChangesAreKept, Clean
  <2>1. op[r].kind \in P!RoleChanges => seen[r].roles = account.roles
    BY <1>6 DEF Lists, ChangesOf
  <2>2. op[r].kind = "join" => seen[r].groups = account.groups
    BY <1>6 DEF Lists, ChangesOf
  <2>3. P!Changed(account, seen[r], op[r]) = P!Changed(account, account, op[r])
    BY <1>1, <2>1, <2>2 DEF P!Changed, P!ListChanges, P!RoleChanges
  <2>4. ~lost
    BY DEF PermissionsInv, P!ChangesAreKept, Clean
  <2> QED BY <1>1, <2>3, <2>4
<1> QED BY <1>4, <1>8, <1>9, <1>10, <1>11, <1>12 DEF PermissionsInv

\* A request of whatever kind, when a grant changes and the record does not.
LEMMA GrantChanged ==
  ASSUME PermissionsInv, PermissionsTyped',
         UNCHANGED <<inherits, account, userCopy, permCopy, op, seen, found, unread, untrue, lost,
                     overlap, raced, skipped>>,
         \A q \in Request : stage[q] = "drop" <=> stage'[q] = "drop",
         \A q \in Request : stage'[q] = stage[q] \/ stage'[q] = "forget",
         \A q \in Request : NoneChanges(q)' /\ Remembered(q)' /\ (held[q] => held'[q]),
         Clean => \A q \in Request : ReadIsStored(q)',
         Clean => permCopy = NoCopy \/ Current(permCopy)' \/ P!Changing'
  PROVE  PermissionsInv'
<1>1. Clean' = Clean
  BY DEF Clean
<1>2. ASSUME NEW q \in Request PROVE InOrder(q)'
  <2>1. InOrder(q)
    BY DEF PermissionsInv
  <2>2. \A list : ListRead(q, list) => ListRead(q, list)'
    BY DEF ListRead, ChangesOf
  <2>3. GroupsStay(q) => GroupsStay(q)'
    BY DEF GroupsStay
  <2>4. ReadWasSo(q) => ReadWasSo(q)'
    <3>1. /\ Vouched(q, userCopy) => Vouched(q, userCopy)'
          /\ Vouched(q, seen[q]) => Vouched(q, seen[q])'
      BY VouchedStays
    <3>2. \A S, p : P!Covers(S, p)' = P!Covers(S, p)
      BY DEF P!Covers
    <3> QED BY <3>1, <3>2 DEF ReadWasSo, Reading
  <2> QED BY <1>1, <2>1, <2>2, <2>3, <2>4 DEF InOrder
<1>3. Clean => CopiesInOrder'
  <2> SUFFICES ASSUME Clean PROVE CopiesInOrder'
    OBVIOUS
  <2>1. CopiesInOrder
    BY DEF PermissionsInv
  <2>2. CopiesDropped'
    BY <2>1 DEF CopiesInOrder, CopiesDropped
  <2>3. CopiedGroupsStay => CopiedGroupsStay'
    BY DEF CopiedGroupsStay
  <2>4. \A list : ListCopied(list) => ListCopied(list)'
    BY DEF ListCopied, ChangesOf
  <2> QED BY <2>1, <2>2, <2>3, <2>4 DEF CopiesInOrder
<1>4. (\A list \in Lists \ overlap : OneChange(list))'
  BY NoNewChange
<1>5. P!AnswersAreHonest' /\ P!ChangesAreKept'
  BY DEF PermissionsInv, P!AnswersAreHonest, P!ChangesAreKept
<1> QED BY <1>1, <1>2, <1>3, <1>4, <1>5 DEF PermissionsInv

LEMMA WriteGrantKeeps ==
  ASSUME PermissionsInv, PermissionsTyped', NEW r \in Request, P!WriteGrant(r)
  PROVE  PermissionsInv'
<1>1. /\ stage[r] = "write" /\ stage' = [stage EXCEPT ![r] = "forget"]
      /\ UNCHANGED <<inherits, account, userCopy, permCopy, op, seen, found, unread, untrue, lost,
                     overlap, raced, skipped>>
      /\ P!Cross
  BY DEF P!WriteGrant, P!Goto, P!flags
<1>2. stage'[r] = "forget" /\ \A q \in Request \ {r} : stage'[q] = stage[q]
  BY <1>1 DEF PermissionsInv, PermissionsTyped, P!TypeOK
<1>3. P!Changing'
  BY <1>2 DEF P!Changing
<1>4. ASSUME NEW q \in Request
      PROVE  NoneChanges(q)' /\ Remembered(q)' /\ (held[q] => held'[q]) /\ ReadIsStored(q)'
  <2>1. Remembered(q)
    BY DEF PermissionsInv, InOrder
  <2>2. /\ Remembered(q)' /\ (held[q] => held'[q])
        /\ crossed'[q] = (crossed[q] \/ stage[q] # "idle")
    BY <1>1, <2>1, CrossRemembers DEF PermissionsInv
  <2>3. stage'[q] # "idle" => crossed'[q]
    BY <1>1, <1>2, <2>2
  <2> QED BY <2>2, <2>3 DEF NoneChanges, ReadIsStored
<1>5. \A q \in Request : (stage[q] = "drop" <=> stage'[q] = "drop") /\ (stage'[q] = stage[q] \/ stage'[q] = "forget")
  BY <1>1, <1>2
<1> QED BY <1>1, <1>3, <1>4, <1>5, GrantChanged

\* What time does to a grant: it takes nothing from what may be found, and adds nothing to what must.
LEMMA TimeIs ==
  ASSUME inherits' = inherits, account' = account,
         \A g \in Grant : grants'[g] = "active" => grants[g] = "active",
         \A g \in Grant : grants[g] \in {"active", "begun", "ended"} => grants'[g] \in {"active", "begun", "ended"},
         P!NamesAssumption
  PROVE  /\ P!AtMost(account) \subseteq P!AtMost(account)' /\ P!AtLeast(account)' \subseteq P!AtLeast(account)
         /\ \A groups : Within(P!OwnGrants \cup P!GroupGrants(groups), {"active"})'
                          \subseteq Within(P!OwnGrants \cup P!GroupGrants(groups), {"active"})
         /\ \A q : unread'[q] = unread[q] =>
              Within(P!OwnGrants \cup P!GroupGrants(account.groups \ unread[q]), {"active"})'
                \subseteq Within(P!OwnGrants \cup P!GroupGrants(account.groups \ unread[q]), {"active"})
<1>1. P!FromRoles(account)' = P!FromRoles(account)
  BY DEF P!FromRoles, P!Reachable, P!Inherited, P!RolesOf
<1>2. P!OwnGrants \subseteq Grant /\ \A groups : P!GroupGrants(groups) \subseteq Grant
  BY DEF P!OwnGrants, P!GroupGrants, P!NamesAssumption
<1>3. P!OwnGrants' = P!OwnGrants /\ \A groups : P!GroupGrants(groups)' = P!GroupGrants(groups)
  BY DEF P!OwnGrants, P!GroupGrants
<1>4. /\ P!Of(account, {"active", "begun", "ended"}) \subseteq P!Of(account, {"active", "begun", "ended"})'
      /\ P!Of(account, {"active"})' \subseteq P!Of(account, {"active"})
  BY <1>2 DEF P!Of, P!OwnGrants, P!GroupGrants
<1>5. \A groups : Within(P!OwnGrants \cup P!GroupGrants(groups), {"active"})'
                    \subseteq Within(P!OwnGrants \cup P!GroupGrants(groups), {"active"})
  BY <1>2 DEF Within, P!OwnGrants, P!GroupGrants
<1>6. \A q : unread'[q] = unread[q] =>
        Within(P!OwnGrants \cup P!GroupGrants(account.groups \ unread[q]), {"active"})'
          \subseteq Within(P!OwnGrants \cup P!GroupGrants(account.groups \ unread[q]), {"active"})
  BY <1>2 DEF Within, P!OwnGrants, P!GroupGrants
<1> QED BY <1>1, <1>4, <1>5, <1>6 DEF P!AtMost, P!AtLeast

LEMMA TimeKeeps ==
  ASSUME P!NamesAssumption, PermissionsInv, PermissionsTyped', NEW g \in Grant, P!GrantBegins(g) \/ P!GrantEnds(g)
  PROVE  PermissionsInv'
<1>1. /\ UNCHANGED <<inherits, account, userCopy, permCopy, stage, op, seen, found, unread, untrue, lost,
                     overlap, raced, skipped, crossed>>
  BY DEF P!GrantBegins, P!GrantEnds, P!request, P!flags
<1>2. /\ \A h \in Grant : grants'[h] = "active" => grants[h] = "active"
      /\ \A h \in Grant : grants[h] \in {"active", "begun", "ended"} => grants'[h] \in {"active", "begun", "ended"}
  BY DEF P!GrantBegins, P!GrantEnds, PermissionsInv, PermissionsTyped, P!TypeOK
<1>3. /\ P!AtMost(account) \subseteq P!AtMost(account)' /\ P!AtLeast(account)' \subseteq P!AtLeast(account)
      /\ \A q \in Request : Within(P!OwnGrants \cup P!GroupGrants(account.groups \ unread[q]), {"active"})'
                    \subseteq Within(P!OwnGrants \cup P!GroupGrants(account.groups \ unread[q]), {"active"})
  BY <1>1, <1>2, TimeIs
<1>4. ASSUME NEW q \in Request PROVE Remembered(q)' /\ (held[q] => held'[q])
  <2>1. Remembered(q)
    BY DEF PermissionsInv, InOrder
  <2>2. CASE P!GrantBegins(g)
    <3>1. /\ held'[q] = (held[q] \/ (op[q].kind \in P!Checks /\ P!Holds(account, op[q])'))
          /\ missing' = missing
      BY <2>2 DEF P!GrantBegins
    <3>2. P!AtLeast(account)' = P!AtLeast(account)
      <4>1. \A h \in Grant : grants'[h] = "active" <=> grants[h] = "active"
        BY <2>2 DEF P!GrantBegins, PermissionsInv, PermissionsTyped, P!TypeOK
      <4>2. P!OwnGrants \subseteq Grant /\ P!GroupGrants(account.groups) \subseteq Grant
        BY DEF P!OwnGrants, P!GroupGrants, P!NamesAssumption
      <4>3. P!Of(account, {"active"})' = P!Of(account, {"active"})
        BY <1>1, <4>1, <4>2 DEF P!Of, P!OwnGrants, P!GroupGrants
      <4>4. P!FromRoles(account)' = P!FromRoles(account)
        BY <1>1 DEF P!FromRoles, P!Reachable, P!Inherited, P!RolesOf
      <4> QED BY <4>3, <4>4 DEF P!AtLeast
    <3>3. P!Lacks(account, op[q])' = P!Lacks(account, op[q])
      BY <1>1, <3>2 DEF P!Lacks, P!Covers
    <3> QED BY <1>1, <2>1, <3>1, <3>3 DEF Remembered
  <2>3. CASE P!GrantEnds(g)
    <3>1. /\ missing'[q] = (missing[q] \/ (op[q].kind \in P!Checks /\ P!Lacks(account, op[q])'))
          /\ held' = held
      BY <2>3 DEF P!GrantEnds
    <3>2. P!AtMost(account)' = P!AtMost(account)
      <4>1. \A h \in Grant : grants'[h] \in {"active", "begun", "ended"} <=> grants[h] \in {"active", "begun", "ended"}
        BY <2>3 DEF P!GrantEnds, PermissionsInv, PermissionsTyped, P!TypeOK
      <4>2. P!OwnGrants \subseteq Grant /\ P!GroupGrants(account.groups) \subseteq Grant
        BY DEF P!OwnGrants, P!GroupGrants, P!NamesAssumption
      <4>3. P!Of(account, {"active", "begun", "ended"})' = P!Of(account, {"active", "begun", "ended"})
        BY <1>1, <4>1, <4>2 DEF P!Of, P!OwnGrants, P!GroupGrants
      <4>4. P!FromRoles(account)' = P!FromRoles(account)
        BY <1>1 DEF P!FromRoles, P!Reachable, P!Inherited, P!RolesOf
      <4> QED BY <4>3, <4>4 DEF P!AtMost
    <3>3. P!Holds(account, op[q])' = P!Holds(account, op[q])
      BY <1>1, <3>2 DEF P!Holds, P!Covers
    <3> QED BY <1>1, <2>1, <3>1, <3>3 DEF Remembered
  <2> QED BY <2>2, <2>3
<1>5. ASSUME NEW q \in Request PROVE NoneChanges(q)'
  <2>1. NoneChanges(q)
    BY DEF PermissionsInv, InOrder
  <2> QED BY <1>1, <2>1 DEF NoneChanges, P!Changing
<1>6. ASSUME Clean, NEW q \in Request PROVE ReadIsStored(q)'
  <2>1. ReadIsStored(q)
    BY <1>6 DEF PermissionsInv, InOrder
  <2> QED BY <1>1, <1>3, <2>1 DEF ReadIsStored, Reading
<1>7. ASSUME Clean PROVE permCopy = NoCopy \/ Current(permCopy)' \/ P!Changing'
  <2>1. permCopy = NoCopy \/ Current(permCopy) \/ P!Changing
    BY <1>7 DEF PermissionsInv, CopiesInOrder, CopiesDropped
  <2>2. Current(permCopy) => Current(permCopy)'
    BY <1>1, <1>3 DEF Current
  <2> QED BY <1>1, <2>1, <2>2 DEF P!Changing
<1> QED BY <1>1, <1>4, <1>5, <1>6, <1>7, GrantChanged

-----------------------------------------------------------------------------
LEMMA PermissionsStep ==
  ASSUME P!NamesAssumption, P!PermissionsAssumption, PermissionsInv, [P!Next]_P!vars
  PROVE  PermissionsInv'
<1>0. PermissionsTyped
  BY DEF PermissionsInv
<1>1. ASSUME NEW r \in Request, P!Check(r) \/ P!Change(r) PROVE PermissionsInv'
  <2>1. PICK kind, of, label :
           Wanted(kind, of, label) /\ P!Begin(r, kind, of, label) /\ Overlaps(kind) /\ spent' \in 0 .. MaxEvents
    BY <1>0, <1>1, BeginningIs
  <2> QED BY <1>0, <2>1, BeginTyped, BeginKeeps
<1>2. ASSUME NEW r \in Request, P!Steps(r) \/ P!Cut(r) PROVE PermissionsInv'
  <2>1. CASE P!GetPermissions(r) \/ P!Decide(r) \/ P!FillPermissions(r) \/ P!Forget(r) \/ P!Cut(r)
    BY <1>0, <2>1, AnswersTyped, GetPermissionsKeeps, DecideKeeps, FillPermissionsKeeps, ForgetKeeps, CutPermissionKeeps
  <2>2. CASE P!GetUser(r) \/ P!ReadUser(r) \/ P!FillUser(r) \/ P!ReadGrants(r) \/ P!ReadGroupGrants(r)
    BY <1>0, <2>2, ReadersTyped, GetUserKeeps, ReadUserKeeps, FillUserKeeps, ReadGrantsKeeps, ReadGroupGrantsKeeps
  <2>3. CASE P!WriteList(r) \/ P!WriteGrant(r) \/ P!DropUser(r)
    BY <1>0, <2>3, WritersTyped, WriteListKeeps, WriteGrantKeeps, DropUserKeeps
  <2> QED BY <1>2, <2>1, <2>2, <2>3 DEF P!Steps
<1>3. ASSUME NEW g \in Grant, P!GrantBegins(g) \/ P!GrantEnds(g) PROVE PermissionsInv'
  BY <1>0, <1>3, WorldTyped, TimeKeeps
<1>4. ASSUME \/ P!UserCopyExpires \/ P!PermissionsExpire \/ P!CacheFails \/ P!CacheHeals
             \/ UNCHANGED P!vars
      PROVE  PermissionsInv'
  BY <1>0, <1>4, WorldTyped, CopiesGoKeeps
<1> QED BY <1>1, <1>2, <1>3, <1>4 DEF P!Next

\* Whatever the roles inherit from each other and however many requests there are: what is cached is
\* what is stored once a change has dropped it, nobody is let in for what was not allowed at some
\* moment of the request, and changes do not undo each other, but for the races that are named
\* (rbac.py: resolve_user_permissions, _change_list, _forget; data_service.py: get).
THEOREM PermissionsStay ==
  ASSUME P!NamesAssumption, P!PermissionsAssumption PROVE P!Spec => []PermissionsHold
<1>1. P!Init => PermissionsInv
  BY PermissionsStart
<1>2. PermissionsInv /\ [P!Next]_P!vars => PermissionsInv'
  BY PermissionsStep
<1>3. PermissionsInv => PermissionsHold
  <2> SUFFICES ASSUME PermissionsInv PROVE P!CopiesAreCurrent
    BY DEF PermissionsInv, PermissionsTyped, PermissionsHold, P!PermissionsHold
  <2> SUFFICES ASSUME Clean, ~P!Changing
               PROVE  userCopy \in {NoCopy, account} /\ (permCopy = NoCopy \/ Current(permCopy))
    BY DEF P!CopiesAreCurrent, Clean, Current
  <2>1. CopiesDropped
    BY DEF PermissionsInv, CopiesInOrder
  <2>2. \A r \in Request : stage[r] # "drop"
    BY DEF P!Changing
  <2> QED BY <2>1, <2>2 DEF CopiesDropped
<1> QED BY <1>1, <1>2, <1>3, PTL DEF P!Spec

-----------------------------------------------------------------------------
(* The limiter: sums over moments.                                         *)

End == MaxNow + MaxAhead + 1
Weight(bag, S, t) == IF t \in S THEN bag[t] ELSE 0
SumsTo(f, bag, S, m) == f[0] = 0 /\ \A n \in 1 .. m : f[n] = f[n - 1] + Weight(bag, S, n - 1)
Sums(f, bag, S) == SumsTo(f, bag, S, End)
Counts == [Moment -> Nat]

LEMMA MomentsAre ==
  /\ End \in Nat /\ \A n \in 1 .. End : n - 1 \in Moment
  /\ \A n \in Nat : n + 1 <= End => n \in Moment /\ n + 1 \in 1 .. End /\ (n + 1) - 1 = n /\ n \in 0 .. End
  /\ 0 \in Moment /\ \A t \in Moment : t \in Nat /\ t < End
  BY LimiterAssumption DEF End, Moment, Span

LEMMA WeighedIs ==
  ASSUME NEW bag \in Counts, NEW S, NEW t \in Moment
  PROVE  Weight(bag, S, t) \in Nat
  BY DEF Weight, Counts

\* The sums exist, and the last of them is the total.
LEMMA SumsExist ==
  ASSUME NEW bag \in Counts, NEW S
  PROVE  \E f \in [0 .. End -> Nat] : Sums(f, bag, S) /\ Total(bag, S) = f[End]
<1> DEFINE M == {m \in Nat : m <= End => \E f \in [0 .. m -> Nat] : SumsTo(f, bag, S, m)}
           F(f) == [n \in 0 .. End |-> IF n = 0 THEN 0 ELSE f[n - 1] + (IF n - 1 \in S THEN bag[n - 1] ELSE 0)]
           g == CHOOSE f : f = F(f)
<1>0. End \in Nat /\ \A n \in 1 .. End : Weight(bag, S, n - 1) \in Nat
  BY MomentsAre, WeighedIs
<1>1. 0 \in M
  <2> DEFINE f == [n \in 0 .. 0 |-> 0]
  <2>1. f \in [0 .. 0 -> Nat] /\ SumsTo(f, bag, S, 0)
    BY DEF SumsTo
  <2> QED BY <2>1
<1>2. ASSUME NEW m \in Nat, m \in M PROVE m + 1 \in M
  <2> SUFFICES ASSUME m + 1 <= End PROVE \E f \in [0 .. m + 1 -> Nat] : SumsTo(f, bag, S, m + 1)
    OBVIOUS
  <2>1. PICK f \in [0 .. m -> Nat] : SumsTo(f, bag, S, m)
    BY <1>0, <1>2
  <2>2. m + 1 \in 1 .. End /\ (m + 1) - 1 = m /\ m \in 0 .. m
    BY <1>0
  <2>3. Weight(bag, S, m) \in Nat /\ f[m] \in Nat
    BY <1>0, <2>2
  <2> DEFINE h == [n \in 0 .. m + 1 |-> IF n = m + 1 THEN f[m] + Weight(bag, S, m) ELSE f[n]]
  <2>4. h \in [0 .. m + 1 -> Nat] /\ h[0] = 0
    BY <2>1, <2>3 DEF SumsTo
  <2>5. ASSUME NEW n \in 1 .. m + 1 PROVE h[n] = h[n - 1] + Weight(bag, S, n - 1)
    <3>1. CASE n = m + 1
      BY <2>2, <3>1
    <3>2. CASE n # m + 1
      <4>1. n \in 1 .. m /\ n - 1 \in 0 .. m /\ n - 1 # m + 1
        BY <3>2
      <4> QED BY <2>1, <4>1 DEF SumsTo
    <3> QED BY <3>1, <3>2
  <2> HIDE DEF h
  <2> QED BY <2>4, <2>5 DEF SumsTo
<1>3. End \in M
  <2> HIDE DEF M
  <2> QED BY <1>0, <1>1, <1>2, AllNumbers
<1>4. PICK f \in [0 .. End -> Nat] : SumsTo(f, bag, S, End)
  BY <1>0, <1>3
<1>5. \A n \in 0 .. End : f[n] = F(f)[n]
  <2> SUFFICES ASSUME NEW n \in 0 .. End PROVE f[n] = F(f)[n]
    OBVIOUS
  <2>1. CASE n = 0
    BY <1>4, <2>1 DEF SumsTo
  <2>2. CASE n # 0
    <3>1. n \in 1 .. End
      BY <1>0, <2>2
    <3> QED BY <1>4, <2>2, <3>1 DEF Weight, SumsTo
  <2> QED BY <2>1, <2>2
<1>6. f = F(f)
  BY <1>5
<1>7. g = F(g)
  BY <1>6
<1>8. \A n \in 0 .. End : g[n] = IF n = 0 THEN 0 ELSE g[n - 1] + Weight(bag, S, n - 1)
  BY <1>7 DEF Weight
<1>9. Total(bag, S) = g[End]
  BY DEF Total, End
<1> HIDE DEF g, F
<1>10. \A n \in Nat : n \in {k \in Nat : k <= End => g[k] = f[k]}
  <2> DEFINE K == {k \in Nat : k <= End => g[k] = f[k]}
  <2>1. 0 \in K
    BY <1>0, <1>4, <1>8 DEF SumsTo
  <2>2. ASSUME NEW k \in Nat, k \in K PROVE k + 1 \in K
    <3> SUFFICES ASSUME k + 1 <= End PROVE g[k + 1] = f[k + 1]
      OBVIOUS
    <3>1. k + 1 \in 1 .. End /\ k + 1 \in 0 .. End /\ (k + 1) - 1 = k /\ k + 1 # 0 /\ k <= End
      BY <1>0
    <3> QED BY <1>4, <1>8, <2>2, <3>1 DEF SumsTo
  <2> HIDE DEF K
  <2>3. \A k \in Nat : k \in K
    BY <2>1, <2>2, AllNumbers
  <2> QED BY <2>3 DEF K
<1>11. Total(bag, S) = f[End]
  BY <1>0, <1>9, <1>10
<1> QED BY <1>4, <1>11 DEF Sums

LEMMA TotalIsNat == ASSUME NEW bag \in Counts, NEW S PROVE Total(bag, S) \in Nat
  BY SumsExist, MomentsAre

LEMMA AddedUp ==
  ASSUME NEW a \in Nat, NEW b \in Nat, NEW u \in Nat, NEW v \in Nat, NEW d \in Nat, NEW e \in Nat,
         a + d <= b + e, u <= v
  PROVE  (a + u) + d <= (b + v) + e /\ (u + a) + d <= (v + b) + e
OBVIOUS

LEMMA AddedUpTwice ==
  ASSUME NEW a \in Nat, NEW b \in Nat, NEW c \in Nat, NEW u \in Nat, NEW v \in Nat, NEW w \in Nat,
         c <= a + b, w <= u + v
  PROVE  c + w <= (a + u) + (b + v)
OBVIOUS

\* What differs at one moment only.
LEMMA TotalDiffers ==
  ASSUME NEW less \in Counts, NEW S, NEW more \in Counts, NEW T, NEW k \in Moment,
         NEW d \in Nat, NEW e \in Nat,
         \A t \in Moment : Weight(less, S, t) + (IF t = k THEN d ELSE 0)
                             <= Weight(more, T, t) + (IF t = k THEN e ELSE 0)
  PROVE  Total(less, S) + d <= Total(more, T) + e
<1>1. PICK f \in [0 .. End -> Nat] : Sums(f, less, S) /\ Total(less, S) = f[End]
  BY SumsExist
<1>2. PICK g \in [0 .. End -> Nat] : Sums(g, more, T) /\ Total(more, T) = g[End]
  BY SumsExist
<1> DEFINE N == {n \in Nat : n <= End => f[n] + (IF k < n THEN d ELSE 0) <= g[n] + (IF k < n THEN e ELSE 0)}
<1>3. k \in Nat /\ End \in Nat /\ k < End
  BY MomentsAre
<1>4. 0 \in N
  BY <1>1, <1>2, <1>3 DEF Sums, SumsTo
<1>5. ASSUME NEW n \in Nat, n \in N PROVE n + 1 \in N
  <2> SUFFICES ASSUME n + 1 <= End
               PROVE  f[n + 1] + (IF k < n + 1 THEN d ELSE 0) <= g[n + 1] + (IF k < n + 1 THEN e ELSE 0)
    OBVIOUS
  <2>1. n + 1 \in 1 .. End /\ (n + 1) - 1 = n /\ n \in 0 .. End /\ n \in Moment
    BY MomentsAre
  <2>2. f[n + 1] = f[n] + Weight(less, S, n) /\ g[n + 1] = g[n] + Weight(more, T, n)
    BY <1>1, <1>2, <2>1 DEF Sums, SumsTo
  <2>3. Weight(less, S, n) \in Nat /\ Weight(more, T, n) \in Nat
    BY <2>1, WeighedIs
  <2>4. f[n] + (IF k < n THEN d ELSE 0) <= g[n] + (IF k < n THEN e ELSE 0)
    BY <1>5, <2>1
  <2>5. Weight(less, S, n) + (IF n = k THEN d ELSE 0) <= Weight(more, T, n) + (IF n = k THEN e ELSE 0)
    BY <2>1
  <2>6. f[n] \in Nat /\ g[n] \in Nat
    BY <2>1
  <2>7. CASE n = k
    <3>1. ~(k < n) /\ k < n + 1 /\ ~(k < k) /\ k < k + 1
      BY <1>3, <2>7
    <3>2. f[n] <= g[n] /\ Weight(less, S, n) + d <= Weight(more, T, n) + e
      BY <2>4, <2>5, <2>6, <2>7, <3>1
    <3>3. (f[n] + Weight(less, S, n)) + d <= (g[n] + Weight(more, T, n)) + e
      BY <2>3, <2>6, <3>2, AddedUp
    <3> QED BY <2>2, <3>1, <3>3
  <2>8. CASE k < n
    <3>1. f[n] + d <= g[n] + e /\ Weight(less, S, n) <= Weight(more, T, n) /\ k < n + 1
      BY <1>3, <2>3, <2>4, <2>5, <2>8
    <3>2. (f[n] + Weight(less, S, n)) + d <= (g[n] + Weight(more, T, n)) + e
      BY <2>3, <2>6, <3>1, AddedUp
    <3> QED BY <2>2, <3>1, <3>2
  <2>9. CASE n < k
    <3>1. f[n] <= g[n] /\ Weight(less, S, n) <= Weight(more, T, n) /\ ~(k < n + 1)
      BY <1>3, <2>3, <2>4, <2>5, <2>6, <2>9
    <3>2. f[n + 1] <= g[n + 1]
      BY <2>2, <2>3, <2>6, <3>1
    <3> QED BY <2>2, <2>3, <2>6, <3>1, <3>2
  <2> QED BY <1>3, <2>7, <2>8, <2>9
<1>6. End \in N
  <2> HIDE DEF N
  <2> QED BY <1>3, <1>4, <1>5, AllNumbers
<1> QED BY <1>1, <1>2, <1>3, <1>6

LEMMA TotalGrows ==
  ASSUME NEW less \in Counts, NEW S, NEW more \in Counts, NEW T,
         \A t \in Moment : Weight(less, S, t) <= Weight(more, T, t)
  PROVE  Total(less, S) <= Total(more, T)
<1>1. 0 \in Moment
  BY MomentsAre
<1>2. \A t \in Moment : Weight(less, S, t) \in Nat /\ Weight(more, T, t) \in Nat
  BY WeighedIs
<1>3. Total(less, S) + 0 <= Total(more, T) + 0
  BY <1>1, <1>2, TotalDiffers
<1> QED BY <1>3, TotalIsNat

\* What is in one of two parts.
LEMMA TotalOfParts ==
  ASSUME NEW bag \in Counts, NEW S, NEW T, NEW U, U \subseteq S \cup T
  PROVE  Total(bag, U) <= Total(bag, S) + Total(bag, T)
<1>1. PICK f \in [0 .. End -> Nat] : Sums(f, bag, S) /\ Total(bag, S) = f[End]
  BY SumsExist
<1>2. PICK g \in [0 .. End -> Nat] : Sums(g, bag, T) /\ Total(bag, T) = g[End]
  BY SumsExist
<1>3. PICK h \in [0 .. End -> Nat] : Sums(h, bag, U) /\ Total(bag, U) = h[End]
  BY SumsExist
<1> DEFINE N == {n \in Nat : n <= End => h[n] <= f[n] + g[n]}
<1>4. End \in Nat
  BY MomentsAre
<1>5. 0 \in N
  BY <1>1, <1>2, <1>3 DEF Sums, SumsTo
<1>6. ASSUME NEW n \in Nat, n \in N PROVE n + 1 \in N
  <2> SUFFICES ASSUME n + 1 <= End PROVE h[n + 1] <= f[n + 1] + g[n + 1]
    OBVIOUS
  <2>1. n + 1 \in 1 .. End /\ (n + 1) - 1 = n /\ n \in 0 .. End /\ n \in Moment
    BY MomentsAre
  <2>2. /\ f[n + 1] = f[n] + Weight(bag, S, n) /\ g[n + 1] = g[n] + Weight(bag, T, n)
        /\ h[n + 1] = h[n] + Weight(bag, U, n)
    BY <1>1, <1>2, <1>3, <2>1 DEF Sums, SumsTo
  <2>3. /\ Weight(bag, S, n) \in Nat /\ Weight(bag, T, n) \in Nat /\ Weight(bag, U, n) \in Nat
    BY <2>1, WeighedIs
  <2>4. Weight(bag, U, n) <= Weight(bag, S, n) + Weight(bag, T, n)
    BY <2>1, <2>3 DEF Weight
  <2>5. f[n] \in Nat /\ g[n] \in Nat /\ h[n] \in Nat /\ h[n] <= f[n] + g[n]
    BY <1>6, <2>1
  <2>6. h[n] + Weight(bag, U, n) <= (f[n] + Weight(bag, S, n)) + (g[n] + Weight(bag, T, n))
    BY <2>3, <2>4, <2>5, AddedUpTwice
  <2> QED BY <2>2, <2>6
<1>7. End \in N
  <2> HIDE DEF N
  <2> QED BY <1>4, <1>5, <1>6, AllNumbers
<1> QED BY <1>1, <1>2, <1>3, <1>4, <1>7

LEMMA NothingIsNone ==
  ASSUME NEW bag \in Counts, NEW S, \A t \in Moment : Weight(bag, S, t) = 0
  PROVE  Total(bag, S) = 0
<1>1. PICK f \in [0 .. End -> Nat] : Sums(f, bag, S) /\ Total(bag, S) = f[End]
  BY SumsExist
<1> DEFINE N == {n \in Nat : n <= End => f[n] = 0}
<1>2. End \in Nat /\ 0 \in N
  BY <1>1, MomentsAre DEF Sums, SumsTo
<1>3. ASSUME NEW n \in Nat, n \in N PROVE n + 1 \in N
  <2> SUFFICES ASSUME n + 1 <= End PROVE f[n + 1] = 0
    OBVIOUS
  <2>1. n + 1 \in 1 .. End /\ (n + 1) - 1 = n /\ n \in Moment /\ n <= End
    BY MomentsAre
  <2> QED BY <1>1, <1>3, <2>1 DEF Sums, SumsTo
<1>4. End \in N
  <2> HIDE DEF N
  <2> QED BY <1>2, <1>3, AllNumbers
<1> QED BY <1>1, <1>2, <1>4

\* A set of numbers that is not empty has a least one.
LEMMA MinIs ==
  ASSUME NEW S, S \subseteq Nat, S # {}
  PROVE  Min(S) \in S /\ \A x \in S : Min(S) <= x
<1>1. PLess = OpToRel(<, Nat)
  BY DEF PLess, OpToRel
<1>2. IsWellFoundedOn(PLess, Nat)
  BY <1>1, NatLessThanWellFounded
<1>3. PICK n \in S : \A k \in S : <<k, n>> \notin PLess
  BY <1>2, WFMin
<1>4. \A k \in S : n <= k
  <2> SUFFICES ASSUME NEW k \in S PROVE n <= k
    OBVIOUS
  <2>1. k \in Nat /\ n \in Nat /\ <<k, n>> \notin PLess
    BY <1>3
  <2> QED BY <2>1 DEF PLess
<1> QED BY <1>4 DEF Min

LEMMA MinOfTwo == ASSUME NEW a \in Nat, NEW b \in Nat PROVE Min({a, b}) \in {a, b} /\ Min({a, b}) <= a /\ Min({a, b}) <= b
  BY MinIs

LEMMA Division ==
  ASSUME NEW a \in Nat, NEW b \in Nat, b > 0
  PROVE  a \div b \in Nat /\ b * (a \div b) + b > a
<1>1. a \div b \in Nat
  OBVIOUS
<1>2. b * (a \div b) + b > a
  OBVIOUS
<1> QED BY <1>1, <1>2

\* Rounding up loses nothing, rounding to the nearest less than half a second.
LEMMA Roundings ==
  ASSUME NEW left \in Nat
  PROVE  /\ left \div Second \in Nat /\ Second * (left \div Second + 1) > left
         /\ RoundedUp(left) \in Nat /\ Second * RoundedUp(left) >= left
         /\ Rounded(left) \in Nat /\ 2 * (Second * Rounded(left)) + Second > 2 * left
<1>2. /\ Second \in Nat /\ Second > 0 /\ left + Second - 1 \in Nat
      /\ 2 * left + Second \in Nat /\ 2 * Second \in Nat /\ 2 * Second > 0
  BY LimiterAssumption
<1>3. left \div Second \in Nat /\ Second * (left \div Second) + Second > left
  BY Division, <1>2
<1>4. RoundedUp(left) \in Nat /\ Second * RoundedUp(left) + Second > left + Second - 1
  BY Division, <1>2 DEF RoundedUp
<1>5. Rounded(left) \in Nat /\ (2 * Second) * Rounded(left) + 2 * Second > 2 * left + Second
  BY Division, <1>2 DEF Rounded
<1>6. \A q \in Nat : Second * q \in Nat /\ Second * (q + 1) = Second * q + Second /\ (2 * Second) * q = 2 * (Second * q)
  BY <1>2
<1>7. Second * (left \div Second + 1) > left
  BY <1>3, <1>6
<1>8. Second * RoundedUp(left) >= left
  BY <1>2, <1>4, <1>6
<1>9. 2 * (Second * Rounded(left)) + Second > 2 * left
  BY <1>2, <1>5, <1>6
<1> QED BY <1>3, <1>4, <1>5, <1>7, <1>8, <1>9

-----------------------------------------------------------------------------
(* The limiter: its invariant.                                             *)

\* The clocks that are the least and the most ahead.
Lo == Min({ahead[p] : p \in Process})
Hi == Max({ahead[p] : p \in Process})

LimiterTyped ==
  /\ memory \in BOOLEAN /\ sliding \in BOOLEAN
  /\ ahead \in [Process -> {0, MaxAhead}] /\ (memory \/ ~sliding => \A p \in Process : ahead[p] = 0)
  /\ now \in 0 .. MaxNow
  /\ hits \in [Counter -> Counts] /\ served \in [Counter -> Counts]
  /\ count \in [Counter -> Nat] /\ ends \in [Counter -> Nat]
  /\ answering \in BOOLEAN /\ coolUntil \in [Process -> Nat] /\ downAt \in 0 .. now
  /\ promised \in [Counter -> Nat] /\ overdue \in Nat /\ uncounted \in Nat

From(x) == {t \in Moment : t >= x}
StillIn(clock) == {t \in Moment : t + Span > clock}
Before(x) == {t \in Moment : t + Span < x}

\* Sliding: the counter holds all that was let through and is in the window by every clock, if
\* one ignores the order in which the servers' clocks have put it.  At the promised moment a
\* request that is counted now is not.
SlidingKept(c) ==
  /\ Total(hits[c], Moment) <= Most
  /\ \A x \in StillIn(now + Skew) : Total(served[c], From(x)) <= Total(hits[c], From(x + Lo))
  /\ \A t \in Moment : served[c][t] > 0 => t <= now /\ t + Span <= ends[c]
  /\ promised[c] <= MaxNow => Total(hits[c], StillIn(promised[c] + Hi)) < Most

\* Fixed: what was let through is of the present window or of the one before.
FixedKept(c) ==
  /\ ends[c] <= now + Span
  /\ now < ends[c] => count[c] > 0
  /\ \A t \in Moment : served[c][t] > 0 => t < ends[c] /\ t + Span > now
  /\ Total(served[c], Before(ends[c])) <= Most
  /\ Total(served[c], Moment \ Before(ends[c])) <= Most
  /\ Total(served[c], Moment \ Before(ends[c])) <= count[c]
  /\ promised[c] <= MaxNow => /\ 2 * promised[c] + Second > 2 * ends[c]
                              /\ memory => promised[c] > ends[c]

Kept(c) == IF sliding THEN SlidingKept(c) ELSE FixedKept(c)

\* Nobody leaves Redis alone for longer than a cool-down after it was down.
OutageEnds ==
  /\ ~answering => downAt = now
  /\ \A p \in Process : coolUntil[p] <= downAt + Cooldown * Second
  /\ CountedAgain

LimiterInv == LimiterTyped /\ (\A c \in Counter : Kept(c)) /\ RetryAfterHolds /\ OutageEnds

LEMMA SpanIs ==
  /\ Span \in Nat /\ Span > 0 /\ MaxAhead \in Nat /\ MaxNow \in Nat
  /\ MaxAhead < Span /\ Most \in Nat /\ Most > 0
<1>1. Window * Second \in Nat /\ Window * Second > 0
  BY LimiterAssumption
<1> QED BY <1>1, LimiterAssumption DEF Span

LEMMA ClocksAre ==
  ASSUME LimiterTyped
  PROVE  /\ Lo \in Nat /\ Hi \in Nat /\ Hi <= MaxAhead /\ Lo <= Hi /\ Skew = Hi - Lo
         /\ \A p \in Process : ahead[p] \in Nat /\ Lo <= ahead[p] /\ ahead[p] <= Hi
         /\ memory \/ ~sliding => Hi = 0 /\ Lo = 0
<1> DEFINE S == {ahead[p] : p \in Process}
<1>1. S \subseteq {0, MaxAhead} /\ S # {} /\ MaxAhead \in Nat
  BY LimiterAssumption, SpanIs DEF LimiterTyped
<1>2. \A p \in Process : ahead[p] \in S
  OBVIOUS
<1>3. memory \/ ~sliding => S \subseteq {0}
  BY DEF LimiterTyped
<1>4. Lo = Min(S) /\ Hi = Max(S) /\ Skew = Max(S) - Min(S)
  BY DEF Lo, Hi, Skew
<1> HIDE DEF S
<1>5. S \subseteq Nat /\ \A x \in S : x <= MaxAhead
  BY <1>1
<1>6. Min(S) \in S /\ \A x \in S : Min(S) <= x
  BY <1>1, <1>5, MinIs
<1>7. \E y \in S : \A x \in S : y >= x
  <2>1. CASE MaxAhead \in S
    BY <1>5, <2>1
  <2>2. CASE MaxAhead \notin S
    <3>1. 0 \in S /\ S = {0}
      BY <1>1, <2>2
    <3> QED BY <3>1
  <2> QED BY <2>1, <2>2
<1>8. Max(S) \in S /\ \A x \in S : Max(S) >= x
  BY <1>7 DEF Max
<1>9. Min(S) <= Max(S) /\ Max(S) <= MaxAhead /\ Min(S) \in Nat /\ Max(S) \in Nat
  BY <1>5, <1>6, <1>8
<1>10. \A p \in Process : ahead[p] \in Nat /\ Min(S) <= ahead[p] /\ ahead[p] <= Max(S)
  BY <1>2, <1>5, <1>6, <1>8
<1> QED BY <1>3, <1>4, <1>6, <1>8, <1>9, <1>10

LEMMA RequestIs ==
  ASSUME LimiterTyped, NEW p \in Process
  PROVE  /\ CounterOf(p) \in Counter /\ now \in Moment /\ now \in Nat /\ now <= MaxNow
         /\ ClockOf(p) \in Moment /\ ClockOf(p) \in Nat /\ now + Lo <= ClockOf(p) /\ ClockOf(p) <= now + Hi
<1>1. now \in Nat /\ now <= MaxNow
  BY SpanIs DEF LimiterTyped
<1>2. ahead[p] \in Nat /\ Lo <= ahead[p] /\ ahead[p] <= Hi /\ Hi <= MaxAhead /\ Hi \in Nat /\ Lo \in Nat
  BY ClocksAre
<1>3. CounterOf(p) \in Counter
  BY DEF CounterOf, Counter
<1>4. now + ahead[p] \in Nat /\ now + ahead[p] <= MaxNow + MaxAhead
  BY <1>1, <1>2, SpanIs
<1> QED BY <1>1, <1>2, <1>3, <1>4, SpanIs DEF ClockOf, Moment

\* What is still in the window.
LEMMA FreshIs ==
  ASSUME LimiterTyped, NEW c \in Counter, NEW clock \in Nat, NEW fresh, fresh = InWindow(c, clock)
  PROVE  /\ fresh \in Counts
         /\ \A S : Total(fresh, S) <= Total(hits[c], S)
         /\ Total(fresh, Moment) <= Total(hits[c], StillIn(clock))
         /\ \A x \in Moment : ~Expired(c) /\ x + Span > clock => Total(hits[c], From(x)) <= Total(fresh, From(x))
         /\ Expired(c) => Total(fresh, Moment) = 0
<1>1. hits[c] \in Counts
  BY DEF LimiterTyped
<1>2. fresh \in Counts
  BY <1>1 DEF InWindow, Counts
<1>3. \A t \in Moment : fresh[t] = IF Expired(c) \/ t + Span <= clock THEN 0 ELSE hits[c][t]
  BY DEF InWindow
<1>4. \A t \in Moment : fresh[t] \in Nat /\ hits[c][t] \in Nat /\ t \in Nat
  BY <1>1, <1>2, MomentsAre DEF Counts
<1>5. ASSUME NEW S PROVE Total(fresh, S) <= Total(hits[c], S)
  <2>1. \A t \in Moment : Weight(fresh, S, t) <= Weight(hits[c], S, t)
    BY <1>3, <1>4 DEF Weight
  <2> QED BY <1>1, <1>2, <2>1, TotalGrows
<1>6. Total(fresh, Moment) <= Total(hits[c], StillIn(clock))
  <2>1. \A t \in Moment : Weight(fresh, Moment, t) <= Weight(hits[c], StillIn(clock), t)
    BY <1>3, <1>4, SpanIs DEF Weight, StillIn
  <2> QED BY <1>1, <1>2, <2>1, TotalGrows
<1>7. ASSUME NEW x \in Moment, ~Expired(c), x + Span > clock PROVE Total(hits[c], From(x)) <= Total(fresh, From(x))
  <2>1. \A t \in Moment : Weight(hits[c], From(x), t) <= Weight(fresh, From(x), t)
    BY <1>3, <1>4, <1>7, SpanIs DEF Weight, From
  <2> QED BY <1>1, <1>2, <2>1, TotalGrows
<1>8. ASSUME Expired(c) PROVE Total(fresh, Moment) = 0
  <2>1. \A t \in Moment : Weight(fresh, Moment, t) = 0
    BY <1>3, <1>8 DEF Weight
  <2> QED BY <1>2, <2>1, NothingIsNone
<1> QED BY <1>2, <1>5, <1>6, <1>7, <1>8

FreshOf(p) == InWindow(CounterOf(p), ClockOf(p))

\* One request more.
Up(bag, k) == [bag EXCEPT ![k] = @ + 1]

LEMMA OneMore ==
  ASSUME NEW bag \in Counts, NEW k \in Moment
  PROVE  /\ Up(bag, k) \in Counts
         /\ \A t \in Moment : Up(bag, k)[t] = IF t = k THEN bag[t] + 1 ELSE bag[t]
         /\ \A S : /\ Total(Up(bag, k), S) <= Total(bag, S) + 1 /\ Total(bag, S) <= Total(Up(bag, k), S)
                   /\ k \in S => Total(bag, S) + 1 <= Total(Up(bag, k), S)
                   /\ k \notin S => Total(Up(bag, k), S) <= Total(bag, S)
<1> DEFINE more == Up(bag, k)
<1>1. more \in Counts /\ \A t \in Moment : more[t] = IF t = k THEN bag[t] + 1 ELSE bag[t]
  BY DEF Counts, Up
<1> HIDE DEF more
<1>2. \A t \in Moment : bag[t] \in Nat /\ more[t] \in Nat
  BY <1>1 DEF Counts
<1>3. ASSUME NEW S
      PROVE  /\ Total(more, S) <= Total(bag, S) + 1 /\ Total(bag, S) <= Total(more, S)
             /\ k \in S => Total(bag, S) + 1 <= Total(more, S)
             /\ k \notin S => Total(more, S) <= Total(bag, S)
  <2>1. Total(more, S) \in Nat /\ Total(bag, S) \in Nat
    BY <1>1, TotalIsNat
  <2>2. Total(more, S) <= Total(bag, S) + 1
    <3>1. \A t \in Moment : Weight(more, S, t) + (IF t = k THEN 0 ELSE 0) <= Weight(bag, S, t) + (IF t = k THEN 1 ELSE 0)
      BY <1>1, <1>2 DEF Weight
    <3>2. Total(more, S) + 0 <= Total(bag, S) + 1
      BY <1>1, <3>1, TotalDiffers
    <3> QED BY <2>1, <3>2
  <2>3. Total(bag, S) <= Total(more, S)
    <3>1. \A t \in Moment : Weight(bag, S, t) <= Weight(more, S, t)
      BY <1>1, <1>2 DEF Weight
    <3> QED BY <1>1, <3>1, TotalGrows
  <2>4. ASSUME k \in S PROVE Total(bag, S) + 1 <= Total(more, S)
    <3>1. \A t \in Moment : Weight(bag, S, t) + (IF t = k THEN 1 ELSE 0) <= Weight(more, S, t) + (IF t = k THEN 0 ELSE 0)
      BY <1>1, <1>2, <2>4 DEF Weight
    <3>2. Total(bag, S) + 1 <= Total(more, S) + 0
      BY <1>1, <3>1, TotalDiffers
    <3> QED BY <2>1, <3>2
  <2>5. ASSUME k \notin S PROVE Total(more, S) <= Total(bag, S)
    <3>1. \A t \in Moment : Weight(more, S, t) <= Weight(bag, S, t)
      BY <1>1, <1>2, <2>5 DEF Weight
    <3> QED BY <1>1, <3>1, TotalGrows
  <2> QED BY <2>2, <2>3, <2>4, <2>5
<1> QED BY <1>1, <1>3 DEF more

LEMMA SameClocks ==
  ASSUME ahead' = ahead PROVE Lo' = Lo /\ Hi' = Hi /\ Skew' = Skew
  BY DEF Lo, Hi, Skew

\* A counter that a step leaves alone.
LEMMA UntouchedKept ==
  ASSUME NEW c \in Counter, Kept(c), UNCHANGED <<memory, sliding, ahead, now>>,
         hits'[c] = hits[c], served'[c] = served[c], count'[c] = count[c], ends'[c] = ends[c], promised'[c] = promised[c]
  PROVE  Kept(c)'
<1>1. Lo' = Lo /\ Hi' = Hi /\ Skew' = Skew
  BY SameClocks
<1>2. SlidingKept(c) => SlidingKept(c)'
  BY <1>1 DEF SlidingKept, StillIn
<1>3. FixedKept(c) => FixedKept(c)'
  BY DEF FixedKept
<1> QED BY <1>2, <1>3 DEF Kept

LEMMA SlidePassIs ==
  ASSUME NEW p \in Process, Hit(p), sliding,
         NEW c, c = CounterOf(p), Total(FreshOf(p), Moment) < Most
  PROVE  /\ UNCHANGED <<memory, sliding, ahead, now, count, answering, coolUntil, downAt, uncounted>>
         /\ hits' = [hits EXCEPT ![c] = Up(FreshOf(p), ClockOf(p))] /\ served' = [served EXCEPT ![c] = Up(served[c], now)]
         /\ ends' = [ends EXCEPT ![c] = now + Span]
         /\ promised' = [promised EXCEPT ![c] = MaxNow + 1] /\ overdue' = overdue
<1>1. Passes(p) /\ CounterOf(p) = c
  BY DEF Passes, SlidePasses, FreshOf
<1>2. /\ UNCHANGED <<memory, sliding, ahead, now, count, answering, coolUntil, downAt, uncounted>>
      /\ ends' = [ends EXCEPT ![c] = now + Span]
      /\ promised' = [promised EXCEPT ![c] = MaxNow + 1] /\ overdue' = overdue
  BY <1>1 DEF Hit, Slide, NewEnd, FreshOf, SlidePasses, settings, breaker
<1>3. hits' = [hits EXCEPT ![c] = Up(FreshOf(p), ClockOf(p))]
  BY <1>1 DEF Hit, Slide, FreshOf, Up
<1>4. served' = [served EXCEPT ![c] = Up(served[c], now)]
  BY <1>1 DEF Hit, Up
<1> QED BY <1>2, <1>3, <1>4

LEMMA SlideRefusalIs ==
  ASSUME NEW p \in Process, Hit(p), sliding,
         NEW c, c = CounterOf(p), ~(Total(FreshOf(p), Moment) < Most)
  PROVE  /\ UNCHANGED <<memory, sliding, ahead, now, count, answering, coolUntil, downAt, uncounted>>
         /\ hits' = [hits EXCEPT ![c] = FreshOf(p)] /\ ends' = ends /\ served' = served
         /\ promised' = [promised EXCEPT ![c] = Min({@, now + Second * RetryAfter(p)})]
         /\ overdue' = IF promised[c] <= now THEN Larger(overdue, now - promised[c] + 1) ELSE overdue
BY DEF Hit, Slide, Passes, SlidePasses, FreshOf, NewEnd, settings, breaker

LEMMA LaterIsLess ==
  ASSUME NEW bag \in Counts, NEW S, NEW T, S \cap Moment \subseteq T PROVE Total(bag, S) <= Total(bag, T)
<1>1. \A t \in Moment : bag[t] \in Nat
  BY DEF Counts
<1>2. \A t \in Moment : Weight(bag, S, t) <= Weight(bag, T, t)
  BY <1>1 DEF Weight
<1> QED BY <1>2, TotalGrows

\* Sliding: what was let through and is in the window by every clock is among what is fresh.
LEMMA FreshCovers ==
  ASSUME LimiterTyped, sliding, NEW p \in Process, NEW c, c = CounterOf(p), SlidingKept(c),
         NEW x \in StillIn(now + Skew)
  PROVE  Total(served[c], From(x)) <= Total(FreshOf(p), From(x + Lo))
<1>1. c \in Counter /\ ClockOf(p) \in Nat /\ ClockOf(p) <= now + Hi /\ now \in Nat /\ now <= MaxNow
  BY RequestIs
<1>2. x \in Moment /\ x \in Nat /\ x + Span > now + Skew
  BY MomentsAre DEF StillIn
<1>3. Lo \in Nat /\ Hi \in Nat /\ Hi <= MaxAhead /\ Lo <= Hi /\ Skew = Hi - Lo
  BY ClocksAre
<1>4. served[c] \in Counts /\ hits[c] \in Counts /\ FreshOf(p) \in Counts
  BY <1>1, FreshIs DEF FreshOf, LimiterTyped
<1>5. CASE Expired(c)
  <2>1. \A t \in Moment : Weight(served[c], From(x), t) = 0
    <3> SUFFICES ASSUME NEW t \in Moment, t \in From(x) PROVE served[c][t] = 0
      BY DEF Weight
    <3>1. served[c][t] \in Nat /\ t \in Nat /\ t >= x
      BY <1>4, MomentsAre DEF Counts, From
    <3>2. served[c][t] > 0 => t + Span <= now
      <4>1. ends[c] \in Nat /\ ends[c] <= now
        BY <1>1, <1>5 DEF Expired, LimiterTyped
      <4> QED BY <1>1, <3>1, <4>1, SpanIs DEF SlidingKept
    <3> QED BY <1>1, <1>2, <1>3, <3>1, <3>2, SpanIs
  <2>2. Total(served[c], From(x)) = 0
    BY <1>4, <2>1, NothingIsNone
  <2> QED BY <1>4, <2>2, TotalIsNat
<1>6. CASE ~Expired(c)
  <2>1. Total(served[c], From(x)) <= Total(hits[c], From(x + Lo))
    BY DEF SlidingKept
  <2>2. x + Lo + Span > ClockOf(p)
    BY <1>1, <1>2, <1>3, SpanIs
  <2>3. Total(hits[c], From(x + Lo)) <= Total(FreshOf(p), From(x + Lo))
    <3>1. CASE x + Lo \in Moment
      BY <1>1, <1>6, <2>2, <3>1, FreshIs DEF FreshOf
    <3>2. CASE x + Lo \notin Moment
      <4>1. \A t \in Moment : Weight(hits[c], From(x + Lo), t) = 0
        <5>1. From(x + Lo) = {}
          BY <1>2, <1>3, <3>2, SpanIs DEF From, Moment
        <5> QED BY <5>1 DEF Weight
      <4>2. Total(hits[c], From(x + Lo)) = 0
        BY <1>4, <4>1, NothingIsNone
      <4> QED BY <1>4, <4>2, TotalIsNat
    <3> QED BY <3>1, <3>2
  <2> QED BY <1>4, <2>1, <2>3, TotalIsNat
<1> QED BY <1>5, <1>6

LEMMA SlidePassKeeps ==
  ASSUME LimiterTyped, sliding, NEW p \in Process, Hit(p), NEW c, c = CounterOf(p), SlidingKept(c),
         Total(FreshOf(p), Moment) < Most
  PROVE  LimiterTyped' /\ SlidingKept(c)' /\ overdue' = overdue
<1>1. c \in Counter /\ ClockOf(p) \in Moment /\ ClockOf(p) \in Nat /\ now \in Moment /\ now + Lo <= ClockOf(p)
      /\ now \in Nat /\ now <= MaxNow
  BY RequestIs
<1>2. served[c] \in Counts /\ hits[c] \in Counts /\ FreshOf(p) \in Counts
  BY <1>1, FreshIs DEF FreshOf, LimiterTyped
<1> DEFINE more == Up(FreshOf(p), ClockOf(p))
           through == Up(served[c], now)
<1>3. /\ hits' = [hits EXCEPT ![c] = more] /\ served' = [served EXCEPT ![c] = through]
      /\ ends' = [ends EXCEPT ![c] = now + Span]
      /\ promised' = [promised EXCEPT ![c] = MaxNow + 1] /\ overdue' = overdue
      /\ UNCHANGED <<memory, sliding, ahead, now, count, answering, coolUntil, downAt, uncounted>>
  <2>1. hits' = [hits EXCEPT ![c] = more]
    BY SlidePassIs
  <2>2. served' = [served EXCEPT ![c] = through]
    BY SlidePassIs
  <2>3. /\ ends' = [ends EXCEPT ![c] = now + Span]
        /\ promised' = [promised EXCEPT ![c] = MaxNow + 1] /\ overdue' = overdue
        /\ UNCHANGED <<memory, sliding, ahead, now, count, answering, coolUntil, downAt, uncounted>>
    BY SlidePassIs
  <2> QED BY <2>1, <2>2, <2>3
<1>4. /\ more \in Counts
      /\ \A S : /\ Total(more, S) <= Total(FreshOf(p), S) + 1 /\ Total(FreshOf(p), S) <= Total(more, S)
                /\ ClockOf(p) \in S => Total(FreshOf(p), S) + 1 <= Total(more, S)
  BY <1>1, <1>2, OneMore
<1>5. /\ through \in Counts /\ \A t \in Moment : through[t] = IF t = now THEN served[c][t] + 1 ELSE served[c][t]
      /\ \A S : /\ Total(through, S) <= Total(served[c], S) + 1
                /\ now \notin S => Total(through, S) <= Total(served[c], S)
  BY <1>1, <1>2, OneMore
<1> HIDE DEF more, through
<1>6. hits'[c] = more /\ served'[c] = through /\ ends'[c] = now + Span /\ promised'[c] = MaxNow + 1
  BY <1>1, <1>3 DEF LimiterTyped
<1>7. LimiterTyped'
  BY <1>1, <1>4, <1>5, <1>3, SpanIs DEF LimiterTyped
<1>8. Total(hits'[c], Moment) <= Most
  <2>1. /\ Total(more, Moment) <= Total(FreshOf(p), Moment) + 1
        /\ Total(FreshOf(p), Moment) \in Nat /\ Total(more, Moment) \in Nat
    BY <1>2, <1>4, TotalIsNat
  <2> QED BY <1>6, <2>1, SpanIs
<1>9. ASSUME NEW x \in StillIn(now + Skew) PROVE Total(served'[c], From(x)) <= Total(hits'[c], From(x + Lo))
  <2>1. Total(served[c], From(x)) <= Total(FreshOf(p), From(x + Lo))
    BY FreshCovers
  <2>2. /\ Total(served[c], From(x)) \in Nat /\ Total(FreshOf(p), From(x + Lo)) \in Nat
        /\ Total(through, From(x)) \in Nat /\ Total(more, From(x + Lo)) \in Nat
    BY <1>2, <1>4, <1>5, TotalIsNat
  <2>3. x \in Nat /\ Lo \in Nat
    BY MomentsAre, ClocksAre DEF StillIn
  <2>4. CASE x <= now
    <3>1. ClockOf(p) \in From(x + Lo)
      BY <1>1, <2>3, <2>4 DEF From
    <3>2. /\ Total(through, From(x)) <= Total(served[c], From(x)) + 1
          /\ Total(FreshOf(p), From(x + Lo)) + 1 <= Total(more, From(x + Lo))
      BY <1>4, <1>5, <3>1
    <3> QED BY <1>6, <2>1, <2>2, <3>2
  <2>5. CASE ~(x <= now)
    <3>1. now \notin From(x)
      BY <2>5 DEF From
    <3>2. /\ Total(through, From(x)) <= Total(served[c], From(x))
          /\ Total(FreshOf(p), From(x + Lo)) <= Total(more, From(x + Lo))
      BY <1>4, <1>5, <3>1
    <3> QED BY <1>6, <2>1, <2>2, <3>2
  <2> QED BY <2>4, <2>5
<1>10. ASSUME NEW t \in Moment, served'[c][t] > 0 PROVE t <= now /\ t + Span <= ends'[c]
  <2>1. CASE t = now
    BY <1>1, <1>6, <2>1, SpanIs
  <2>2. CASE t # now
    <3>1. served[c][t] > 0
      BY <1>5, <1>6, <1>10, <2>2
    <3>2. t <= now /\ t \in Nat
      BY <3>1, MomentsAre DEF SlidingKept
    <3> QED BY <1>1, <1>6, <3>2, SpanIs
  <2> QED BY <2>1, <2>2
<1>11. ~(promised'[c] <= MaxNow)
  BY <1>6, SpanIs
<1>12. Lo' = Lo /\ Hi' = Hi /\ Skew' = Skew
  BY <1>3, SameClocks
<1>13. SlidingKept(c)'
  BY <1>3, <1>8, <1>9, <1>10, <1>11, <1>12 DEF SlidingKept, StillIn
<1> QED BY <1>3, <1>7, <1>13

LEMMA LargerIs ==
  ASSUME NEW a \in Nat, NEW b \in Nat
  PROVE  Larger(a, b) \in {a, b} /\ Larger(a, b) >= a /\ Larger(a, b) >= b
  BY DEF Larger

\* What is told to a request that is refused: it is not less than what is left, of a second or more.
LEMMA RetryAfterIs ==
  ASSUME NEW p \in Process, Left(p) \in Nat
  PROVE  /\ RetryAfter(p) \in Nat /\ Second * RetryAfter(p) \in Nat
         /\ memory => Second * RetryAfter(p) > Left(p)
         /\ sliding => Second * RetryAfter(p) >= Left(p)
         /\ 2 * (Second * RetryAfter(p)) + Second > 2 * Left(p)
<1> DEFINE left == Left(p)
           said == IF memory THEN left \div Second + 1
                   ELSE IF sliding THEN RoundedUp(left) ELSE Rounded(left)
<1>1. /\ left \div Second \in Nat /\ Second * (left \div Second + 1) > left
      /\ RoundedUp(left) \in Nat /\ Second * RoundedUp(left) >= left
      /\ Rounded(left) \in Nat /\ 2 * (Second * Rounded(left)) + Second > 2 * left
  BY Roundings
<1>2. Second \in Nat /\ Second > 0 /\ \A q \in Nat : Second * q \in Nat
  BY LimiterAssumption
<1>3. RetryAfter(p) = Larger(1, said)
  BY DEF RetryAfter
<1> HIDE DEF left
<1>4. said \in Nat
  BY <1>1
<1>5. memory => said = left \div Second + 1
  OBVIOUS
<1>6. ~memory /\ sliding => said = RoundedUp(left)
  OBVIOUS
<1>7. ~memory /\ ~sliding => said = Rounded(left)
  OBVIOUS
<1> HIDE DEF said
<1>8. Larger(1, said) \in Nat /\ Larger(1, said) >= said
  BY <1>4, LargerIs
<1>9. \A a, b \in Nat : a >= b => Second * a >= Second * b
  BY <1>2
<1>10. Second * Larger(1, said) >= Second * said /\ Second * said \in Nat /\ Second * Larger(1, said) \in Nat
  BY <1>2, <1>4, <1>8, <1>9
<1>11. left \in Nat
  BY DEF left
<1>12. memory => Second * said > left
  BY <1>1, <1>5
<1>13. sliding => Second * said >= left
  <2>1. CASE memory
    BY <1>10, <1>11, <1>12, <2>1
  <2>2. CASE ~memory
    BY <1>1, <1>6, <2>2
  <2> QED BY <2>1, <2>2
<1>14. 2 * (Second * said) + Second > 2 * left
  <2>1. CASE ~memory /\ ~sliding
    BY <1>1, <1>7, <2>1
  <2>2. CASE memory \/ sliding
    BY <1>2, <1>10, <1>11, <1>12, <1>13, <2>2
  <2> QED BY <2>1, <2>2
<1>15. /\ memory => Second * Larger(1, said) > left
       /\ sliding => Second * Larger(1, said) >= left
       /\ 2 * (Second * Larger(1, said)) + Second > 2 * left
  BY <1>2, <1>10, <1>11, <1>12, <1>13, <1>14
<1> QED BY <1>3, <1>8, <1>10, <1>15 DEF left

\* Who is refused in a sliding window is told when the oldest request leaves it.
LEMMA SlideLeft ==
  ASSUME LimiterTyped, sliding, NEW p \in Process, ~(Total(FreshOf(p), Moment) < Most)
  PROVE  \E o \in Moment : /\ FreshOf(p)[o] > 0
                           /\ Left(p) \in Nat /\ o + Span = ClockOf(p) + Left(p)
<1>1. ClockOf(p) \in Nat /\ CounterOf(p) \in Counter
  BY RequestIs
<1>2. FreshOf(p) \in Counts
  BY <1>1, FreshIs DEF FreshOf
<1>3. \E t \in Moment : FreshOf(p)[t] > 0
  <2> SUFFICES ASSUME \A t \in Moment : ~(FreshOf(p)[t] > 0) PROVE FALSE
    OBVIOUS
  <2>1. \A t \in Moment : Weight(FreshOf(p), Moment, t) = 0
    BY <1>2 DEF Weight, Counts
  <2>2. Total(FreshOf(p), Moment) = 0
    BY <1>2, <2>1, NothingIsNone
  <2> QED BY <2>2, SpanIs
<1> DEFINE S == {t \in Moment : FreshOf(p)[t] > 0}
<1>4. S \subseteq Nat /\ S # {}
  BY <1>3, MomentsAre
<1>5. Left(p) = Min(S) + Span - ClockOf(p)
  BY DEF Left, FreshOf
<1>6. \A t \in S : t \in Moment /\ t \in Nat /\ FreshOf(p)[t] > 0 /\ t + Span > ClockOf(p)
  <2> SUFFICES ASSUME NEW t \in Moment, FreshOf(p)[t] > 0 PROVE t \in Nat /\ t + Span > ClockOf(p)
    OBVIOUS
  <2>1. ~(t + Span <= ClockOf(p))
    BY DEF FreshOf, InWindow
  <2> QED BY <1>1, <2>1, MomentsAre, SpanIs
<1> HIDE DEF S
<1>7. Min(S) \in S
  BY <1>4, MinIs
<1> QED BY <1>1, <1>5, <1>6, <1>7, SpanIs

LEMMA SlideRefusalKeeps ==
  ASSUME LimiterTyped, RetryAfterHolds, sliding, NEW p \in Process, Hit(p), NEW c, c = CounterOf(p), SlidingKept(c),
         ~(Total(FreshOf(p), Moment) < Most)
  PROVE  LimiterTyped' /\ SlidingKept(c)' /\ RetryAfterHolds'
<1>1. /\ c \in Counter /\ now \in Nat /\ now <= MaxNow
      /\ ClockOf(p) \in Nat /\ now + Lo <= ClockOf(p) /\ ClockOf(p) <= now + Hi
  BY RequestIs
<1>2. /\ Lo \in Nat /\ Hi \in Nat /\ Hi <= MaxAhead /\ Lo <= Hi /\ Skew = Hi - Lo
      /\ memory => Hi = 0 /\ Lo = 0
  BY ClocksAre
<1>3. hits[c] \in Counts /\ FreshOf(p) \in Counts
  BY <1>1, FreshIs DEF FreshOf, LimiterTyped
<1>4. promised[c] \in Nat /\ overdue \in Nat
  BY <1>1 DEF LimiterTyped
<1> DEFINE free == now + Second * RetryAfter(p)
<1>5. PICK o \in Moment : FreshOf(p)[o] > 0 /\ Left(p) \in Nat /\ o + Span = ClockOf(p) + Left(p)
  BY SlideLeft
<1>6. free \in Nat /\ o \in Nat /\ o + Span <= free + Hi
  <2>1. Second * RetryAfter(p) \in Nat /\ Second * RetryAfter(p) >= Left(p)
    BY <1>5, RetryAfterIs
  <2> QED BY <1>1, <1>2, <1>5, <2>1, SpanIs, MomentsAre
<1>7. /\ hits' = [hits EXCEPT ![c] = FreshOf(p)] /\ ends' = ends /\ served' = served
      /\ promised' = [promised EXCEPT ![c] = Min({@, free})]
      /\ overdue' = IF promised[c] <= now THEN Larger(overdue, now - promised[c] + 1) ELSE overdue
      /\ UNCHANGED <<memory, sliding, ahead, now, count, answering, coolUntil, downAt, uncounted>>
  BY SlideRefusalIs
<1> HIDE DEF free
<1>8. hits'[c] = FreshOf(p) /\ promised'[c] = Min({promised[c], free})
  BY <1>1, <1>7 DEF LimiterTyped
<1>9. promised'[c] \in {promised[c], free}
  BY <1>4, <1>6, <1>8, MinOfTwo
<1>10. Lo' = Lo /\ Hi' = Hi /\ Skew' = Skew
  BY <1>7, SameClocks
<1>11. \A S : Total(FreshOf(p), S) \in Nat /\ Total(hits[c], S) \in Nat /\ Total(FreshOf(p), S) <= Total(hits[c], S)
  BY <1>1, <1>3, FreshIs, TotalIsNat DEF FreshOf
<1>12. promised[c] <= now => now + 1 <= promised[c] + Skew
  <2> SUFFICES ASSUME promised[c] <= now, ~(now + 1 <= promised[c] + Skew) PROVE FALSE
    OBVIOUS
  <2>1. Total(hits[c], StillIn(promised[c] + Hi)) < Most
    BY <1>1, <1>4, SpanIs DEF SlidingKept
  <2>2. StillIn(ClockOf(p)) \subseteq StillIn(promised[c] + Hi)
    BY <1>1, <1>2, <1>4, SpanIs, MomentsAre DEF StillIn
  <2>3. Total(hits[c], StillIn(ClockOf(p))) <= Total(hits[c], StillIn(promised[c] + Hi))
    BY <1>3, <2>2, LaterIsLess
  <2>4. Total(FreshOf(p), Moment) <= Total(hits[c], StillIn(ClockOf(p)))
    BY <1>1, FreshIs DEF FreshOf
  <2> QED BY <1>11, <2>1, <2>3, <2>4, SpanIs
<1>13. overdue' \in Nat /\ RetryAfterHolds'
  <2>1. CASE promised[c] <= now
    <3>1. now - promised[c] + 1 \in Nat /\ now - promised[c] + 1 <= Skew
      BY <1>1, <1>2, <1>4, <1>12, <2>1
    <3>2. overdue' \in {overdue, now - promised[c] + 1}
      BY <1>4, <1>7, <2>1, <3>1, LargerIs
    <3>3. 2 * overdue <= 2 * Skew
      BY <1>2, <1>4 DEF RetryAfterHolds
    <3>6. 2 * (now - promised[c] + 1) <= 2 * Skew
      BY <1>2, <3>1
    <3>4. overdue' \in Nat /\ 2 * overdue' <= 2 * Skew
      <4>1. CASE overdue' = overdue
        BY <1>4, <3>3, <4>1
      <4>2. CASE overdue' = now - promised[c] + 1
        BY <3>1, <3>6, <4>2
      <4> QED BY <3>2, <4>1, <4>2
    <3>5. memory => Skew = 0
      BY <1>2
    <3> QED BY <1>7, <1>10, <3>4, <3>5 DEF RetryAfterHolds
  <2>2. CASE ~(promised[c] <= now)
    BY <1>4, <1>7, <1>10, <2>2 DEF RetryAfterHolds
  <2> QED BY <2>1, <2>2
<1>14. LimiterTyped'
  <2>1. promised' \in [Counter -> Nat]
    BY <1>1, <1>4, <1>6, <1>7, <1>8, <1>9 DEF LimiterTyped
  <2> QED BY <1>1, <1>3, <1>7, <1>13, <2>1 DEF LimiterTyped
<1>15. Total(hits'[c], Moment) <= Most
  BY <1>8, <1>11, SpanIs DEF SlidingKept
<1>16. ASSUME NEW x \in StillIn(now + Skew) PROVE Total(served'[c], From(x)) <= Total(hits'[c], From(x + Lo))
  BY <1>7, <1>8, FreshCovers
<1>17. ASSUME promised'[c] <= MaxNow PROVE Total(hits'[c], StillIn(promised'[c] + Hi)) < Most
  <2>1. CASE promised'[c] = promised[c]
    <3>1. Total(hits[c], StillIn(promised[c] + Hi)) < Most
      BY <1>17, <2>1 DEF SlidingKept
    <3> QED BY <1>8, <1>11, <2>1, <3>1, SpanIs
  <2>2. CASE promised'[c] = free
    <3>1. \A t \in Moment : FreshOf(p)[t] \in Nat
      BY <1>3 DEF Counts
    <3>2. o \notin StillIn(free + Hi)
      BY <1>2, <1>6, SpanIs DEF StillIn
    <3>3. \A t \in Moment : Weight(FreshOf(p), StillIn(free + Hi), t) + (IF t = o THEN 1 ELSE 0)
                              <= Weight(FreshOf(p), Moment, t) + (IF t = o THEN 0 ELSE 0)
      BY <1>5, <3>1, <3>2 DEF Weight
    <3>4. Total(FreshOf(p), StillIn(free + Hi)) + 1 <= Total(FreshOf(p), Moment) + 0
      BY <1>3, <3>3, TotalDiffers
    <3>5. Total(FreshOf(p), Moment) <= Most
      BY <1>8, <1>15
    <3> QED BY <1>8, <1>11, <2>2, <3>4, <3>5, SpanIs
  <2> QED BY <1>9, <2>1, <2>2
<1>18. SlidingKept(c)'
  BY <1>7, <1>10, <1>15, <1>16, <1>17 DEF SlidingKept, StillIn
<1> QED BY <1>13, <1>14, <1>18

-----------------------------------------------------------------------------
(* Fixed windows.                                                          *)

\* A request in a fixed window.
LEMMA StepPassIs ==
  ASSUME NEW p \in Process, Hit(p), ~sliding, NEW c, c = CounterOf(p), Counted(c) < Most
  PROVE  /\ UNCHANGED <<memory, sliding, ahead, now, hits, answering, coolUntil, downAt, uncounted>>
         /\ count' = [count EXCEPT ![c] = Min({Counted(c), Most}) + 1]
         /\ ends' = IF Counted(c) = 0 THEN [ends EXCEPT ![c] = now + Span] ELSE ends
         /\ served' = [served EXCEPT ![c] = Up(served[c], now)]
         /\ promised' = [promised EXCEPT ![c] = MaxNow + 1] /\ overdue' = overdue
<1>1. Passes(p) /\ CounterOf(p) = c
  BY DEF Passes, StepPasses
<1>2. /\ UNCHANGED <<memory, sliding, ahead, now, hits, answering, coolUntil, downAt, uncounted>>
      /\ count' = [count EXCEPT ![c] = Min({Counted(c), Most}) + 1]
      /\ ends' = IF Counted(c) = 0 THEN [ends EXCEPT ![c] = now + Span] ELSE ends
      /\ promised' = [promised EXCEPT ![c] = MaxNow + 1] /\ overdue' = overdue
  BY <1>1 DEF Hit, Step, settings, breaker
<1>3. served' = [served EXCEPT ![c] = Up(served[c], now)]
  BY <1>1 DEF Hit, Up
<1> QED BY <1>2, <1>3

LEMMA StepRefusalIs ==
  ASSUME NEW p \in Process, Hit(p), ~sliding, NEW c, c = CounterOf(p), ~(Counted(c) < Most)
  PROVE  /\ UNCHANGED <<memory, sliding, ahead, now, hits, answering, coolUntil, downAt, uncounted, served>>
         /\ count' = [count EXCEPT ![c] = Min({Counted(c), Most}) + 1]
         /\ ends' = IF Counted(c) = 0 THEN [ends EXCEPT ![c] = now + Span] ELSE ends
         /\ promised' = [promised EXCEPT ![c] = Min({@, now + Second * RetryAfter(p)})]
         /\ overdue' = IF promised[c] <= now THEN Larger(overdue, now - promised[c] + 1) ELSE overdue
<1>1. ~Passes(p) /\ CounterOf(p) = c
  BY DEF Passes, StepPasses
<1> QED BY <1>1 DEF Hit, Step, settings, breaker

LEMMA StepPassKeeps ==
  ASSUME LimiterTyped, ~sliding, NEW p \in Process, Hit(p), NEW c, c = CounterOf(p), FixedKept(c), Counted(c) < Most
  PROVE  LimiterTyped' /\ FixedKept(c)' /\ overdue' = overdue
<1>1. c \in Counter /\ now \in Moment /\ now \in Nat /\ now <= MaxNow
  BY RequestIs
<1>2. served[c] \in Counts /\ count[c] \in Nat /\ ends[c] \in Nat
  BY <1>1 DEF LimiterTyped
<1> DEFINE through == Up(served[c], now)
<1>3. /\ count' = [count EXCEPT ![c] = Min({Counted(c), Most}) + 1]
      /\ ends' = IF Counted(c) = 0 THEN [ends EXCEPT ![c] = now + Span] ELSE ends
      /\ served' = [served EXCEPT ![c] = through]
      /\ promised' = [promised EXCEPT ![c] = MaxNow + 1] /\ overdue' = overdue
      /\ UNCHANGED <<memory, sliding, ahead, now, hits, answering, coolUntil, downAt, uncounted>>
  BY StepPassIs
<1>4. /\ through \in Counts /\ \A t \in Moment : through[t] = IF t = now THEN served[c][t] + 1 ELSE served[c][t]
      /\ \A S : /\ Total(through, S) <= Total(served[c], S) + 1
                /\ now \notin S => Total(through, S) <= Total(served[c], S)
  BY <1>1, <1>2, OneMore
<1> HIDE DEF through
<1>5. /\ served'[c] = through /\ promised'[c] = MaxNow + 1
      /\ ends'[c] = IF Counted(c) = 0 THEN now + Span ELSE ends[c]
  BY <1>1, <1>3 DEF LimiterTyped
<1>6. Counted(c) \in Nat /\ count'[c] = Counted(c) + 1
  <2>1. Counted(c) \in Nat
    BY <1>2 DEF Counted
  <2>2. Min({Counted(c), Most}) = Counted(c)
    BY <2>1, MinOfTwo, SpanIs
  <2> QED BY <1>1, <1>3, <2>1, <2>2 DEF LimiterTyped
<1>7. LimiterTyped'
  <2>1. count' \in [Counter -> Nat] /\ ends' \in [Counter -> Nat]
    <3>1. Min({Counted(c), Most}) + 1 \in Nat
      BY <1>6, MinOfTwo, SpanIs
    <3> QED BY <1>1, <1>3, <3>1, SpanIs DEF LimiterTyped
  <2> QED BY <1>1, <1>3, <1>4, <2>1, SpanIs DEF LimiterTyped
<1>8. \A S : Total(through, S) \in Nat /\ Total(served[c], S) \in Nat
  BY <1>2, <1>4, TotalIsNat
<1>9. \A t \in Moment : t \in Nat /\ served[c][t] \in Nat
  BY <1>2, MomentsAre DEF Counts
<1>10. ~(promised'[c] <= MaxNow)
  BY <1>5, SpanIs
<1>11. CASE Counted(c) = 0
  <2>1. ends'[c] = now + Span /\ ends[c] <= now
    BY <1>1, <1>2, <1>5, <1>11 DEF FixedKept, Counted
  <2>2. Before(now + Span) = {t \in Moment : t < now}
    <3>1. \A t \in Moment : t + Span < now + Span <=> t < now
      BY <1>1, SpanIs, MomentsAre
    <3> QED BY <3>1 DEF Before
  <2>3. \A t \in Moment : served[c][t] > 0 => t < now /\ t + Span > now
    BY <1>1, <1>2, <1>9, <2>1, SpanIs DEF FixedKept
  <2>4. \A t \in Moment : t < now =>
          Weight(served[c], Before(now + Span), t) <= Weight(served[c], Moment \ Before(ends[c]), t)
    <3>1. \A t \in Moment : served[c][t] > 0 => t \notin Before(ends[c])
      BY <1>1, <1>2, <1>9, <2>1, <2>3, SpanIs DEF Before
    <3> QED BY <1>9, <3>1 DEF Weight
  <2>5. \A t \in Moment : Weight(served[c], Before(now + Span), t) <= Weight(served[c], Moment \ Before(ends[c]), t)
    BY <1>1, <1>9, <2>2, <2>4 DEF Weight
  <2>6. Total(served[c], Before(now + Span)) <= Total(served[c], Moment \ Before(ends[c]))
    BY <1>2, <2>5, TotalGrows
  <2>7. Total(through, Before(now + Span)) <= Most
    <3>1. now \notin Before(now + Span)
      BY <1>1, <2>2
    <3>2. Total(through, Before(now + Span)) <= Total(served[c], Before(now + Span))
      BY <1>4, <3>1
    <3> QED BY <1>8, <2>6, <3>2, SpanIs DEF FixedKept
  <2>8. Total(through, Moment \ Before(now + Span)) <= 1
    <3>1. \A t \in Moment : Weight(served[c], Moment \ Before(now + Span), t) = 0
      BY <1>1, <1>9, <2>2, <2>3 DEF Weight
    <3>2. Total(served[c], Moment \ Before(now + Span)) = 0
      BY <1>2, <3>1, NothingIsNone
    <3>3. Total(through, Moment \ Before(now + Span)) <= Total(served[c], Moment \ Before(now + Span)) + 1
      BY <1>4
    <3> QED BY <1>8, <3>2, <3>3
  <2>9. \A t \in Moment : through[t] > 0 => t < now + Span /\ t + Span > now
    BY <1>1, <1>4, <1>9, <2>3, SpanIs
  <2>10. count'[c] = 1
    BY <1>6, <1>11
  <2>11. Total(through, Moment \ Before(now + Span)) <= Most
    BY <1>8, <2>8, SpanIs
  <2>12. ends'[c] <= now + Span /\ count'[c] > 0 /\ Total(through, Moment \ Before(now + Span)) <= count'[c]
    BY <1>1, <2>1, <2>8, <2>10, SpanIs
  <2>13. FixedKept(c)'
    BY <1>3, <1>5, <1>10, <2>1, <2>7, <2>9, <2>11, <2>12 DEF FixedKept
  <2> QED BY <1>3, <1>7, <2>13
<1>12. CASE Counted(c) # 0
  <2>1. ends'[c] = ends[c] /\ ~(ends[c] <= now) /\ Counted(c) = count[c]
    BY <1>5, <1>12 DEF Counted
  <2>2. ends[c] <= now + Span /\ now < ends[c]
    BY <1>1, <1>2, <2>1 DEF FixedKept
  <2>3. now \notin Before(ends[c])
    BY <1>1, <1>2, <2>2, SpanIs DEF Before
  <2>4. Total(through, Before(ends[c])) <= Most
    <3>1. Total(through, Before(ends[c])) <= Total(served[c], Before(ends[c]))
      BY <1>4, <2>3
    <3> QED BY <1>8, <3>1, SpanIs DEF FixedKept
  <2>5. Total(through, Moment \ Before(ends[c])) <= count'[c]
    <3>1. Total(through, Moment \ Before(ends[c])) <= Total(served[c], Moment \ Before(ends[c])) + 1
      BY <1>4
    <3>2. Total(served[c], Moment \ Before(ends[c])) <= count[c]
      BY DEF FixedKept
    <3> QED BY <1>2, <1>6, <1>8, <2>1, <3>1, <3>2
  <2>6. count'[c] \in Nat /\ count'[c] <= Most /\ count'[c] > 0
    BY <1>6, SpanIs
  <2>7. Total(through, Moment \ Before(ends[c])) <= Most
    BY <1>8, <2>5, <2>6, SpanIs
  <2>8. \A t \in Moment : through[t] > 0 => t < ends[c] /\ t + Span > now
    <3> SUFFICES ASSUME NEW t \in Moment, through[t] > 0 PROVE t < ends[c] /\ t + Span > now
      OBVIOUS
    <3>1. CASE t = now
      BY <1>1, <2>2, <3>1, SpanIs
    <3>2. CASE t # now
      BY <1>4, <3>2 DEF FixedKept
    <3> QED BY <3>1, <3>2
  <2>9. FixedKept(c)'
    BY <1>3, <1>5, <1>10, <2>1, <2>2, <2>4, <2>5, <2>6, <2>7, <2>8 DEF FixedKept
  <2> QED BY <1>3, <1>7, <2>9
<1> QED BY <1>11, <1>12

LEMMA StepRefusalKeeps ==
  ASSUME LimiterTyped, RetryAfterHolds, ~sliding, NEW p \in Process, Hit(p), NEW c, c = CounterOf(p), FixedKept(c),
         ~(Counted(c) < Most)
  PROVE  LimiterTyped' /\ FixedKept(c)' /\ RetryAfterHolds'
<1>1. c \in Counter /\ now \in Nat /\ now <= MaxNow
  BY RequestIs
<1>2. /\ served[c] \in Counts /\ count[c] \in Nat /\ ends[c] \in Nat /\ promised[c] \in Nat /\ overdue \in Nat
  BY <1>1 DEF LimiterTyped
<1>3. Counted(c) = count[c] /\ count[c] >= Most /\ now < ends[c] /\ Counted(c) # 0
  BY <1>1, <1>2, SpanIs DEF Counted
<1>0. PICK free : free = now + Second * RetryAfter(p)
  OBVIOUS
<1>4. /\ free \in Nat
      /\ memory => free > ends[c]
      /\ 2 * free + Second > 2 * ends[c]
  <2>1. Left(p) = ends[c] - now /\ Left(p) \in Nat
    BY <1>1, <1>2, <1>3 DEF Left
  <2>2. Second \in Nat
    BY LimiterAssumption
  <2>3. /\ Second * RetryAfter(p) \in Nat /\ (memory => Second * RetryAfter(p) > Left(p))
        /\ 2 * (Second * RetryAfter(p)) + Second > 2 * Left(p)
    BY <2>1, RetryAfterIs
  <2>0. PICK wait : wait = Second * RetryAfter(p)
    OBVIOUS
  <2>4. wait \in Nat /\ (memory => wait > ends[c] - now) /\ 2 * wait + Second > 2 * (ends[c] - now)
    BY <2>0, <2>1, <2>3
  <2>5. now + wait \in Nat /\ 2 * (now + wait) + Second > 2 * ends[c]
    BY <1>1, <1>2, <2>2, <2>4
  <2>6. memory => now + wait > ends[c]
    BY <1>1, <1>2, <2>4
  <2> QED BY <1>0, <2>0, <2>5, <2>6
<1>5. /\ UNCHANGED <<memory, sliding, ahead, now, hits, answering, coolUntil, downAt, uncounted, served>>
      /\ count' = [count EXCEPT ![c] = Min({Counted(c), Most}) + 1] /\ ends' = ends
      /\ promised' = [promised EXCEPT ![c] = Min({@, free})]
      /\ overdue' = IF promised[c] <= now THEN Larger(overdue, now - promised[c] + 1) ELSE overdue
  BY <1>0, <1>3, StepRefusalIs
<1>6. promised'[c] = Min({promised[c], free}) /\ promised'[c] \in {promised[c], free}
  <2>1. promised'[c] = Min({promised[c], free})
    BY <1>1, <1>5 DEF LimiterTyped
  <2>2. Min({promised[c], free}) \in {promised[c], free}
    BY <1>2, <1>4, MinOfTwo
  <2> QED BY <2>1, <2>2
<1>7. count'[c] = Most + 1
  <2>1. Min({Counted(c), Most}) = Most
    <3>1. Counted(c) \in Nat /\ Most \in Nat /\ Counted(c) >= Most
      BY <1>2, <1>3, SpanIs
    <3>2. Min({Counted(c), Most}) \in {Counted(c), Most} /\ Min({Counted(c), Most}) <= Most
      BY <3>1, MinOfTwo
    <3> QED BY <3>1, <3>2
  <2> QED BY <1>1, <1>5, <2>1 DEF LimiterTyped
<1>8. overdue' \in Nat /\ RetryAfterHolds'
  <2>1. CASE ~(promised[c] <= now)
    BY <1>2, <1>5, <2>1 DEF RetryAfterHolds, Skew
  <2>2. CASE promised[c] <= now
    <3>1. ~memory
      BY <1>1, <1>2, <1>3, <2>2, SpanIs DEF FixedKept
    <3>2. Second \in Nat /\ Second > 0
      BY LimiterAssumption
    <3>3. 2 * promised[c] + Second > 2 * ends[c]
      BY <1>1, <1>2, <2>2, SpanIs DEF FixedKept
    <3>4. now - promised[c] + 1 \in Nat /\ 2 * (now - promised[c] + 1) <= Second - 1
      BY <1>1, <1>2, <1>3, <2>2, <3>2, <3>3
    <3>5. 2 * overdue <= Second - 1
      BY <3>1 DEF RetryAfterHolds
    <3>6. overdue' \in {overdue, now - promised[c] + 1}
      BY <1>2, <1>5, <2>2, <3>4, LargerIs
    <3>7. overdue' \in Nat /\ 2 * overdue' <= Second - 1
      <4>1. CASE overdue' = overdue
        BY <1>2, <3>5, <4>1
      <4>2. CASE overdue' = now - promised[c] + 1
        BY <3>4, <4>2
      <4> QED BY <3>6, <4>1, <4>2
    <3> QED BY <1>5, <3>1, <3>7 DEF RetryAfterHolds
  <2> QED BY <2>1, <2>2
<1>9. LimiterTyped'
  <2>1. promised' \in [Counter -> Nat]
    BY <1>1, <1>2, <1>4, <1>5, <1>6 DEF LimiterTyped
  <2>2. count' \in [Counter -> Nat]
    <3>1. Min({Counted(c), Most}) + 1 \in Nat
      BY <1>2, <1>3, MinOfTwo, SpanIs
    <3> QED BY <1>1, <1>5, <3>1 DEF LimiterTyped
  <2>3. /\ memory' = memory /\ sliding' = sliding /\ ahead' = ahead /\ now' = now /\ hits' = hits /\ served' = served
        /\ ends' = ends /\ answering' = answering /\ coolUntil' = coolUntil /\ downAt' = downAt /\ uncounted' = uncounted
    BY <1>5
  <2> QED BY <1>8, <2>1, <2>2, <2>3 DEF LimiterTyped
<1>10. ASSUME promised'[c] <= MaxNow
       PROVE  2 * promised'[c] + Second > 2 * ends[c] /\ (memory => promised'[c] > ends[c])
  <2>1. CASE promised'[c] = promised[c]
    BY <1>10, <2>1 DEF FixedKept
  <2>2. CASE promised'[c] = free
    BY <1>4, <2>2
  <2> QED BY <1>6, <2>1, <2>2
<1>11. Total(served[c], Moment \ Before(ends[c])) <= Most + 1 /\ Most + 1 > 0
  BY <1>2, TotalIsNat, SpanIs DEF FixedKept
<1>12. FixedKept(c)'
  BY <1>3, <1>5, <1>7, <1>10, <1>11 DEF FixedKept
<1> QED BY <1>8, <1>9, <1>12

-----------------------------------------------------------------------------
(* The limiter: every step.                                                *)

LEMMA LimiterStarts == LimiterInit => LimiterInv
<1> SUFFICES ASSUME LimiterInit PROVE LimiterInv
  OBVIOUS
<1>1. LimiterTyped
  <2>1. [t \in Moment |-> 0] \in Counts
    BY DEF Counts
  <2> QED BY <2>1, SpanIs DEF LimiterInit, LimiterTyped
<1>2. ASSUME NEW c \in Counter, NEW S
      PROVE  Total(served[c], S) = 0 /\ Total(hits[c], S) = 0
  <2>1. served[c] \in Counts /\ hits[c] \in Counts
    BY <1>1 DEF LimiterTyped
  <2>2. \A t \in Moment : served[c][t] = 0 /\ hits[c][t] = 0
    BY DEF LimiterInit
  <2>3. \A t \in Moment : Weight(served[c], S, t) = 0 /\ Weight(hits[c], S, t) = 0
    BY <2>2 DEF Weight
  <2> QED BY <2>1, <2>3, NothingIsNone
<1>3. ASSUME NEW c \in Counter PROVE Kept(c)
  <2>1. /\ promised[c] = MaxNow + 1 /\ ends[c] = 0 /\ now = 0 /\ count[c] = 0
        /\ \A t \in Moment : ~(served[c][t] > 0)
    BY DEF LimiterInit
  <2>2. SlidingKept(c)
    BY <1>2, <2>1, SpanIs DEF SlidingKept
  <2>3. FixedKept(c)
    BY <1>2, <2>1, SpanIs DEF FixedKept
  <2> QED BY <2>2, <2>3 DEF Kept
<1>4. RetryAfterHolds
  <2>1. overdue = 0 /\ Skew \in Nat
    BY <1>1, ClocksAre DEF LimiterInit
  <2> QED BY <2>1, LimiterAssumption DEF RetryAfterHolds
<1>5. OutageEnds
  <2>1. Cooldown * Second \in Nat
    BY LimiterAssumption
  <2> QED BY <2>1 DEF LimiterInit, OutageEnds, CountedAgain
<1> QED BY <1>1, <1>3, <1>4, <1>5 DEF LimiterInv

LEMMA HitKeeps ==
  ASSUME LimiterInv, NEW p \in Process, Hit(p)
  PROVE  LimiterInv'
<1>0. PICK c \in Counter : c = CounterOf(p)
  BY RequestIs DEF LimiterInv
<1>1. LimiterTyped /\ RetryAfterHolds /\ c \in Counter /\ Kept(c)
  BY DEF LimiterInv
<1>2. UNCHANGED <<memory, sliding, ahead, now, answering, coolUntil, downAt, uncounted>>
  BY DEF Hit, Slide, Step, settings, breaker
<1>3. ASSUME NEW d \in Counter, d # c
      PROVE  hits'[d] = hits[d] /\ served'[d] = served[d] /\ count'[d] = count[d] /\ ends'[d] = ends[d]
             /\ promised'[d] = promised[d]
  <2>1. /\ \E f : hits' = [hits EXCEPT ![c] = f] \/ hits' = hits
        /\ \E f : count' = [count EXCEPT ![c] = f] \/ count' = count
        /\ \E f : ends' = [ends EXCEPT ![c] = f] \/ ends' = ends
        /\ \E f : promised' = [promised EXCEPT ![c] = f]
        /\ \E f : served' = [served EXCEPT ![c] = f] \/ served' = served
    BY <1>0 DEF Hit, Slide, Step
  <2> QED BY <1>1, <1>3, <2>1 DEF LimiterTyped
<1>4. LimiterTyped' /\ Kept(c)' /\ RetryAfterHolds'
  <2>1. overdue' = overdue => RetryAfterHolds'
    BY <1>1, <1>2 DEF RetryAfterHolds, Skew
  <2>2. CASE sliding
    <3>1. SlidingKept(c)
      BY <1>1, <2>2 DEF Kept
    <3>2. LimiterTyped' /\ SlidingKept(c)' /\ RetryAfterHolds'
      <4>1. CASE Total(FreshOf(p), Moment) < Most
        BY <1>0, <1>1, <2>1, <2>2, <3>1, <4>1, SlidePassKeeps
      <4>2. CASE ~(Total(FreshOf(p), Moment) < Most)
        BY <1>0, <1>1, <2>2, <3>1, <4>2, SlideRefusalKeeps
      <4> QED BY <4>1, <4>2
    <3> QED BY <1>2, <2>2, <3>2 DEF Kept
  <2>3. CASE ~sliding
    <3>1. FixedKept(c)
      BY <1>1, <2>3 DEF Kept
    <3>2. LimiterTyped' /\ FixedKept(c)' /\ RetryAfterHolds'
      <4>1. CASE Counted(c) < Most
        BY <1>0, <1>1, <2>1, <2>3, <3>1, <4>1, StepPassKeeps
      <4>2. CASE ~(Counted(c) < Most)
        BY <1>0, <1>1, <2>3, <3>1, <4>2, StepRefusalKeeps
      <4> QED BY <4>1, <4>2
    <3> QED BY <1>2, <2>3, <3>2 DEF Kept
  <2> QED BY <2>2, <2>3
<1>5. ASSUME NEW d \in Counter PROVE Kept(d)'
  <2>1. CASE d = c
    BY <1>4, <2>1
  <2>2. CASE d # c
    BY <1>2, <1>3, <2>2, UntouchedKept DEF LimiterInv
  <2> QED BY <2>1, <2>2
<1>6. OutageEnds'
  BY <1>2 DEF LimiterInv, OutageEnds, CountedAgain
<1> QED BY <1>4, <1>5, <1>6 DEF LimiterInv

LEMMA OutageKeeps ==
  ASSUME LimiterInv, (\E p \in Process : PassUncounted(p)) \/ RedisFails \/ RedisAnswers
  PROVE  LimiterInv'
<1>1. /\ LimiterTyped /\ OutageEnds /\ RetryAfterHolds
      /\ UNCHANGED <<settings, now, counters, served, promised, overdue>>
  BY DEF LimiterInv, PassUncounted, RedisFails, RedisAnswers, heard
<1>2. UNCHANGED <<memory, sliding, ahead, now, hits, count, ends, served, promised, overdue>>
  BY <1>1 DEF settings, counters
<1>3. ASSUME NEW c \in Counter PROVE Kept(c)'
  BY <1>2, UntouchedKept DEF LimiterInv
<1>4. RetryAfterHolds'
  BY <1>1, <1>2 DEF RetryAfterHolds, Skew
<1>5. Cooldown * Second \in Nat /\ now \in Nat /\ downAt \in Nat /\ downAt <= now /\ uncounted \in Nat
  BY <1>1, LimiterAssumption, SpanIs DEF LimiterTyped
<1>6. CASE \E p \in Process : PassUncounted(p)
  <2>1. PICK p \in Process : PassUncounted(p)
    BY <1>6
  <2>2. coolUntil[p] \in Nat /\ coolUntil[p] <= downAt + Cooldown * Second
    BY <1>1 DEF LimiterTyped, OutageEnds
  <2>3. answering' = answering /\ downAt' = downAt
    BY <2>1 DEF PassUncounted
  <2>4. coolUntil' = coolUntil \/ (~answering /\ coolUntil' = [coolUntil EXCEPT ![p] = now + Cooldown * Second])
    BY <2>1 DEF PassUncounted
  <2>5. coolUntil' \in [Process -> Nat] /\ \A q \in Process : coolUntil'[q] <= downAt' + Cooldown * Second
    BY <1>1, <1>5, <2>3, <2>4 DEF LimiterTyped, OutageEnds
  <2>6. uncounted' \in Nat /\ uncounted' <= Cooldown * Second
    <3>1. CASE answering
      <4>1. now < coolUntil[p]
        BY <1>5, <2>1, <2>2, <3>1 DEF PassUncounted, Available
      <4>2. now - downAt + 1 \in Nat /\ now - downAt + 1 <= Cooldown * Second
        BY <1>5, <2>2, <4>1
      <4>3. uncounted' = Larger(uncounted, now - downAt + 1)
        BY <2>1, <3>1 DEF PassUncounted
      <4>4. uncounted' \in {uncounted, now - downAt + 1}
        BY <1>5, <4>2, <4>3, LargerIs
      <4> QED BY <1>1, <1>5, <4>2, <4>4 DEF OutageEnds, CountedAgain
    <3>2. CASE ~answering
      BY <1>1, <1>5, <2>1, <3>2 DEF PassUncounted, OutageEnds, CountedAgain
    <3> QED BY <3>1, <3>2
  <2>7. LimiterTyped' /\ OutageEnds'
    BY <1>1, <1>2, <2>3, <2>5, <2>6 DEF LimiterTyped, OutageEnds, CountedAgain
  <2> QED BY <1>3, <1>4, <2>7 DEF LimiterInv
<1>7. CASE RedisFails
  <2>1. answering' = FALSE /\ downAt' = now /\ coolUntil' = coolUntil /\ uncounted' = uncounted
    BY <1>7 DEF RedisFails, heard
  <2>2. \A q \in Process : coolUntil[q] <= now + Cooldown * Second
    BY <1>1, <1>5 DEF LimiterTyped, OutageEnds
  <2>3. LimiterTyped'
    <3>1. now \in 0 .. now /\ FALSE \in BOOLEAN
      BY <1>5
    <3> QED BY <1>1, <1>2, <2>1, <3>1 DEF LimiterTyped
  <2>4. OutageEnds'
    BY <1>1, <1>2, <2>1, <2>2 DEF OutageEnds, CountedAgain
  <2> QED BY <1>3, <1>4, <2>3, <2>4 DEF LimiterInv
<1>8. CASE RedisAnswers
  <2>1. answering' = TRUE /\ downAt' = downAt /\ coolUntil' = coolUntil /\ uncounted' = uncounted
    BY <1>8 DEF RedisAnswers, heard
  <2>2. LimiterTyped' /\ OutageEnds'
    BY <1>1, <1>2, <1>5, <2>1 DEF LimiterTyped, OutageEnds, CountedAgain
  <2> QED BY <1>3, <1>4, <2>2 DEF LimiterInv
<1> QED BY <1>6, <1>7, <1>8

LEMMA TimeKeepsCounters ==
  ASSUME LimiterInv, TimePasses
  PROVE  LimiterInv'
<1>1. /\ LimiterTyped /\ OutageEnds /\ RetryAfterHolds /\ now \in Nat /\ now < MaxNow /\ now' = now + 1
      /\ downAt' = (IF answering THEN downAt ELSE now + 1)
      /\ served' = [c \in Counter |-> [t \in Moment |-> IF t + Span <= now + 1 THEN 0 ELSE served[c][t]]]
      /\ UNCHANGED <<memory, sliding, ahead, hits, count, ends, answering, coolUntil, promised, overdue, uncounted>>
  BY SpanIs DEF LimiterInv, TimePasses, LimiterTyped, settings, counters
<1>2. \A c \in Counter : served'[c] = [t \in Moment |-> IF t + Span <= now + 1 THEN 0 ELSE served[c][t]]
  BY <1>1
<1>3. \A c \in Counter : served[c] \in Counts /\ served'[c] \in Counts
  BY <1>1, <1>2 DEF LimiterTyped, Counts
<1>4. ASSUME NEW c \in Counter, NEW t \in Moment
      PROVE  served'[c][t] = IF t + Span <= now + 1 THEN 0 ELSE served[c][t]
  <2>1. served'[c] = [u \in Moment |-> IF u + Span <= now + 1 THEN 0 ELSE served[c][u]]
    BY <1>2
  <2> QED BY ONLY <2>1
<1>5. \A c \in Counter, t \in Moment : served[c][t] \in Nat /\ served'[c][t] \in Nat /\ t \in Nat
  BY <1>3, MomentsAre DEF Counts
<1>6. ASSUME NEW c \in Counter, NEW S PROVE Total(served'[c], S) <= Total(served[c], S)
  <2>1. ASSUME NEW t \in Moment PROVE Weight(served'[c], S, t) <= Weight(served[c], S, t)
    <3>1. served'[c][t] \in {0, served[c][t]} /\ served[c][t] \in Nat
      BY <1>4, <1>5
    <3> QED BY <3>1 DEF Weight
  <2> QED BY <1>3, <2>1, TotalGrows
<1>7. LimiterTyped'
  <2>1. served' \in [Counter -> Counts]
    BY <1>1, <1>3
  <2>2. downAt' \in 0 .. now' /\ now' \in 0 .. MaxNow
    BY <1>1, SpanIs DEF LimiterTyped
  <2> QED BY <1>1, <2>1, <2>2 DEF LimiterTyped
<1>8. \A c \in Counter : \A S : Total(served'[c], S) \in Nat /\ Total(served[c], S) \in Nat
  BY <1>3, TotalIsNat
<1>9. Lo' = Lo /\ Hi' = Hi /\ Skew' = Skew
  BY <1>1, SameClocks
<1>10. Lo \in Nat /\ Skew \in Nat
  BY <1>1, ClocksAre
<1>11. ASSUME NEW c \in Counter, sliding PROVE SlidingKept(c)'
  <2>1. SlidingKept(c)
    BY <1>11 DEF LimiterInv, Kept
  <2>2. ASSUME NEW x \in StillIn(now' + Skew) PROVE Total(served'[c], From(x)) <= Total(hits[c], From(x + Lo))
    <3>1. x \in StillIn(now + Skew)
      BY <1>1, <1>10, SpanIs, MomentsAre DEF StillIn
    <3>2. Total(served[c], From(x)) <= Total(hits[c], From(x + Lo))
      BY <2>1, <3>1 DEF SlidingKept
    <3>3. hits[c] \in Counts
      BY <1>1 DEF LimiterTyped
    <3> QED BY <1>6, <1>8, <3>2, <3>3, TotalIsNat
  <2>3. ASSUME NEW t \in Moment, served'[c][t] > 0 PROVE t <= now' /\ t + Span <= ends[c]
    <3>1. served[c][t] > 0
      BY <1>4, <1>5, <2>3
    <3> QED BY <1>1, <1>5, <2>1, <3>1 DEF SlidingKept
  <2> QED BY <1>1, <1>9, <2>1, <2>2, <2>3 DEF SlidingKept, StillIn
<1>12. ASSUME NEW c \in Counter, ~sliding PROVE FixedKept(c)'
  <2>1. FixedKept(c)
    BY <1>12 DEF LimiterInv, Kept
  <2>2. ends[c] \in Nat /\ count[c] \in Nat
    BY <1>1 DEF LimiterTyped
  <2>3. ASSUME NEW t \in Moment, served'[c][t] > 0 PROVE t < ends[c] /\ t + Span > now'
    <3>1. served[c][t] > 0 /\ ~(t + Span <= now + 1)
      BY <1>4, <1>5, <2>3
    <3> QED BY <1>1, <1>5, <2>1, <3>1, SpanIs DEF FixedKept
  <2>4. /\ Total(served'[c], Before(ends[c])) <= Most
        /\ Total(served'[c], Moment \ Before(ends[c])) <= Most
        /\ Total(served'[c], Moment \ Before(ends[c])) <= count[c]
    <3>1. /\ Total(served'[c], Before(ends[c])) <= Total(served[c], Before(ends[c]))
          /\ Total(served'[c], Moment \ Before(ends[c])) <= Total(served[c], Moment \ Before(ends[c]))
      BY <1>6
    <3> QED BY <1>8, <2>1, <2>2, <3>1, SpanIs DEF FixedKept
  <2>5. ends[c] <= now' + Span /\ (now' < ends[c] => count[c] > 0)
    BY <1>1, <2>1, <2>2, SpanIs DEF FixedKept
  <2> QED BY <1>1, <2>1, <2>3, <2>4, <2>5 DEF FixedKept
<1>13. \A c \in Counter : Kept(c)'
  BY <1>1, <1>11, <1>12 DEF Kept
<1>14. RetryAfterHolds'
  BY <1>1, <1>9 DEF RetryAfterHolds
<1>15. OutageEnds'
  <2>1. downAt \in Nat /\ downAt <= now /\ Cooldown * Second \in Nat /\ downAt' \in Nat /\ downAt <= downAt'
    BY <1>1, LimiterAssumption DEF LimiterTyped
  <2>2. \A q \in Process : coolUntil[q] <= downAt' + Cooldown * Second
    BY <1>1, <2>1 DEF OutageEnds, LimiterTyped
  <2> QED BY <1>1, <2>2 DEF OutageEnds, CountedAgain
<1> QED BY <1>7, <1>13, <1>14, <1>15 DEF LimiterInv

LEMMA LimiterStep == LimiterInv /\ [LimiterNext]_limiterVars => LimiterInv'
<1> SUFFICES ASSUME LimiterInv, [LimiterNext]_limiterVars PROVE LimiterInv'
  OBVIOUS
<1>1. CASE \E p \in Process : Hit(p)
  BY <1>1, HitKeeps
<1>2. CASE (\E p \in Process : PassUncounted(p)) \/ RedisFails \/ RedisAnswers
  BY <1>2, OutageKeeps
<1>3. CASE TimePasses
  BY <1>3, TimeKeepsCounters
<1>4. CASE UNCHANGED limiterVars
  <2>1. /\ UNCHANGED <<memory, sliding, ahead, now, hits, count, ends, served, promised, overdue, uncounted>>
        /\ UNCHANGED <<answering, coolUntil, downAt>>
    BY <1>4 DEF limiterVars, settings, counters, breaker, heard
  <2>2. ASSUME NEW c \in Counter PROVE Kept(c)'
    BY <2>1, UntouchedKept DEF LimiterInv
  <2>3. LimiterTyped' /\ RetryAfterHolds' /\ OutageEnds'
    BY <2>1 DEF LimiterInv, LimiterTyped, RetryAfterHolds, OutageEnds, CountedAgain, Skew
  <2> QED BY <2>2, <2>3 DEF LimiterInv
<1> QED BY <1>1, <1>2, <1>3, <1>4 DEF LimiterNext

LEMMA LimiterInvHolds == LimiterSpec => []LimiterInv
  BY LimiterStarts, LimiterStep, PTL DEF LimiterSpec

\* However many processes serve a client and whatever their clocks say, no sliding window lets more
\* than the limit through but for what the clocks differ by, no fixed one more than twice the limit,
\* and all is counted again when the cool-down after an outage is over (rate_limiter.py: _hit;
\* cache/redis.py, cache/memory.py: hit_rate_limit; cache.py: available).
THEOREM LimitsHold == LimiterSpec => []LimitHolds
<1>1. LimiterInv => LimitHolds
  <2> SUFFICES ASSUME LimiterInv PROVE WindowBounded
    BY DEF LimiterInv, OutageEnds, LimitHolds
  <2>1. LimiterTyped /\ now \in Nat /\ now <= MaxNow
    BY SpanIs DEF LimiterInv, LimiterTyped
  <2>2. Lo \in Nat /\ Hi \in Nat /\ Hi <= MaxAhead /\ Lo <= Hi /\ Skew = Hi - Lo
    BY <2>1, ClocksAre
  <2>3. ASSUME NEW c \in Counter
        PROVE  IF sliding THEN Total(served[c], {t \in Moment : t + Span > now + Skew}) <= Most
               ELSE Total(served[c], Moment) <= 2 * Most
    <3>1. served[c] \in Counts /\ hits[c] \in Counts /\ ends[c] \in Nat
      BY <2>1 DEF LimiterTyped
    <3>2. CASE sliding
      <4>1. SlidingKept(c)
        BY <3>2 DEF LimiterInv, Kept
      <4>2. PICK x \in StillIn(now + Skew) : StillIn(now + Skew) \subseteq From(x)
        <5> DEFINE x == IF now + Skew < Span THEN 0 ELSE now + Skew + 1 - Span
        <5>1. x \in Nat /\ x <= now
          BY <2>1, <2>2, SpanIs
        <5>2. x \in StillIn(now + Skew)
          BY <2>1, <2>2, <5>1, SpanIs DEF StillIn, Moment
        <5>3. StillIn(now + Skew) \subseteq From(x)
          BY <2>1, <2>2, SpanIs, MomentsAre DEF StillIn, From
        <5> QED BY <5>2, <5>3
      <4>3. Total(served[c], StillIn(now + Skew)) <= Total(served[c], From(x))
        BY <3>1, <4>2, LaterIsLess
      <4>4. Total(served[c], From(x)) <= Total(hits[c], From(x + Lo))
        BY <4>1 DEF SlidingKept
      <4>5. Total(hits[c], From(x + Lo)) <= Total(hits[c], Moment)
        BY <3>1, LaterIsLess
      <4>6. Total(hits[c], Moment) <= Most
        BY <4>1 DEF SlidingKept
      <4>7. Total(served[c], StillIn(now + Skew)) <= Most
        BY <3>1, <4>3, <4>4, <4>5, <4>6, TotalIsNat, SpanIs
      <4> QED BY <3>2, <4>7 DEF StillIn
    <3>3. CASE ~sliding
      <4>1. FixedKept(c)
        BY <3>3 DEF LimiterInv, Kept
      <4>2. Total(served[c], Moment) <= Total(served[c], Before(ends[c])) + Total(served[c], Moment \ Before(ends[c]))
        BY <3>1, TotalOfParts
      <4>3. Total(served[c], Before(ends[c])) <= Most /\ Total(served[c], Moment \ Before(ends[c])) <= Most
        BY <4>1 DEF FixedKept
      <4>4. Total(served[c], Moment) <= 2 * Most
        BY <3>1, <4>2, <4>3, TotalIsNat, SpanIs
      <4> QED BY <3>3, <4>4
    <3> QED BY <3>2, <3>3
  <2> QED BY <2>3 DEF WindowBounded
<1> QED BY <1>1, LimiterInvHolds, PTL

\* Whoever waits as it was told is let through unless another was, but for what the clocks differ by
\* or, where TTL tells, less than half a second (rate_limiter.py: handle; cache/redis.py,
\* cache/memory.py: hit_rate_limit).
THEOREM PromisesHold == LimiterSpec => []RetryAfterHolds
<1>1. LimiterInv => RetryAfterHolds
  BY DEF LimiterInv
<1> QED BY <1>1, LimiterInvHolds, PTL
=============================================================================
