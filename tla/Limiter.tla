------------------------------- MODULE Limiter -------------------------------
(***************************************************************************)
(* How the requests of one client in one tier are counted                  *)
(* (app/api/middleware/rate_limiter.py): by the process that serves them   *)
(* (app/cache/memory.py) or by a script in Redis (app/cache/redis.py), in  *)
(* a sliding or a fixed window, behind the circuit of                      *)
(* app/services/cache.py.  The scripts run alone, and the in-process       *)
(* counter has no await, so that a hit is one step.                        *)
(*                                                                         *)
(* Time passes in fractions of a second, since what is told to a client    *)
(* is rounded to whole ones.  The sliding script is given the time of the  *)
(* server that calls it; the other counters go by the time of their own.   *)
(***************************************************************************)
EXTENDS Naturals, FiniteSetsExt

CONSTANTS
  Process,
  Shared,      \* the counter in Redis; in memory every process has its own
  Most,        \* rate_limit_requests, or those of a tier
  Window,      \* rate_limit_window in seconds
  Cooldown,    \* cache_failure_cooldown_seconds
  Second,      \* moments per second
  MaxAhead,    \* bounds by how much the clock of a server is ahead of another's
  MaxNow       \* bounds the time

ASSUME LimiterAssumption ==
  /\ Shared \notin Process /\ Process # {}
  /\ Most \in Nat \ {0} /\ Window \in Nat \ {0} /\ Second \in Nat \ {0} /\ Cooldown \in Nat
  /\ MaxAhead \in 0 .. Window * Second - 1 /\ MaxNow \in Nat

Span == Window * Second
Moment == 0 .. MaxNow + MaxAhead
Counter == Process \cup {Shared}

VARIABLES
  memory, sliding,  \* cache_backend is "memory"; rate_limit_algorithm is "sliding_window"
  ahead,      \* how much the clock of each server is ahead
  now,
  hits,       \* sliding: how many requests each counter holds of each moment
  count,      \* fixed: how many it has counted
  ends,       \* when its window, or its key, is over
  answering,  \* Redis answers
  coolUntil,  \* each process: it leaves Redis alone until then
  downAt,     \* history: when Redis was last down
  served,     \* history: the requests each counter let through
  promised,   \* history: the first moment a slot was said to be free, MaxNow + 1 if none
  overdue,    \* history: the longest that a request was refused after that
  uncounted   \* history: the longest that one was not counted after Redis was down

settings == <<memory, sliding, ahead>>
counters == <<hits, count, ends>>
breaker == <<answering, coolUntil, downAt>>
heard == <<served, promised, overdue, uncounted>>
limiterVars == <<settings, now, counters, breaker, heard>>

LimiterInit ==
  /\ memory \in BOOLEAN /\ sliding \in BOOLEAN
  /\ ahead \in [Process -> {0, MaxAhead}] /\ (memory \/ ~sliding => \A p \in Process : ahead[p] = 0)
  /\ now = 0
  /\ hits = [c \in Counter |-> [t \in Moment |-> 0]]
  /\ count = [c \in Counter |-> 0] /\ ends = [c \in Counter |-> 0]
  /\ answering = TRUE /\ coolUntil = [p \in Process |-> 0] /\ downAt = 0
  /\ served = [c \in Counter |-> [t \in Moment |-> 0]]
  /\ promised = [c \in Counter |-> MaxNow + 1] /\ overdue = 0 /\ uncounted = 0

\* How many requests a bag has of the moments in S.
Total(bag, S) ==
  LET before[n \in 0 .. MaxNow + MaxAhead + 1] ==
        IF n = 0 THEN 0 ELSE before[n - 1] + (IF n - 1 \in S THEN bag[n - 1] ELSE 0)
  IN  before[MaxNow + MaxAhead + 1]

Larger(a, b) == IF a < b THEN b ELSE a

CounterOf(p) == IF memory THEN p ELSE Shared
ClockOf(p) == now + ahead[p]

\* The most that two of the clocks differ by.
Skew == Max({ahead[p] : p \in Process}) - Min({ahead[p] : p \in Process})

-----------------------------------------------------------------------------
(* What is counted.                                                        *)

\* Once a key of Redis has expired there is nothing under it.
Expired(c) == ~memory /\ ends[c] <= now

\* The requests that are still in the window.
InWindow(c, clock) ==
  [t \in Moment |-> IF Expired(c) \/ t + Span <= clock THEN 0 ELSE hits[c][t]]

\* Faulty variant: only the first request of a window sets when the key expires.
KeepsEnd(c) == IF ends[c] <= now THEN now + Span ELSE ends[c]

NewEnd(c) == now + Span

\* In a sliding window a request that is refused is not counted.
Slide(p) ==
  LET c == CounterOf(p)
      fresh == InWindow(c, ClockOf(p))
      free == Total(fresh, Moment) < Most
  IN
  /\ hits' = [hits EXCEPT ![c] = IF free THEN [fresh EXCEPT ![ClockOf(p)] = @ + 1] ELSE fresh]
  /\ ends' = IF free THEN [ends EXCEPT ![c] = NewEnd(c)] ELSE ends
  /\ UNCHANGED count

SlidePasses(p) == Total(InWindow(CounterOf(p), ClockOf(p)), Moment) < Most

\* In a fixed one it is (up to Most + 1 here); the first request begins the window.
Counted(c) == IF ends[c] <= now THEN 0 ELSE count[c]

Step(p) ==
  LET c == CounterOf(p) IN
  /\ count' = [count EXCEPT ![c] = Min({Counted(c), Most}) + 1]
  /\ ends' = IF Counted(c) = 0 THEN [ends EXCEPT ![c] = now + Span] ELSE ends
  /\ UNCHANGED hits

StepPasses(p) == Counted(CounterOf(p)) < Most

-----------------------------------------------------------------------------
(* What a client that is refused is told, in seconds.                      *)

\* How long until a slot is free: the oldest request leaves the window, or the window is over.
Left(p) ==
  LET c == CounterOf(p)
      fresh == InWindow(c, ClockOf(p))
  IN  IF sliding THEN Min({t \in Moment : fresh[t] > 0}) + Span - ClockOf(p) ELSE ends[c] - now

RoundedUp(left) == (left + Second - 1) \div Second

\* TTL of Redis.
Rounded(left) == (2 * left + Second) \div (2 * Second)

\* Faulty variant: the part of a second is lost.
RoundedDown(p) == Larger(1, Left(p) \div Second)

RetryAfter(p) ==
  Larger(1, IF memory THEN Left(p) \div Second + 1
            ELSE IF sliding THEN RoundedUp(Left(p)) ELSE Rounded(Left(p)))

-----------------------------------------------------------------------------
(* A request.                                                              *)

Available(p) == now >= coolUntil[p]

Passes(p) == IF sliding THEN SlidePasses(p) ELSE StepPasses(p)

\* Whoever is let through takes the slot that others have been promised.
Hit(p) ==
  LET c == CounterOf(p) IN
  /\ Available(p) /\ answering
  /\ IF sliding THEN Slide(p) ELSE Step(p)
  /\ IF Passes(p)
     THEN /\ served' = [served EXCEPT ![c][now] = @ + 1]
          /\ promised' = [promised EXCEPT ![c] = MaxNow + 1]
          /\ UNCHANGED overdue
     ELSE /\ promised' = [promised EXCEPT ![c] = Min({@, now + Second * RetryAfter(p)})]
          /\ overdue' = IF promised[c] <= now THEN Larger(overdue, now - promised[c] + 1) ELSE overdue
          /\ UNCHANGED served
  /\ UNCHANGED <<settings, now, breaker, uncounted>>

\* The limiter fails open: while it leaves Redis alone, and when a call fails, which makes it do so.
PassUncounted(p) ==
  /\ \/ ~Available(p) /\ UNCHANGED coolUntil
     \/ Available(p) /\ ~answering /\ coolUntil' = [coolUntil EXCEPT ![p] = now + Cooldown * Second]
  /\ uncounted' = IF answering THEN Larger(uncounted, now - downAt + 1) ELSE uncounted
  /\ UNCHANGED <<settings, now, counters, answering, downAt, served, promised, overdue>>

RedisFails ==
  /\ ~memory /\ answering /\ downAt = 0 /\ now > 0
  /\ answering' = FALSE /\ downAt' = now
  /\ UNCHANGED <<settings, now, counters, coolUntil, heard>>

RedisAnswers ==
  /\ ~answering
  /\ answering' = TRUE
  /\ UNCHANGED <<settings, now, counters, coolUntil, downAt, heard>>

\* What was let through longer than a window ago is forgotten.
TimePasses ==
  /\ now < MaxNow
  /\ now' = now + 1
  /\ downAt' = IF answering THEN downAt ELSE now + 1
  /\ served' = [c \in Counter |-> [t \in Moment |-> IF t + Span <= now + 1 THEN 0 ELSE served[c][t]]]
  /\ UNCHANGED <<settings, counters, answering, coolUntil, promised, overdue, uncounted>>

LimiterNext ==
  \/ \E p \in Process : Hit(p) \/ PassUncounted(p)
  \/ RedisFails \/ RedisAnswers \/ TimePasses

LimiterSpec == LimiterInit /\ [][LimiterNext]_limiterVars

-----------------------------------------------------------------------------
\* A counter lets no more than its limit through in any window, less what its servers' clocks
\* differ by; in a fixed window no more than two of them.
WindowBounded ==
  \A c \in Counter :
    IF sliding THEN Total(served[c], {t \in Moment : t + Span > now + Skew}) <= Most
    ELSE Total(served[c], Moment) <= 2 * Most

\* Who waits as long as it was told is let through unless another was: but for the difference of
\* the clocks, and, where TTL says how long, for less than half a second.
RetryAfterHolds ==
  2 * overdue <= (IF memory THEN 0 ELSE IF sliding THEN 2 * Skew ELSE Second - 1)

\* Requests are counted again at the latest when the cool-down after an outage is over.
CountedAgain == uncounted <= Cooldown * Second

\* Between them: nobody is served more than the limit for longer than an outage lasts.
LimitHolds == WindowBounded /\ CountedAgain

-----------------------------------------------------------------------------
(* What the documentation says, and the code does not do.                  *)

\* "seconds until a slot frees up, when not allowed" (RateDecision.retry_after): with one clock,
\* who waits that long is let through unless another was.
WaitSuffices == Skew = 0 => overdue = 0
=============================================================================
