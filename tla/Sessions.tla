------------------------------ MODULE Sessions ------------------------------
(***************************************************************************)
(* The sessions of one account, as app/services/data/sessions_ops.py       *)
(* stores them and app/services/auth/service.py uses them: every token     *)
(* carries a session id, every request looks the session up through the    *)
(* record cache, refresh tokens rotate, and sign-out, "sign out            *)
(* everywhere" and suspension revoke sessions.                             *)
(*                                                                         *)
(* One step is one call to the database or to the cache, so requests       *)
(* interleave between any two awaits.  A refresh token is a number: the    *)
(* n-th one signed for its session.                                        *)
(***************************************************************************)
EXTENDS Naturals, FiniteSets

CONSTANTS
  Session,     \* session ids (uuid4: never reused)
  Request,     \* requests being served, by any worker process
  NoSession,
  Operations,  \* what clients ask for (see Serving)
  Prompt,      \* TRUE: no request takes as long as the grace window
  Thief,       \* TRUE: somebody also holds every refresh token ever issued
  AtStart,     \* sessions that exist at the start
  MaxToken,    \* bound on the refresh tokens signed for one session
  MaxClock,    \* bound on how often the grace window is seen to pass
  MaxOutages,  \* bound on how often the cache fails
  MaxCancels   \* bound on requests cut short (time-out, crash)

ASSUME NamesAssumption ==
  /\ NoSession \notin Session /\ AtStart \subseteq Session
  /\ Prompt \in BOOLEAN /\ Thief \in BOOLEAN
ASSUME BoundsAssumption ==
  /\ MaxToken \in Nat \ {0} /\ MaxClock \in Nat
  /\ MaxOutages \in Nat /\ MaxCancels \in Nat

VARIABLES
  db,       \* the "sessions" collection
  cache,    \* the cached copy of each record, or NoCopy
  up,       \* the cache circuit is closed and the backend answers
  signed,   \* how many refresh tokens were signed for each session
  clock,    \* grows when every rotation so far has left the grace window
  account,  \* the status of the account
  jar,      \* the refresh token in the browser's cookie, per session
  pc,       \* where each request is
  op,       \* what it was asked to do
  sid,      \* the session it is about (or keeps, for the bulk revocations)
  tok,      \* the refresh token it presents
  seen,     \* the session record it read
  mine,     \* the refresh token it was given
  live,     \* the sessions it revokes
  todo,     \* sessions whose cached copy it still has to drop
  result,   \* how it was answered, where a property is about it
  ended,    \* history: sessions whose revocation has been answered
  raced,    \* history: sessions whose cached copy may have missed a write
  late,     \* history: what was already true when the request came in
  spent     \* how much of the bounds on outages and cancellations is used

store == <<db, cache, up, signed, clock, account, jar>>
request == <<pc, op, sid, tok, seen, mine, live, todo, result>>
history == <<ended, raced, late, spent>>
vars == <<store, request, history>>

-----------------------------------------------------------------------------
(* Records.                                                                *)

\* "gone": past expires_at, whether or not the store has purged it yet.
Record == [state : {"none", "live", "revoked", "gone"},
           cur : 0 .. MaxToken, prev : 0 .. MaxToken, rotated : 0 .. MaxClock]

Nothing == [state |-> "none", cur |-> 0, prev |-> 0, rotated |-> 0]
NoCopy == Nothing

Stored(s) == db[s].state \in {"live", "revoked"}

\* Is a session usable, going by a copy of its record?  expires_at never changes, so
\* every copy of an expired session says so.
Active(s, copy) == copy.state = "live" /\ db[s].state # "gone"

Born == [state |-> "live", cur |-> 1, prev |-> 0, rotated |-> 0]

Revoked(record) == [record EXCEPT !.state = "revoked"]

\* Faulty variant: the whole record that was read is written back.
RotatedWhole(record, copy, t) ==
  [state |-> copy.state, cur |-> t, prev |-> copy.cur, rotated |-> clock]

\* The record as a rotation to token t, computed from a copy, leaves it.
Rotated(record, copy, t) ==
  [state |-> record.state, cur |-> t, prev |-> copy.cur, rotated |-> clock]

WithinGrace(copy) == copy.prev # 0 /\ copy.rotated = clock

Current(copy, t) == t = copy.cur \/ (WithinGrace(copy) /\ t = copy.prev)

-----------------------------------------------------------------------------
(* Tokens.                                                                 *)

\* An access token says which session it belongs to; the session outlives it or not.
HasAccessToken(s) == signed[s] > 0

\* Every refresh token has an id of its own, whatever else it says.
NextToken(s) == signed[s] + 1

\* Both tokens are the answer's; only the hash of the refresh token is stored.
Issue(r, s, t) ==
  /\ signed' = [signed EXCEPT ![s] = t]
  /\ mine' = [mine EXCEPT ![r] = t]

\* What verifies: any refresh token that was signed for the session, rotated or not.
Verified(s) == 1 .. signed[s]

-----------------------------------------------------------------------------
\* A request that read the record and has not written the cache yet.
Filling(s) == \E r \in Request : pc[r] = "fill" /\ sid[r] = s

\* The records after `change` was applied to those of S, and what it may have raced.
Write(S, change) ==
  /\ db' = [s \in Session |-> IF s \in S THEN change[s] ELSE db[s]]
  /\ raced' = raced \cup {s \in S : Filling(s)}

-----------------------------------------------------------------------------
Init ==
  /\ db = [s \in Session |-> IF s \in AtStart THEN Born ELSE Nothing]
  /\ cache = [s \in Session |-> NoCopy]
  /\ up = TRUE
  /\ signed = [s \in Session |-> IF s \in AtStart THEN 1 ELSE 0]
  /\ clock = 0
  /\ account = "active"
  /\ jar = [s \in Session |-> IF s \in AtStart THEN 1 ELSE 0]
  /\ pc = [r \in Request |-> "idle"]
  /\ op = [r \in Request |-> "none"]
  /\ sid = [r \in Request |-> NoSession]
  /\ tok = [r \in Request |-> 0]
  /\ seen = [r \in Request |-> Nothing]
  /\ mine = [r \in Request |-> 0]
  /\ live = [r \in Request |-> {}]
  /\ todo = [r \in Request |-> {}]
  /\ result = [r \in Request |-> "none"]
  /\ ended = {}
  /\ raced = {}
  /\ late = [r \in Request |-> "no"]
  /\ spent = [outage |-> 0, cancel |-> 0]

-----------------------------------------------------------------------------
(* Requests come in, and are answered.                                     *)

Goto(r, label) == pc' = [pc EXCEPT ![r] = label]

\* The request is over, and nothing it held is left.
Answer(r, how) ==
  /\ Goto(r, "idle")
  /\ result' = [result EXCEPT ![r] = how]
  /\ op' = [op EXCEPT ![r] = "none"]
  /\ sid' = [sid EXCEPT ![r] = NoSession]
  /\ tok' = [tok EXCEPT ![r] = 0]
  /\ seen' = [seen EXCEPT ![r] = Nothing]
  /\ mine' = [mine EXCEPT ![r] = 0]
  /\ live' = [live EXCEPT ![r] = {}]
  /\ todo' = [todo EXCEPT ![r] = {}]

Start(r, what, s, t, label) ==
  /\ pc[r] = "idle" /\ what \in Operations
  /\ Goto(r, label)
  /\ op' = [op EXCEPT ![r] = what]
  /\ sid' = [sid EXCEPT ![r] = s]
  /\ tok' = [tok EXCEPT ![r] = t]
  /\ result' = [result EXCEPT ![r] = "none"]
  /\ late' = [late EXCEPT ![r] =
       IF s \in ended THEN IF s \in raced THEN "raced" ELSE "ended"
       ELSE IF what = "refresh" /\ account # "active" THEN "suspended"
       ELSE IF what = "refresh" /\ Stored(s) /\ ~Current(db[s], t) THEN "replay"
       ELSE "no"]
  /\ UNCHANGED <<store, seen, mine, live, todo, ended, raced, spent>>

\* The refresh tokens a client may present for a session.
Presentable(s) == IF Thief THEN Verified(s) ELSE {jar[s]} \ {0}

\* What clients ask for: a call with an access token, a refresh, signing out of one
\* session, of all but (maybe) one, suspending, enabling or deleting the account, a sign-in.
Serving(r) ==
  \/ \E s \in Session : HasAccessToken(s) /\ Start(r, "call", s, 0, "get")
  \/ \E s \in Session : \E t \in Presentable(s) : Start(r, "refresh", s, t, "get")
  \/ \E s \in Session : HasAccessToken(s) /\ Start(r, "logout", s, 0, "revoke")
  \/ \E s \in Session \cup {NoSession} : Start(r, "logout_all", s, 0, "list")
  \/ Start(r, "disable", NoSession, 0, "status")
  \/ Start(r, "enable", NoSession, 0, "status")
  \/ Start(r, "delete", NoSession, 0, "list")
  \/ Start(r, "login", NoSession, 0, "account")

-----------------------------------------------------------------------------
(* Looking a session up: the cache, else the database and then the cache.  *)

Get(r) ==
  /\ pc[r] = "get"
  /\ LET copy == cache[sid[r]] IN
       IF up /\ copy # NoCopy
       THEN seen' = [seen EXCEPT ![r] = copy] /\ Goto(r, "got")
       ELSE UNCHANGED seen /\ Goto(r, "read")
  /\ UNCHANGED <<store, op, sid, tok, mine, live, todo, result, history>>

Read(r) ==
  /\ pc[r] = "read"
  /\ seen' = [seen EXCEPT ![r] = db[sid[r]]]
  /\ Goto(r, IF Stored(sid[r]) THEN "fill" ELSE "got")
  /\ UNCHANGED <<store, op, sid, tok, mine, live, todo, result, history>>

Fill(r) ==
  /\ pc[r] = "fill"
  /\ cache' = IF up THEN [cache EXCEPT ![sid[r]] = seen[r]] ELSE cache
  /\ Goto(r, "got")
  /\ UNCHANGED <<db, up, signed, clock, account, jar,
                 op, sid, tok, seen, mine, live, todo, result, history>>

-----------------------------------------------------------------------------
(* authenticate_request.                                                   *)

Admit(r) ==
  /\ pc[r] = "got" /\ op[r] = "call"
  /\ Answer(r, IF Active(sid[r], seen[r]) THEN "accepted" ELSE "none")
  /\ UNCHANGED <<store, history>>

\* A browser whose session is not active has its refresh cookie tried as well.
SilentRefresh(r) ==
  /\ pc[r] = "got" /\ op[r] = "call"
  /\ ~Active(sid[r], seen[r]) /\ jar[sid[r]] # 0
  /\ op' = [op EXCEPT ![r] = "refresh"]
  /\ tok' = [tok EXCEPT ![r] = jar[sid[r]]]
  /\ Goto(r, "get")
  /\ UNCHANGED <<store, sid, seen, mine, live, todo, result, history>>

-----------------------------------------------------------------------------
(* refresh_tokens.                                                         *)

RefuseRefresh(r) ==
  /\ pc[r] = "got" /\ op[r] = "refresh"
  /\ ~Active(sid[r], seen[r])
  /\ Answer(r, "none")
  /\ UNCHANGED <<store, history>>

CheckToken(r) ==
  /\ pc[r] = "got" /\ op[r] = "refresh"
  /\ Active(sid[r], seen[r])
  /\ IF Current(seen[r], tok[r])
     THEN UNCHANGED op /\ Goto(r, "user")
     ELSE op' = [op EXCEPT ![r] = "reuse"] /\ Goto(r, "revoke")
  /\ UNCHANGED <<store, sid, tok, seen, mine, live, todo, result, history>>

\* Faulty variant: a deleted account is the only one refused.
AnyAccount == account # "deleted"

AccountUsable == account = "active"

\* The account is read from the database, whatever the cache says.
CheckAccount(r) ==
  /\ pc[r] = "user"
  /\ IF AccountUsable
     THEN UNCHANGED op /\ Goto(r, "rotate")
     ELSE op' = [op EXCEPT ![r] = "suspended"] /\ Goto(r, "revoke")
  /\ UNCHANGED <<store, sid, tok, seen, mine, live, todo, result, history>>

\* The new hash replaces the stored one and the one that was read becomes the previous.
Rotate(r) ==
  /\ pc[r] = "rotate" /\ signed[sid[r]] < MaxToken
  /\ LET s == sid[r]
         t == NextToken(s)
     IN  /\ Issue(r, s, t)
         /\ Write({s} \ {x \in Session : ~Stored(x)},
                  [x \in Session |-> Rotated(db[x], seen[r], t)])
         /\ todo' = [todo EXCEPT ![r] = {s} \ {x \in Session : ~Stored(x)}]
  /\ Goto(r, "drop")
  /\ UNCHANGED <<cache, up, clock, account, jar,
                 op, sid, tok, seen, live, result, ended, late, spent>>

-----------------------------------------------------------------------------
(* Revoking: one session, or every live one of the account.                *)

Revoke(r) ==
  /\ pc[r] = "revoke"
  /\ LET hit == {sid[r]} \ {x \in Session : ~Stored(x)} IN
       /\ Write(hit, [x \in Session |-> Revoked(db[x])])
       /\ live' = [live EXCEPT ![r] = hit]
       /\ todo' = [todo EXCEPT ![r] = hit]
  /\ Goto(r, "drop")
  /\ UNCHANGED <<cache, up, signed, clock, account, jar,
                 op, sid, tok, seen, mine, result, ended, late, spent>>

\* set_user_status; there is no such account once it is deleted.  Whoever came in while
\* the account was suspended may be served once it is enabled again.
Suspend(r) ==
  /\ pc[r] = "status" /\ op[r] = "disable" /\ account # "deleted"
  /\ account' = "disabled"
  /\ Goto(r, "list")
  /\ UNCHANGED <<db, cache, up, signed, clock, jar,
                 op, sid, tok, seen, mine, live, todo, result, history>>

Enable(r) ==
  /\ pc[r] = "status" /\ op[r] = "enable" /\ account # "deleted"
  /\ account' = "active"
  /\ late' = [q \in Request |-> IF late[q] = "suspended" THEN "no" ELSE late[q]]
  /\ Answer(r, "none")
  /\ UNCHANGED <<db, cache, up, signed, clock, jar, ended, raced, spent>>

NoSuchAccount(r) ==
  /\ pc[r] = "status" /\ account = "deleted"
  /\ Answer(r, "none")
  /\ UNCHANGED <<store, history>>

\* revoke_user_sessions lists what is live in the database, but the session it keeps.
List(r) ==
  /\ pc[r] = "list"
  /\ live' = [live EXCEPT ![r] =
                {s \in Session \ {sid[r]} : db[s].state = "live"}]
  /\ Goto(r, IF live'[r] = {} THEN "drop" ELSE "revoke_all")
  /\ UNCHANGED <<store, op, sid, tok, seen, mine, todo, result, history>>

\* One write for all of them, then one delete per cached copy.
RevokeAll(r) ==
  /\ pc[r] = "revoke_all"
  /\ LET hit == {s \in live[r] : Stored(s)} IN
       /\ Write(hit, [x \in Session |-> Revoked(db[x])])
       /\ todo' = [todo EXCEPT ![r] = live[r]]
  /\ Goto(r, "drop")
  /\ UNCHANGED <<cache, up, signed, clock, account, jar,
                 op, sid, tok, seen, mine, live, result, ended, late, spent>>

\* Faulty variant: the copy is overwritten later anyway, so none is dropped.
LeftToExpire(s) == cache

WithoutCopy(s) == [cache EXCEPT ![s] = NoCopy]

\* A copy goes: nothing is missed any more, unless somebody is about to write one.
Forgotten(s) == IF Filling(s) THEN raced ELSE raced \ {s}

\* A copy stays where it should have gone.
Missed(S) == raced \cup {s \in S : cache[s] # NoCopy}

Drop(r) ==
  /\ pc[r] = "drop"
  /\ \E s \in todo[r] :
       /\ todo' = [todo EXCEPT ![r] = @ \ {s}]
       /\ IF up
          THEN cache' = WithoutCopy(s) /\ raced' = Forgotten(s)
          ELSE UNCHANGED cache /\ raced' = Missed({s})
  /\ UNCHANGED <<db, up, signed, clock, account, jar,
                 pc, op, sid, tok, seen, mine, live, result, ended, late, spent>>

Ending == {"logout", "logout_all", "disable", "delete", "reuse", "suspended"}

\* The answer reaches its client; a rotation's sets the browser's cookie, unless it was
\* somebody else who asked.
Reply(r) ==
  /\ pc[r] = "drop" /\ todo[r] = {}
  /\ account' = IF op[r] = "delete" THEN "deleted" ELSE account
  /\ Answer(r, IF op[r] = "refresh" THEN "rotated"
               ELSE IF op[r] = "reuse" THEN "reuse" ELSE "none")
  /\ ended' = IF op[r] \in Ending THEN ended \cup live[r] ELSE ended
  /\ \/ mine[r] # 0 /\ jar' = [jar EXCEPT ![sid[r]] = mine[r]]
     \/ (mine[r] = 0 \/ Thief) /\ UNCHANGED jar
  /\ UNCHANGED <<db, cache, up, signed, clock, raced, late, spent>>

-----------------------------------------------------------------------------
(* Signing in: the account is checked, the session is stored later.        *)

CheckLogin(r) ==
  /\ pc[r] = "account"
  /\ IF account = "active"
     THEN Goto(r, "create") /\ UNCHANGED <<op, sid, tok, seen, mine, live, todo, result>>
     ELSE Answer(r, "none")
  /\ UNCHANGED <<store, history>>

OpenSession(r, s) ==
  /\ pc[r] = "create"
  /\ db[s].state = "none"
  /\ Write({s}, [x \in Session |-> Born])
  /\ Issue(r, s, 1)
  /\ sid' = [sid EXCEPT ![r] = s]
  /\ todo' = [todo EXCEPT ![r] = {s}]
  /\ Goto(r, "drop")
  /\ UNCHANGED <<cache, up, clock, account, jar,
                 op, tok, seen, live, result, ended, late, spent>>

-----------------------------------------------------------------------------
(* What happens to requests and to the stores.                             *)

\* The time-out middleware cancels a request at whatever it awaits, or its process dies.
Cancel(r) ==
  /\ pc[r] # "idle" /\ spent.cancel < MaxCancels
  /\ Answer(r, "none")
  /\ raced' = IF pc[r] = "drop" THEN Missed(todo[r]) ELSE raced
  /\ spent' = [spent EXCEPT !.cancel = @ + 1]
  /\ UNCHANGED <<store, ended, late>>

\* Faulty variant: a copy stored without a time to live.
NeverLapses(s) == FALSE

Lapses(s) == cache[s] # NoCopy

CacheExpires(s) ==
  /\ Lapses(s)
  /\ cache' = WithoutCopy(s)
  /\ raced' = Forgotten(s)
  /\ UNCHANGED <<db, up, signed, clock, account, jar, request, ended, late, spent>>

CacheFails ==
  /\ up /\ spent.outage < MaxOutages
  /\ up' = FALSE
  /\ spent' = [spent EXCEPT !.outage = @ + 1]
  /\ UNCHANGED <<db, cache, signed, clock, account, jar, request, ended, raced, late>>

CacheHeals ==
  /\ ~up
  /\ up' = TRUE
  /\ UNCHANGED <<db, cache, signed, clock, account, jar, request, history>>

GraceEnds ==
  /\ clock < MaxClock
  /\ Prompt => \A r \in Request : pc[r] = "idle"
  /\ clock' = clock + 1
  /\ UNCHANGED <<db, cache, up, signed, account, jar, request, history>>

SessionExpires(s) ==
  /\ "expire" \in Operations
  /\ Stored(s)
  /\ db' = [db EXCEPT ![s].state = "gone"]
  /\ UNCHANGED <<cache, up, signed, clock, account, jar, request, history>>

-----------------------------------------------------------------------------
Serve(r) ==
  \/ Get(r) \/ Read(r) \/ Fill(r)
  \/ Admit(r) \/ SilentRefresh(r)
  \/ RefuseRefresh(r) \/ CheckToken(r) \/ CheckAccount(r) \/ Rotate(r)
  \/ Suspend(r) \/ Enable(r) \/ NoSuchAccount(r)
  \/ Revoke(r) \/ List(r) \/ RevokeAll(r)
  \/ Drop(r) \/ Reply(r)
  \/ CheckLogin(r) \/ \E s \in Session : OpenSession(r, s)

World ==
  \/ \E s \in Session : CacheExpires(s) \/ SessionExpires(s)
  \/ CacheFails \/ CacheHeals \/ GraceEnds

Next ==
  \/ \E r \in Request : Serving(r) \/ Serve(r) \/ Cancel(r)
  \/ World

Spec == Init /\ [][Next]_vars

\* The event loop runs every request to its end, and a cached copy has a time to live.
Fairness ==
  /\ \A r \in Request : WF_vars(Serve(r))
  /\ \A s \in Session : WF_vars(CacheExpires(s))

FairSpec == Spec /\ Fairness

-----------------------------------------------------------------------------
(* What the sessions promise.                                              *)

Labels == {"idle", "get", "read", "fill", "got", "user", "rotate", "revoke",
           "status", "list", "revoke_all", "drop", "account", "create"}
Ops == {"none", "call", "refresh", "login", "enable"} \cup Ending
Results == {"none", "accepted", "rotated", "reuse"}

\* Every variable stays in its range; a request that looks a session up has one.
TypeOK ==
  /\ db \in [Session -> Record] /\ cache \in [Session -> Record]
  /\ up \in BOOLEAN /\ clock \in 0 .. MaxClock
  /\ signed \in [Session -> 0 .. MaxToken] /\ jar \in [Session -> 0 .. MaxToken]
  /\ account \in {"active", "disabled", "deleted"}
  /\ pc \in [Request -> Labels] /\ op \in [Request -> Ops]
  /\ sid \in [Request -> Session \cup {NoSession}]
  /\ tok \in [Request -> 0 .. MaxToken] /\ mine \in [Request -> 0 .. MaxToken]
  /\ seen \in [Request -> Record]
  /\ live \in [Request -> SUBSET Session] /\ todo \in [Request -> SUBSET Session]
  /\ result \in [Request -> Results]
  /\ ended \subseteq Session /\ raced \subseteq Session
  /\ late \in [Request -> {"no", "ended", "raced", "suspended", "replay"}]
  /\ spent \in [outage : 0 .. MaxOutages, cancel : 0 .. MaxCancels]
  /\ \A r \in Request :
       pc[r] \in {"get", "read", "fill", "got", "user", "rotate", "revoke"}
         => sid[r] \in Session

Dropping(s) == \E r \in Request : pc[r] = "drop" /\ s \in todo[r]

\* The cached copy of a session is the stored record, unless the request that wrote the
\* record has yet to drop the copy, or a write met one of the two windows the data layer
\* leaves open: a read in flight between database and cache, or a drop that was skipped.
CachedIsCurrent ==
  \A s \in Session :
    cache[s] # NoCopy /\ db[s].state # "gone"
      => cache[s] = db[s] \/ Dropping(s) \/ s \in raced

\* A revocation that was answered is never undone in the database, whatever rotations and
\* bulk revocations write concurrently (refresh_tokens updates fields it computed from an
\* older copy).
EndedInStore == \A s \in ended : db[s].state # "live"

\* A request that comes in after a revocation was answered is refused, as long as no
\* write to the session met one of the two windows.
EndedIsRefused ==
  \A r \in Request : late[r] = "ended" => result[r] \notin {"accepted", "rotated"}

\* A revocation that was answered stays, in the database and for whoever comes in after it.
RevocationsHold == TypeOK /\ EndedInStore /\ EndedIsRefused

\* No refresh that comes in after the account was suspended or deleted is given tokens,
\* however stale the cached session is.
NoRotationWhileSuspended ==
  \A r \in Request : late[r] = "suspended" => result[r] # "rotated"

\* Whatever was raced, the stale copy lapses: from some point on no revoked session has a
\* cached copy that says it is live.
RevokedFinallyRefused ==
  \A s \in Session : <>[](db[s].state = "revoked" => cache[s].state # "live")

-----------------------------------------------------------------------------
(* What the documentation says, and the code does not do.                  *)

\* "Revocation is immediate" (docs/adr/0001-session-bound-tokens.md): no request that
\* comes in after a revocation was answered is let in.
RevocationImmediate ==
  \A r \in Request :
    late[r] \in {"ended", "raced"} => result[r] \notin {"accepted", "rotated"}

\* "disabling ends all of its sessions" (set_user_status): once it is done, no session
\* of a disabled account is live.
DisabledEndsSessions ==
  account = "disabled" /\ (\A r \in Request : op[r] = "disable" => pc[r] = "idle")
    => \A s \in Session : db[s].state # "live"

\* The grace window tolerates parallel refreshes: a browser that only ever presents the
\* token it was given last does not lose its session to reuse detection.
HonestClientKept == \A r \in Request : result[r] # "reuse"

\* Presenting a token that was rotated and is past the grace window gives no new tokens.
ReuseDetected ==
  \A r \in Request : late[r] = "replay" => result[r] # "rotated"
=============================================================================
