---------------------------- MODULE Credentials ----------------------------
(***************************************************************************)
(* What one user can sign in and call with besides a password: passkeys    *)
(* with their one-time challenges (app/services/auth/passkeys.py), and API *)
(* tokens (app/services/auth/api_tokens.py), beside an administrator who   *)
(* suspends, activates and deletes the account.                            *)
(*                                                                         *)
(* One step is one call of the database.  Signatures are checked by a      *)
(* library: only answers that carry the right one are tried, and the       *)
(* device's counter in them, which a copy of the device may repeat.        *)
(***************************************************************************)
EXTENDS Integers, FiniteSets

CONSTANTS
  Request,      \* requests, each of which has one credential or ceremony to deal with
  Challenge,    \* identifiers of challenges, used once
  Key,          \* key pairs the user's devices have made
  Token,        \* API tokens
  MaxPasskeys,  \* MAX_PASSKEYS_PER_USER
  PerUser,      \* api_tokens_per_user
  MaxCount,     \* bounds the devices' counters
  MaxEvents     \* bounds removals, expiries, changes of the account and requests cut short

\* Asserted where the module is instantiated.
CredentialsAssumption ==
  /\ MaxPasskeys \in Nat /\ PerUser \in Nat /\ MaxCount \in Nat /\ MaxEvents \in Nat
  /\ IsFiniteSet(Key) /\ IsFiniteSet(Token)

VARIABLES
  status,      \* of the account
  challenges,  \* what each stored challenge is for, and whether its time is over
  passkeys,    \* the counter stored with each registered key
  tokens,      \* the state of each API token
  pc, op,      \* what each request does next, and what it is for
  seen,        \* the challenge, then the counter it has read
  used,        \* history: how often each challenge was accepted, and for what
  newest,      \* history: the newest counter accepted for each key
  copied,      \* history: keys with a counter accepted that was not newer
  together,    \* history: keys verified or registered while a sign-in with them was
  crowded,     \* history: ceremonies, or creations of tokens, have overlapped
  valid,       \* history: what each request relies on and has been there while it ran
  wrong,       \* history: requests were accepted that relied on something that never was
  events       \* how much of the bound is used

store == <<status, challenges, passkeys, tokens>>
request == <<pc, op, seen>>
counters == <<newest, copied, together>>
history == <<used, counters, crowded, valid, wrong>>
vars == <<store, request, history, events>>

NoOp == [kind |-> "none"]
Unissued == [purpose |-> "none", expired |-> FALSE]
Gone == [purpose |-> "gone", expired |-> FALSE]
Unregistered == -1

Init ==
  /\ status = "active"
  /\ challenges = [c \in Challenge |-> Unissued]
  /\ passkeys \in {[k \in Key |-> IF k \in have THEN 0 ELSE Unregistered] :
                     have \in {S \in SUBSET Key : Cardinality(S) <= MaxPasskeys}}
  /\ tokens = [t \in Token |-> "none"]
  /\ pc = [r \in Request |-> "idle"]
  /\ op = [r \in Request |-> NoOp]
  /\ seen = [r \in Request |-> Gone]
  /\ used = [c \in Challenge |-> 0]
  /\ newest = [k \in Key |-> 0]
  /\ copied = {} /\ together = {} /\ crowded = {}
  /\ valid = [r \in Request |-> {}]
  /\ wrong = {} /\ events = 0

-----------------------------------------------------------------------------
(* Requests.                                                               *)

Registered == {k \in Key : passkeys[k] # Unregistered}
Stored == {t \in Token : tokens[t] # "none"}

\* Tokens and keys that are good at this moment, and whether the account is.
There ==
  {<<"key", k>> : k \in Registered} \cup {<<"token", t>> : t \in {u \in Token : tokens[u] = "live"}}
    \cup (IF status = "active" THEN {<<"account">>} ELSE {})

ReliesOn(o) ==
  CASE o.kind = "login" -> {<<"key", o.key>>, <<"account">>}
    [] o.kind = "call" -> {<<"token", o.token>>, <<"account">>}
    [] OTHER -> {}

Event == events < MaxEvents /\ events' = events + 1

Goto(r, label) == pc' = [pc EXCEPT ![r] = label]

Begin(r, o, label) ==
  /\ pc[r] = "idle"
  /\ Goto(r, label)
  /\ op' = [op EXCEPT ![r] = o]
  /\ valid' = [valid EXCEPT ![r] = ReliesOn(o) \cap There]
  /\ UNCHANGED <<store, seen, used, counters, crowded, wrong, events>>

\* What was put in the store has been there for every request under way.
Watch == valid' = [r \in Request |-> valid[r] \cup (ReliesOn(op'[r]) \cap There')]

Leave(r) ==
  /\ Goto(r, "idle")
  /\ op' = [op EXCEPT ![r] = NoOp]
  /\ seen' = [seen EXCEPT ![r] = Gone]

Close(r) == Leave(r) /\ valid' = [valid EXCEPT ![r] = {}]

Accept(r) ==
  /\ Close(r)
  /\ wrong' = wrong \cup (ReliesOn(op[r]) \ valid[r])

\* Another one may be made.
Room(S, limit) == Cardinality(S) < limit

Refuse(r) == Close(r) /\ UNCHANGED wrong

-----------------------------------------------------------------------------
(* Challenges.                                                             *)

Unused == {c \in Challenge : challenges[c] = Unissued}
Kept(c) == challenges[c] \notin {Unissued, Gone}

Issue(c, purpose) ==
  /\ challenges' = [challenges EXCEPT ![c] = [purpose |-> purpose, expired |-> FALSE]]
  /\ UNCHANGED <<status, passkeys, tokens>>

LoginOptions(c) ==
  /\ c \in Unused
  /\ Issue(c, "login")
  /\ UNCHANGED <<request, history, events>>

\* Registrations begun and not at their end, besides this request's own.
OtherCeremonies(r) ==
  \/ \E c \in Challenge : challenges[c] = [purpose |-> "register", expired |-> FALSE]
  \/ \E q \in Request \ {r} : op[q].kind \in {"options", "register"}

RegistrationOptions(r) == Begin(r, [kind |-> "options"], "count_keys")

CountKeys(r) ==
  /\ pc[r] = "count_keys"
  /\ \/ ~Room(Registered, MaxPasskeys) /\ Refuse(r)
     \/ Room(Registered, MaxPasskeys) /\ Goto(r, "issue") /\ UNCHANGED <<op, seen, valid, wrong>>
  /\ crowded' = crowded \cup {x \in {"passkeys"} : OtherCeremonies(r)}
  /\ UNCHANGED <<store, used, counters, events>>

IssueRegistration(r) ==
  /\ pc[r] = "issue"
  /\ \E c \in Unused : Issue(c, "register")
  /\ Refuse(r)
  /\ UNCHANGED <<used, counters, crowded, events>>

TakeChallenge(r) ==
  /\ pc[r] = "take"
  /\ IF challenges[op[r].challenge] = Gone
     THEN Refuse(r)
     ELSE /\ seen' = [seen EXCEPT ![r] = challenges[op[r].challenge]]
          /\ Goto(r, "spend")
          /\ UNCHANGED <<op, valid, wrong>>
  /\ UNCHANGED <<store, used, counters, crowded, events>>

\* Faulty variant: whether this request has deleted it is not looked at.
Fits(r) == seen[r].purpose = op[r].kind

\* The challenge was deleted by this request, is for what it is used for and in time.
Spent(r) == Fits(r) /\ challenges[op[r].challenge] # Gone /\ ~challenges[op[r].challenge].expired

SpendChallenge(r) ==
  /\ pc[r] = "spend"
  /\ challenges' = [challenges EXCEPT ![op[r].challenge] = Gone]
  /\ IF Spent(r)
     THEN /\ used' = [used EXCEPT ![op[r].challenge] = @ + 1]
          /\ Goto(r, IF op[r].kind = "login" THEN "key" ELSE "insert_key")
          /\ UNCHANGED <<op, seen, valid, wrong>>
     ELSE Refuse(r) /\ UNCHANGED used
  /\ UNCHANGED <<status, passkeys, tokens, counters, crowded, events>>

-----------------------------------------------------------------------------
(* Passkeys.                                                               *)

Register(r) ==
  \E c \in Challenge, k \in Key, n \in {0, 1} :
    /\ n <= MaxCount
    /\ Kept(c)
    /\ Begin(r, [kind |-> "register", challenge |-> c, key |-> k, count |-> n], "take")

\* A sign-in with the key is verified and has not written the counter.
SigningIn(k) == \E q \in Request : pc[q] = "count" /\ op[q].key = k

\* credential_id is unique.
InsertKey(r) ==
  /\ pc[r] = "insert_key"
  /\ LET k == op[r].key IN
       \/ /\ k \in Registered
          /\ Refuse(r)
          /\ UNCHANGED <<store, counters>>
       \/ /\ k \notin Registered
          /\ passkeys' = [passkeys EXCEPT ![k] = op[r].count]
          /\ newest' = [newest EXCEPT ![k] = op[r].count]
          /\ together' = together \cup {x \in {k} : SigningIn(k)}
          /\ UNCHANGED <<status, challenges, tokens, copied, wrong>>
          /\ Leave(r)
          /\ Watch
  /\ UNCHANGED <<used, crowded, events>>

RemoveKey(k) ==
  /\ Event /\ k \in Registered
  /\ passkeys' = [passkeys EXCEPT ![k] = Unregistered]
  /\ UNCHANGED <<status, challenges, tokens, request, history>>

Login(r) ==
  \E c \in Challenge, k \in Key, n \in 0 .. MaxCount :
    /\ Kept(c)
    /\ Begin(r, [kind |-> "login", challenge |-> c, key |-> k, count |-> n], "take")

\* verify_authentication_response: a counter must go up, once there is one.
Newer(n, stored) == (n = 0 /\ stored = 0) \/ n > stored

VerifyKey(r) ==
  /\ pc[r] = "key"
  /\ LET k == op[r].key IN
       IF k \in Registered /\ Newer(op[r].count, passkeys[k])
       THEN /\ Goto(r, "count") /\ UNCHANGED <<op, seen, valid, wrong>>
            /\ together' = together \cup {x \in {k} : SigningIn(k)}
       ELSE Refuse(r) /\ UNCHANGED together
  /\ UNCHANGED <<store, used, newest, copied, crowded, events>>

\* Faulty variant: only that the key was used is written.
Unchanged(stored, n) == stored

\* The counter that is stored after a sign-in.
Counted(stored, n) == n

\* The update finds nothing when the key was removed meanwhile.
WriteCount(r) ==
  /\ pc[r] = "count"
  /\ LET k == op[r].key  n == op[r].count IN
       /\ passkeys' = [passkeys EXCEPT ![k] = IF @ = Unregistered THEN @ ELSE Counted(@, n)]
       /\ newest' = [newest EXCEPT ![k] = IF n > @ THEN n ELSE @]
       /\ copied' = copied \cup {x \in {k} : n > 0 /\ n <= newest[k]}
  /\ Goto(r, "account")
  /\ UNCHANGED <<status, challenges, tokens, op, seen, used, together, crowded, valid, wrong, events>>

MayEnter(state) == state = "active"

\* The user is read from the database, for a sign-in as for a call with a token.
ReadAccount(r) ==
  /\ pc[r] = "account"
  /\ IF MayEnter(status) THEN Accept(r) ELSE Refuse(r)
  /\ UNCHANGED <<store, used, counters, crowded, events>>

-----------------------------------------------------------------------------
(* API tokens.                                                             *)

Create(r) == Begin(r, [kind |-> "create"], "count_tokens")

CountTokens(r) ==
  /\ pc[r] = "count_tokens"
  /\ \/ ~Room(Stored, PerUser) /\ Refuse(r) /\ UNCHANGED crowded
     \/ /\ Room(Stored, PerUser)
        /\ Goto(r, "insert_token")
        /\ crowded' = crowded \cup {x \in {"tokens"} : \E q \in Request : pc[q] = "insert_token"}
        /\ UNCHANGED <<op, seen, valid, wrong>>
  /\ UNCHANGED <<store, used, counters, events>>

InsertToken(r) ==
  /\ pc[r] = "insert_token"
  /\ \E t \in Token : tokens[t] = "none" /\ tokens' = [tokens EXCEPT ![t] = "live"]
  /\ Leave(r)
  /\ UNCHANGED <<status, challenges, passkeys, used, counters, crowded, wrong, events>>
  /\ Watch

Revoke(t) ==
  /\ Event /\ t \in Stored
  /\ tokens' = [tokens EXCEPT ![t] = "none"]
  /\ UNCHANGED <<status, challenges, passkeys, request, history>>

Call(r) ==
  \E t \in Token : Begin(r, [kind |-> "call", token |-> t], "token")

ReadToken(r) ==
  /\ pc[r] = "token"
  /\ IF tokens[op[r].token] = "live"
     THEN Goto(r, "account") /\ UNCHANGED <<op, seen, valid, wrong>>
     ELSE Refuse(r)
  /\ UNCHANGED <<store, used, counters, crowded, events>>

-----------------------------------------------------------------------------
(* The administrator, time, and what goes wrong.                           *)

SetStatus(state) ==
  /\ Event /\ status \notin {state, "deleted"}
  /\ status' = state
  /\ UNCHANGED <<challenges, passkeys, tokens, request, used, counters, crowded, wrong>>
  /\ Watch

\* Time-to-live indexes delete what has expired some time later.
ChallengeExpires(c) ==
  /\ Event /\ Kept(c)
  /\ challenges' = [challenges EXCEPT ![c] = IF @.expired THEN Gone ELSE [@ EXCEPT !.expired = TRUE]]
  /\ UNCHANGED <<status, passkeys, tokens, request, history>>

TokenExpires(t) ==
  /\ Event /\ t \in Stored
  /\ tokens' = [tokens EXCEPT ![t] = IF @ = "live" THEN "expired" ELSE "none"]
  /\ UNCHANGED <<status, challenges, passkeys, request, history>>

Cut(r) ==
  /\ Event /\ pc[r] # "idle"
  /\ Refuse(r)
  /\ UNCHANGED <<store, used, counters, crowded>>

-----------------------------------------------------------------------------
Next ==
  \/ \E r \in Request :
       \/ RegistrationOptions(r) \/ CountKeys(r) \/ IssueRegistration(r)
       \/ TakeChallenge(r) \/ SpendChallenge(r) \/ Register(r) \/ InsertKey(r)
       \/ Login(r) \/ VerifyKey(r) \/ WriteCount(r) \/ ReadAccount(r)
       \/ Create(r) \/ CountTokens(r) \/ InsertToken(r) \/ Call(r) \/ ReadToken(r) \/ Cut(r)
  \/ \E c \in Challenge : LoginOptions(c) \/ ChallengeExpires(c)
  \/ \E k \in Key : RemoveKey(k)
  \/ \E t \in Token : Revoke(t) \/ TokenExpires(t)
  \/ \E state \in {"active", "suspended", "deleted"} : SetStatus(state)

Spec == Init /\ [][Next]_vars

-----------------------------------------------------------------------------
\* A challenge is good for one answer, sent once or twice or by two requests together, and one
\* issued to register a key never signs anybody in.
ChallengesWorkOnce == \A c \in Challenge : used[c] <= 1

\* Whoever has copied a key is found out by its counter, or else signs in at the very moment
\* the owner does: the counter is compared with the one that was read.
CopiesAreFound == copied \subseteq together

\* Keys and tokens stay within their limits as long as registrations come one after another
\* from the options to the end, and creations of tokens from the count to the insert.
WithinLimits ==
  /\ "passkeys" \notin crowded => Cardinality(Registered) <= MaxPasskeys
  /\ "tokens" \notin crowded => Cardinality(Stored) <= PerUser

\* Nobody gets in by a key, a token or an account that was removed, revoked, expired or
\* suspended before the request came: what is removed is refused at once.
RemovedIsRefused == wrong = {}

\* Between them: a credential that is copied, spent, removed or past a limit opens nothing.
CredentialsHold == ChallengesWorkOnce /\ CopiesAreFound /\ WithinLimits /\ RemovedIsRefused
=============================================================================
