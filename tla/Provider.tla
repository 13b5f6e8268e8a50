------------------------------ MODULE Provider ------------------------------
(***************************************************************************)
(* Sign-ins under way with one OpenID Connect provider                     *)
(* (app/services/oauth/oidc.py, app/api/routes/oauth.py): the browser is   *)
(* sent to the provider with an attempt it must bring back in a cookie,    *)
(* and the provider's answer is exchanged and verified in a process that   *)
(* keeps the provider's endpoints and its signing keys.                    *)
(*                                                                         *)
(* The provider is outside: it answers each attempt, gives a code away     *)
(* once, and replaces its keys, publishing a new one beside the last.      *)
(***************************************************************************)
EXTENDS Naturals, FiniteSets

CONSTANTS
  Visit,        \* requests to the two routes
  Browser,
  MaxAttempts,  \* bounds the attempts begun
  MaxKeys,      \* bounds the keys the provider ever has
  MaxFaults     \* bounds failed calls to the provider and restarts

ASSUME ProviderAssumption == MaxAttempts \in Nat /\ MaxKeys \in Nat \ {0} /\ MaxFaults \in Nat

VARIABLES
  idTokens,     \* whether the provider gives ID tokens, or userinfo only
  newest,       \* the provider's newest key, with which it signs
  codes,        \* the attempts whose code it has not exchanged yet
  begun,        \* how many attempts there have been
  cookie,       \* what each browser brings back, 0 if nothing
  known,        \* the process knows the endpoints
  holder,       \* who holds the lock on finding them out, if anybody
  keys,         \* the keys it has kept
  visits,       \* the requests
  signedIn,     \* history: the attempt that was asked for and the one that was answered
  refusedKeys,  \* history: a key was refused although the provider published it all along
  trouble

provider == <<idTokens, newest, codes>>
process == <<known, holder, keys>>
seen == <<signedIn, refusedKeys>>
signInVars == <<provider, begun, cookie, process, visits, seen, trouble>>

Free == 0
Idle == [at |-> "idle"]
Published == {k \in {newest - 1, newest} : k > 0}

ProviderInit ==
  /\ idTokens \in BOOLEAN /\ newest = 1 /\ codes = {}
  /\ begun = 0 /\ cookie = [b \in Browser |-> 0]
  /\ known = FALSE /\ holder = Free /\ keys = {}
  /\ visits = [v \in Visit |-> Idle]
  /\ signedIn = {} /\ refusedKeys = FALSE /\ trouble = 0

At(v, label) == visits[v].at = label
Move(v, label) == visits' = [visits EXCEPT ![v].at = label]
End(v) == visits' = [visits EXCEPT ![v] = Idle]
Fault == trouble < MaxFaults /\ trouble' = trouble + 1

-----------------------------------------------------------------------------
(* The two routes.                                                         *)

Authorize(v, b) ==
  /\ At(v, "idle")
  /\ visits' = [visits EXCEPT ![v] =
       [at |-> "metadata", then |-> "redirect", browser |-> b, attempt |-> 0, answer |-> 0,
        key |-> 0, fresh |-> FALSE, got |-> {}]]
  /\ UNCHANGED <<provider, begun, cookie, process, seen, trouble>>

\* A later attempt of the same browser takes the cookie of an earlier one.
Redirect(v) ==
  /\ At(v, "redirect") /\ begun < MaxAttempts
  /\ begun' = begun + 1
  /\ cookie' = [cookie EXCEPT ![visits[v].browser] = begun']
  /\ codes' = codes \cup {begun'}
  /\ End(v)
  /\ UNCHANGED <<idTokens, newest, process, seen, trouble>>

\* Faulty variant: any attempt that the browser has will do.
SomeAttempt(attempt, answer) == attempt # 0

\* The state in the query is compared with the one in the cookie.
SameState(attempt, answer) == attempt # 0 /\ attempt = answer

\* The answer to an attempt comes back, late or again, in any tab.
Callback(v, b, answer) ==
  /\ At(v, "idle") /\ answer \in 1 .. begun
  /\ SameState(cookie[b], answer)
  /\ visits' = [visits EXCEPT ![v] =
       [at |-> "metadata", then |-> "exchange", browser |-> b, attempt |-> cookie[b],
        answer |-> answer, key |-> 0, fresh |-> FALSE, got |-> {}]]
  /\ UNCHANGED <<provider, begun, cookie, process, seen, trouble>>

-----------------------------------------------------------------------------
(* metadata: the endpoints are found out once.                             *)

Metadata(v) ==
  /\ At(v, "metadata")
  /\ Move(v, IF known THEN visits[v].then ELSE "waiting")
  /\ UNCHANGED <<provider, begun, cookie, process, seen, trouble>>

Lock(v) ==
  /\ At(v, "waiting") /\ holder = Free
  /\ holder' = v /\ Move(v, "locked")
  /\ UNCHANGED <<provider, begun, cookie, known, keys, seen, trouble>>

\* The endpoints are asked for again only if nobody has found them out meanwhile.
Unknown == ~known

Discover(v) ==
  /\ At(v, "locked")
  /\ holder' = Free
  /\ \/ /\ Unknown
        /\ known' = TRUE
        /\ Move(v, visits[v].then)
        /\ UNCHANGED trouble
     \/ /\ Unknown
        /\ Fault /\ End(v)
        /\ UNCHANGED known
     \/ /\ ~Unknown
        /\ Move(v, visits[v].then)
        /\ UNCHANGED <<known, trouble>>
  /\ UNCHANGED <<provider, begun, cookie, keys, seen>>

-----------------------------------------------------------------------------
(* identity: the code is exchanged, and an ID token verified.              *)

Exchange(v) ==
  LET w == visits[v] IN
  /\ At(v, "exchange")
  /\ IF w.answer \in codes
     THEN /\ codes' = codes \ {w.answer}
          /\ visits' = [visits EXCEPT ![v].at = IF idTokens THEN "key" ELSE "answered",
                                      ![v].key = newest]
     ELSE End(v) /\ UNCHANGED codes
  /\ UNCHANGED <<idTokens, newest, begun, cookie, process, seen, trouble>>

ExchangeFails(v) ==
  /\ visits[v].at \in {"exchange", "fetch"}
  /\ Fault /\ End(v)
  /\ UNCHANGED <<provider, begun, cookie, process, seen>>

\* A key that is not among those kept may have come after them.
AskAgain(fresh) == ~fresh

\* What becomes of a visit once the keys that are kept are K.
Judged(w, K) ==
  [w EXCEPT !.at = IF w.key \in K THEN "answered" ELSE IF AskAgain(w.fresh) THEN "fetch" ELSE "refused",
            !.fresh = w.key \notin K]

SigningKey(v) ==
  /\ At(v, "key")
  /\ visits' = [visits EXCEPT ![v] = IF keys = {} THEN [@ EXCEPT !.at = "fetch"] ELSE Judged(@, keys)]
  /\ UNCHANGED <<provider, begun, cookie, process, seen, trouble>>

\* The answer of the provider takes its time: it holds the keys of when it was made.
FetchKeys(v) ==
  /\ At(v, "fetch")
  /\ visits' = [visits EXCEPT ![v].at = "fetched", ![v].got = Published]
  /\ UNCHANGED <<provider, begun, cookie, process, seen, trouble>>

StoreKeys(v) ==
  /\ At(v, "fetched")
  /\ keys' = visits[v].got
  /\ visits' = [visits EXCEPT ![v] = Judged([@ EXCEPT !.got = {}], keys')]
  /\ UNCHANGED <<provider, begun, cookie, known, holder, seen, trouble>>

Refuse(v) ==
  /\ At(v, "refused")
  /\ refusedKeys' = (refusedKeys \/ visits[v].key \in Published)
  /\ End(v)
  /\ UNCHANGED <<provider, begun, cookie, process, signedIn, trouble>>

\* The nonce is that of the attempt.
LetIn(v) ==
  LET w == visits[v] IN
  /\ At(v, "answered")
  /\ IF idTokens /\ w.answer # w.attempt
     THEN UNCHANGED <<signedIn, cookie>>
     ELSE /\ signedIn' = signedIn \cup {<<w.attempt, w.answer>>}
          /\ cookie' = [cookie EXCEPT ![w.browser] = 0]
  /\ End(v)
  /\ UNCHANGED <<provider, begun, process, refusedKeys, trouble>>

-----------------------------------------------------------------------------
Rotate ==
  /\ newest < MaxKeys /\ newest' = newest + 1
  /\ UNCHANGED <<idTokens, codes, begun, cookie, process, visits, seen, trouble>>

Restart ==
  /\ Fault
  /\ known' = FALSE /\ holder' = Free /\ keys' = {}
  /\ visits' = [v \in Visit |-> Idle]
  /\ UNCHANGED <<provider, begun, cookie, seen>>

ProviderNext ==
  \/ \E v \in Visit :
       \/ \E b \in Browser : Authorize(v, b) \/ \E a \in 1 .. MaxAttempts : Callback(v, b, a)
       \/ Metadata(v) \/ Lock(v) \/ Discover(v) \/ Redirect(v)
       \/ Exchange(v) \/ ExchangeFails(v) \/ SigningKey(v) \/ FetchKeys(v) \/ StoreKeys(v)
       \/ Refuse(v) \/ LetIn(v)
  \/ Rotate \/ Restart

-----------------------------------------------------------------------------
\* Whatever tabs and sign-ins overlap in a browser, one is completed only with the answer to the
\* attempt the browser brought back.
AnswersTheAttempt == \A s \in signedIn : s[1] = s[2]

\* However the keys that are kept are replaced, by answers that come late too, no token is refused
\* for a key that the provider still publishes.
KeysAreFound == ~refusedKeys

\* Between them: a browser that comes back with its own attempt's answer is signed in.
ProviderHolds == AnswersTheAttempt /\ KeysAreFound
=============================================================================
