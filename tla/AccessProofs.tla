----------------------------- MODULE AccessProofs -----------------------------
(***************************************************************************)
(* TLAPS proofs about what MCAccounts puts beside each other, each from    *)
(* its own specification and for every value of the constants: sign-ins    *)
(* with a provider (Provider), passkeys and API tokens (Credentials), and  *)
(* the accounts that registrations and identities make (Accounts).         *)
(***************************************************************************)
EXTENDS MCAccounts, FiniteSetTheorems, TLAPS

-----------------------------------------------------------------------------
(* Sign-in with a provider.                                                *)

ProviderSpec == ProviderInit /\ [][ProviderNext]_signInVars

VisitSteps ==
  {"metadata", "waiting", "locked", "redirect", "exchange", "key", "fetch", "fetched", "answered",
   "refused"}

SignIns ==
  [at : VisitSteps, then : {"redirect", "exchange"}, browser : Browser, attempt : Nat,
   answer : Nat, key : Nat, fresh : BOOLEAN, got : SUBSET Nat]

ProviderTyped ==
  /\ newest \in Nat \ {0}
  /\ begun \in Nat
  /\ cookie \in [Browser -> Nat]
  /\ visits \in [Visit -> SignIns \cup {Idle}]

\* The provider has gone on to other keys.
Retired(k) == k < newest - 1

\* A sign-in answers the attempt that was brought back; its key is one the provider has had, and
\* one that is missed among those it has got was retired before they were asked for.
InOrder(w) ==
  /\ w.attempt = w.answer
  /\ w.key <= newest
  /\ w.at \in {"key", "fetch", "fetched", "refused"} => w.key > 0
  /\ w.at = "fetched" => w.key \in w.got \/ Retired(w.key)
  /\ w.at = "refused" => Retired(w.key)
  /\ w.fresh => w.at \in {"fetch", "fetched", "refused"}

ProviderInv ==
  /\ ProviderTyped
  /\ \A v \in Visit : visits[v] # Idle => InOrder(visits[v])
  /\ ProviderHolds

LEMMA IdleIsOne ==
  ASSUME NEW w \in SignIns \cup {Idle}
  PROVE  /\ w = Idle <=> w.at = "idle"
         /\ w.at # "idle" => w \in SignIns
BY DEF Idle, SignIns, VisitSteps

LEMMA ProviderStarts == ProviderInit => ProviderInv
BY DEF ProviderInit, ProviderInv, ProviderTyped, ProviderHolds, AnswersTheAttempt, KeysAreFound

\* A step of one visit: what it comes to be is in order, and nothing bad was seen.
LEMMA VisitStep ==
  ASSUME ProviderInv, NEW v \in Visit, NEW w \in SignIns \cup {Idle},
         visits' = [visits EXCEPT ![v] = w], w # Idle => InOrder(w),
         newest' = newest, begun' \in Nat, cookie' \in [Browser -> Nat], ProviderHolds'
  PROVE  ProviderInv'
<1>1. ProviderTyped'
  BY DEF ProviderInv, ProviderTyped
<1>2. ASSUME NEW u \in Visit, visits'[u] # Idle PROVE InOrder(visits[u])'
  BY <1>2 DEF ProviderInv, ProviderTyped, InOrder, Retired
<1> QED BY <1>1, <1>2 DEF ProviderInv

LEMMA SameSeen ==
  ASSUME ProviderInv, UNCHANGED seen
  PROVE  ProviderHolds'
BY DEF ProviderInv, ProviderHolds, AnswersTheAttempt, KeysAreFound, seen

\* A move that leaves everything else of a visit as it is.
LEMMA MoveStep ==
  ASSUME ProviderInv, NEW v \in Visit, visits[v] # Idle,
         NEW s \in VisitSteps, Move(v, s),
         ~visits[v].fresh, s \notin {"key", "fetch", "fetched", "refused"},
         newest' = newest, begun' = begun, cookie' = cookie, UNCHANGED seen
  PROVE  ProviderInv'
<1> DEFINE w == [visits[v] EXCEPT !.at = s]
<1>1. visits[v] \in SignIns /\ InOrder(visits[v]) /\ begun' \in Nat
      /\ cookie' \in [Browser -> Nat]
  BY DEF ProviderInv, ProviderTyped
<1>2. w \in SignIns /\ InOrder(w)
  BY <1>1 DEF SignIns, InOrder
<1>3. visits' = [visits EXCEPT ![v] = w]
  BY DEF Move
<1> HIDE DEF w
<1> QED BY <1>1, <1>2, <1>3, SameSeen, VisitStep

LEMMA EndsStep ==
  ASSUME ProviderInv, NEW v \in Visit, End(v), newest' = newest, begun' \in Nat,
         cookie' \in [Browser -> Nat], ProviderHolds'
  PROVE  ProviderInv'
BY VisitStep DEF End

LEMMA RoutesStep ==
  ASSUME ProviderInv, NEW v \in Visit,
         \/ Redirect(v)
         \/ \E b \in Browser : Authorize(v, b) \/ \E a \in 1 .. MaxAttempts : Callback(v, b, a)
  PROVE  ProviderInv'
<1> USE DEF provider, process
<1>1. newest \in Nat \ {0} /\ begun \in Nat /\ cookie \in [Browser -> Nat]
      /\ visits[v] \in SignIns \cup {Idle}
  BY DEF ProviderInv, ProviderTyped
<1>2. CASE Redirect(v)
  <2>1. visits[v].browser \in Browser
    BY <1>1, <1>2, IdleIsOne DEF Redirect, At, SignIns
  <2>2. begun' \in Nat /\ cookie' \in [Browser -> Nat]
    BY <1>1, <1>2, <2>1 DEF Redirect
  <2>3. ProviderHolds'
    BY <1>2, SameSeen DEF Redirect
  <2> QED BY <1>2, <2>2, <2>3, EndsStep DEF Redirect
<1>3. ASSUME NEW b \in Browser, Authorize(v, b) PROVE ProviderInv'
  <2> DEFINE w == [at |-> "metadata", then |-> "redirect", browser |-> b, attempt |-> 0,
                   answer |-> 0, key |-> 0, fresh |-> FALSE, got |-> {}]
  <2>1. w \in SignIns /\ InOrder(w)
    BY <1>1 DEF SignIns, VisitSteps, InOrder
  <2>2. visits' = [visits EXCEPT ![v] = w] /\ UNCHANGED <<newest, begun, cookie>> /\ UNCHANGED seen
    BY <1>3 DEF Authorize
  <2> HIDE DEF w
  <2> QED BY <1>1, <2>1, <2>2, SameSeen, VisitStep
<1>4. ASSUME NEW b \in Browser, NEW a \in 1 .. MaxAttempts, Callback(v, b, a) PROVE ProviderInv'
  <2> DEFINE w == [at |-> "metadata", then |-> "exchange", browser |-> b, attempt |-> cookie[b],
                   answer |-> a, key |-> 0, fresh |-> FALSE, got |-> {}]
  <2>1. cookie[b] = a /\ a \in Nat
    BY <1>1, <1>4, ProviderAssumption DEF Callback, SameState
  <2>2. w \in SignIns /\ InOrder(w)
    BY <1>1, <2>1 DEF SignIns, VisitSteps, InOrder
  <2>3. visits' = [visits EXCEPT ![v] = w] /\ UNCHANGED <<newest, begun, cookie>> /\ UNCHANGED seen
    BY <1>4 DEF Callback
  <2> HIDE DEF w
  <2> QED BY <1>1, <2>2, <2>3, SameSeen, VisitStep
<1> QED BY <1>2, <1>3, <1>4

LEMMA MetadataStep ==
  ASSUME ProviderInv, NEW v \in Visit, Metadata(v) \/ Lock(v) \/ Discover(v)
  PROVE  ProviderInv'
<1> USE DEF provider, process
<1>1. /\ visits[v] # Idle /\ visits[v].then \in {"redirect", "exchange"}
      /\ ~visits[v].fresh /\ begun \in Nat /\ cookie \in [Browser -> Nat]
  BY IdleIsOne DEF InOrder, Metadata, Lock, Discover, At, ProviderInv, ProviderTyped, SignIns, Idle
<1>2. visits[v].then \in VisitSteps /\ "waiting" \in VisitSteps /\ "locked" \in VisitSteps
  BY <1>1 DEF VisitSteps
<1>3. CASE Metadata(v)
  BY <1>1, <1>2, <1>3, MoveStep DEF Metadata
<1>4. CASE Lock(v)
  BY <1>1, <1>2, <1>4, MoveStep DEF Lock
<1>5. CASE Discover(v)
  BY <1>1, <1>2, <1>5, MoveStep, EndsStep, SameSeen DEF Discover
<1> QED BY <1>3, <1>4, <1>5

\* What a sign-in comes to once it is judged by the keys K.
LEMMA JudgedInOrder ==
  ASSUME newest \in Nat, NEW w \in SignIns, w.attempt = w.answer, w.key > 0, w.key <= newest,
         NEW K, w.fresh => w.key \in K \/ Retired(w.key)
  PROVE  Judged(w, K) \in SignIns /\ InOrder(Judged(w, K))
<1> DEFINE s == IF w.key \in K THEN "answered" ELSE IF AskAgain(w.fresh) THEN "fetch" ELSE "refused"
           f == w.key \notin K
           x == [w EXCEPT !.at = s]
<1>1. s \in {"answered", "fetch", "refused"} /\ (s = "refused" => w.key \notin K /\ w.fresh)
  BY DEF AskAgain, SignIns
<1>2. f \in BOOLEAN
  OBVIOUS
<1>3. Judged(w, K) = [x EXCEPT !.fresh = f]
  BY DEF Judged, SignIns
<1> HIDE DEF s, f
<1>4. /\ x \in SignIns /\ x.at = s /\ x.attempt = x.answer /\ x.key = w.key
  BY <1>1 DEF SignIns, VisitSteps
<1> HIDE DEF x
<1>5. [x EXCEPT !.fresh = f] \in SignIns
  BY <1>2, <1>4 DEF SignIns
<1>6. InOrder([x EXCEPT !.fresh = f])
  <2>1. f => s # "answered"
    BY DEF f, s, AskAgain
  <2> QED BY <1>1, <1>2, <1>4, <2>1 DEF SignIns, InOrder
<1> QED BY <1>3, <1>5, <1>6

LEMMA IdentityStep ==
  ASSUME ProviderInv, NEW v \in Visit,
         Exchange(v) \/ ExchangeFails(v) \/ SigningKey(v) \/ FetchKeys(v) \/ StoreKeys(v)
  PROVE  ProviderInv'
<1> USE DEF provider, process
<1>1. newest \in Nat \ {0} /\ begun \in Nat /\ cookie \in [Browser -> Nat]
      /\ visits[v] \in SignIns /\ InOrder(visits[v])
  BY IdleIsOne DEF ProviderInv, ProviderTyped, Exchange, ExchangeFails, SigningKey, FetchKeys,
                   StoreKeys, At, SignIns
<1>2. UNCHANGED <<newest, begun, cookie>> /\ UNCHANGED seen
  BY DEF Exchange, ExchangeFails, SigningKey, FetchKeys, StoreKeys, Fault
<1>3. ASSUME NEW w \in SignIns, InOrder(w), visits' = [visits EXCEPT ![v] = w]
      PROVE  ProviderInv'
  BY <1>1, <1>2, <1>3, SameSeen, VisitStep
<1>4. CASE End(v)
  BY <1>1, <1>2, <1>4, SameSeen, EndsStep
<1>5. CASE Exchange(v)
  <2> DEFINE s == IF idTokens THEN "key" ELSE "answered"
             w == [visits[v] EXCEPT !.at = s, !.key = newest]
  <2>1. s \in {"key", "answered"}
    OBVIOUS
  <2>2. End(v) \/ visits' = [visits EXCEPT ![v] = w]
    BY <1>5 DEF Exchange, ProviderInv, ProviderTyped
  <2> HIDE DEF s
  <2>3. w \in SignIns /\ InOrder(w)
    <3>1. ~visits[v].fresh
      BY <1>1, <1>5 DEF Exchange, At, InOrder
    <3>2. w \in SignIns
      BY <1>1, <2>1 DEF SignIns, VisitSteps
    <3>3. /\ w.attempt = w.answer /\ w.at \in {"key", "answered"} /\ w.key = newest
          /\ ~w.fresh
      BY <1>1, <2>1, <3>1 DEF SignIns, InOrder
    <3> QED BY <1>1, <3>2, <3>3 DEF InOrder
  <2> HIDE DEF w
  <2> QED BY <1>3, <1>4, <2>2, <2>3
<1>6. CASE ExchangeFails(v)
  BY <1>4, <1>6 DEF ExchangeFails
<1>7. CASE SigningKey(v)
  <2>1. visits[v].key > 0
    BY <1>1, <1>7 DEF SigningKey, At, InOrder
  <2>2. CASE keys = {}
    <3> DEFINE w == [visits[v] EXCEPT !.at = "fetch"]
    <3>1. w \in SignIns /\ InOrder(w)
      BY <1>1, <2>1 DEF SignIns, VisitSteps, InOrder
    <3>2. visits' = [visits EXCEPT ![v] = w]
      BY <1>7, <2>2 DEF SigningKey
    <3> HIDE DEF w
    <3> QED BY <1>3, <3>1, <3>2
  <2>3. CASE keys # {}
    <3>1. visits' = [visits EXCEPT ![v] = Judged(visits[v], keys)]
      BY <1>7, <2>3 DEF SigningKey
    <3>2. visits[v].attempt = visits[v].answer /\ visits[v].key <= newest /\ ~visits[v].fresh
      BY <1>1, <1>7 DEF SigningKey, At, InOrder
    <3> QED BY <1>1, <1>3, <2>1, <3>1, <3>2, JudgedInOrder
  <2> QED BY <2>2, <2>3
<1>8. CASE FetchKeys(v)
  <2> DEFINE w == [visits[v] EXCEPT !.at = "fetched", !.got = Published]
  <2>1. Published \in SUBSET Nat
    BY <1>1 DEF Published
  <2>2. visits[v].key \in Published \/ Retired(visits[v].key)
    BY <1>1, <1>8 DEF Published, Retired, FetchKeys, At, InOrder, SignIns
  <2>3. w \in SignIns /\ InOrder(w)
    BY <1>1, <1>8, <2>1, <2>2 DEF SignIns, VisitSteps, InOrder, FetchKeys, At
  <2>4. visits' = [visits EXCEPT ![v] = w]
    BY <1>8 DEF FetchKeys, ProviderInv, ProviderTyped
  <2> HIDE DEF w
  <2> QED BY <1>3, <2>3, <2>4
<1>9. CASE StoreKeys(v)
  <2> DEFINE x == [visits[v] EXCEPT !.got = {}]
  <2>1. /\ x \in SignIns /\ x.attempt = x.answer /\ x.key > 0 /\ x.key <= newest
        /\ x.key \in visits[v].got \/ Retired(x.key)
    BY <1>1, <1>9 DEF SignIns, InOrder, StoreKeys, At
  <2>2. visits' = [visits EXCEPT ![v] = Judged(x, visits[v].got)]
    BY <1>9 DEF StoreKeys
  <2> HIDE DEF x
  <2> QED BY <1>1, <1>3, <2>1, <2>2, JudgedInOrder
<1> QED BY <1>5, <1>6, <1>7, <1>8, <1>9

LEMMA AnswerStep ==
  ASSUME ProviderInv, NEW v \in Visit, Refuse(v) \/ LetIn(v)
  PROVE  ProviderInv'
<1> USE DEF provider, process
<1>1. newest \in Nat \ {0} /\ begun \in Nat /\ cookie \in [Browser -> Nat]
      /\ visits[v] \in SignIns /\ InOrder(visits[v]) /\ ProviderHolds
  BY IdleIsOne DEF ProviderInv, ProviderTyped, Refuse, LetIn, At, SignIns
<1>2. CASE Refuse(v)
  <2>1. visits[v].key \notin Published
    BY <1>1, <1>2 DEF Refuse, At, InOrder, Retired, Published, SignIns
  <2>2. ProviderHolds'
    BY <1>1, <1>2, <2>1 DEF Refuse, ProviderHolds, AnswersTheAttempt, KeysAreFound
  <2> QED BY <1>1, <1>2, <2>2, EndsStep DEF Refuse
<1>3. CASE LetIn(v)
  <2>1. visits[v].attempt = visits[v].answer /\ visits[v].browser \in Browser
    BY <1>1 DEF InOrder, SignIns
  <2>2. cookie' \in [Browser -> Nat]
    BY <1>1, <1>3, <2>1 DEF LetIn
  <2>3. ProviderHolds'
    BY <1>1, <1>3, <2>1 DEF LetIn, ProviderHolds, AnswersTheAttempt, KeysAreFound
  <2> QED BY <1>1, <1>3, <2>2, <2>3, EndsStep DEF LetIn
<1> QED BY <1>2, <1>3

LEMMA ProviderStep == ProviderInv /\ [ProviderNext]_signInVars => ProviderInv'
<1> SUFFICES ASSUME ProviderInv, [ProviderNext]_signInVars PROVE ProviderInv'
  OBVIOUS
<1> USE DEF provider, process
<1>1. CASE UNCHANGED signInVars
  <2>1. UNCHANGED <<newest, begun, cookie, visits>> /\ UNCHANGED seen
    BY <1>1 DEF signInVars
  <2>2. \A v \in Visit : InOrder(visits[v]) => InOrder(visits[v])'
    BY <2>1 DEF InOrder, Retired
  <2> QED BY <2>1, <2>2, SameSeen DEF ProviderInv, ProviderTyped
<1>2. CASE Rotate
  <2>1. newest' = newest + 1 /\ UNCHANGED <<begun, cookie, visits>> /\ UNCHANGED seen
    BY <1>2 DEF Rotate
  <2>2. ASSUME NEW v \in Visit, visits[v] # Idle PROVE InOrder(visits[v])'
    <3>1. InOrder(visits[v]) /\ visits[v] \in SignIns /\ newest \in Nat
      BY <2>2 DEF ProviderInv, ProviderTyped
    <3> QED BY <2>1, <3>1 DEF InOrder, Retired, SignIns
  <2> QED BY <2>1, <2>2, SameSeen DEF ProviderInv, ProviderTyped
<1>3. CASE Restart
  BY <1>3, SameSeen DEF Restart, ProviderInv, ProviderTyped
<1> QED
  BY <1>1, <1>2, <1>3, RoutesStep, MetadataStep, IdentityStep, AnswerStep DEF ProviderNext

\* For any browsers, tabs, attempts, keys and faults: a sign-in is completed with the answer to the
\* attempt the browser brought back, and no token is refused for a key that is published.
THEOREM SignInsAnswer == ProviderSpec => []ProviderHolds
<1>1. ProviderInv => ProviderHolds
  BY DEF ProviderInv
<1> QED BY <1>1, ProviderStarts, ProviderStep, PTL DEF ProviderSpec

-----------------------------------------------------------------------------
(* Accounts.                                                               *)

LEMMA SameCountOfAccounts == \A S : A!Cardinality(S) = Cardinality(S)
BY DEF A!Cardinality, Cardinality

Names ==
  {c.name : c \in Given} \cup {AdminName} \cup {Candidates[i] : i \in 1 .. Len(Candidates)}
Addresses == {c.email : c \in Given} \cup {AdminAddress, Own}

\* What is registered: the first administrator's role goes with the administrator's name.
UserForms == [name : Names, email : Addresses, role : {"user"}]
Forms == UserForms \cup {A!Form(AdminName, AdminAddress, "admin")}

Person ==
  [name : Names, email : Addresses, role : {"user", "admin"}, verified : BOOLEAN,
   password : {"old", "new", "none"}, hash : {"unset", "none"}]

\* What a request at each step is for.
KindsAt(label) ==
  CASE label = "idle" -> {"none"}
    [] label \in {"count", "by_name", "by_email"} -> {"register"}
    [] label = "create" -> {"register", "provider"}
    [] label = "revoke" -> {"provider", "reset", "delete"}
    [] label = "open" -> {"provider", "old", "new"}
    [] label = "delete" -> {"delete"}
    [] OTHER -> {"provider"}

AccountSteps ==
  {"idle", "count", "by_name", "by_email", "create", "linked", "linked_user", "local", "clear",
   "revoke", "link", "name", "open", "delete"}

WhatFor == {"none", "register", "provider", "old", "new", "reset", "delete"}

RequestsTyped ==
  /\ step \in [Request -> AccountSteps] /\ kind \in [Request -> WhatFor]
  /\ form \in [Request -> Forms \cup {A!NoForm}] /\ target \in [Request -> {A!Nobody} \cup A!Account]

AccountsTyped ==
  /\ users \in [A!Account -> Person \cup {A!Absent}]
  /\ made \in 0 .. MaxAccounts
  /\ links \in Seq(A!Account)
  /\ sessions \subseteq [account : A!Account, by : {"provider", "old", "new"}]
  /\ RequestsTyped
  /\ took \subseteq Request /\ claimed \subseteq A!Account /\ cleared \subseteq A!Account

\* Accounts are numbered as they are made.
Numbered == \A a \in A!Existing \cup cleared : a \in 1 .. made

\* An account that was made and has the identity's address, if it is still there.
Owns(a) == a \in 1 .. made /\ (a \in A!Existing => users[a].email = Own)

\* A request that signs in with the provider is about an account of the identity's address.
Way(r) ==
  /\ kind[r] \in KindsAt(step[r])
  /\ step[r] \in {"count", "by_name", "by_email", "create"} => form[r] \in Forms
  /\ step[r] = "create" /\ kind[r] = "provider" => form[r].email = Own
  /\ step[r] \in {"linked_user", "clear", "revoke", "link", "open"} /\ kind[r] = "provider"
       => Owns(target[r])
  /\ step[r] \in {"revoke", "open", "delete"} => target[r] \in 1 .. made

Distinct ==
  /\ \A a, b \in A!Existing :
       users[a].name = users[b].name \/ users[a].email = users[b].email => a = b
  /\ \A a \in A!Existing : users[a].role = "admin" => users[a].name = AdminName

LinkedOnce ==
  /\ \A i \in 1 .. Len(links) : Owns(links[i])
  /\ \A i, j \in 1 .. Len(links) : links[i] = links[j] => i = j

\* A password that was removed is not brought back.
Hashes == \A a \in A!Existing : users[a].hash = IF a \in cleared THEN "none" ELSE "unset"

\* Nobody is entering an account with a password, and nobody can begin to.
Shut(a) == a \in cleared /\ ~A!Entering(a)
Emptied(a) == \A s \in sessions : s.account = a => s.by = "provider"

TookIsShut ==
  \A r \in took :
    /\ step[r] \in {"revoke", "link", "open"} /\ kind[r] = "provider"
    /\ Shut(target[r])
    /\ step[r] = "link" => Emptied(target[r])

ClaimedIsShut == \A a \in claimed : Shut(a) /\ Emptied(a)

\* As long as no account was deleted, all that were made are there, the one the identity was led
\* to among them.
AtHome ==
  /\ home \in {A!Nobody, A!Unknown} \cup A!Account
  /\ home # A!Unknown => \A a \in 1 .. made : a \in A!Existing
  /\ home \notin {A!Nobody, A!Unknown} => Owns(home)

AccountsInv ==
  /\ AccountsTyped
  /\ Numbered
  /\ \A r \in Request : Way(r)
  /\ Distinct
  /\ LinkedOnce
  /\ Hashes
  /\ TookIsShut
  /\ ClaimedIsShut
  /\ AtHome

-----------------------------------------------------------------------------
(* Accounts.                                                               *)

LEMMA PersonIsThere ==
  ASSUME NEW u \in Person
  PROVE  u # A!Absent
<1>1. "email" \in DOMAIN u
  BY DEF Person
<1>2. "email" \notin DOMAIN A!Absent
  BY DEF A!Absent
<1> QED BY <1>1, <1>2

LEMMA ExistingArePeople ==
  ASSUME AccountsTyped, NEW a \in A!Existing
  PROVE  a \in A!Account /\ users[a] \in Person
BY DEF AccountsTyped, A!Existing

\* Whoever was made keeps the name, the address and the role.
Kept ==
  /\ made <= made' /\ made' \in 0 .. MaxAccounts
  /\ \A a \in 1 .. made :
       a \in A!Existing' => /\ a \in A!Existing
                          /\ users'[a].name = users[a].name /\ users'[a].email = users[a].email
                          /\ users'[a].role = users[a].role

LEMMA OwnsStays ==
  ASSUME AccountsTyped, MaxAccounts \in Nat, Kept, NEW a, Owns(a)
  PROVE  Owns(a)'
<1>1. made \in Nat /\ made' \in Nat /\ made <= made' /\ a \in 1 .. made
  BY DEF AccountsTyped, Kept, Owns
<1>2. a \in 1 .. made'
  BY <1>1
<1> QED BY <1>1, <1>2 DEF Kept, Owns

\* Nobody is new.
NobodyNew == made' = made /\ \A a \in A!Existing' : a \in A!Existing

LEMMA DistinctStays ==
  ASSUME AccountsTyped, Numbered, Distinct, Kept, NobodyNew,
         \A a \in cleared' : a \in 1 .. made
  PROVE  Distinct' /\ Numbered'
<1>1. \A a \in A!Existing' : /\ a \in A!Existing /\ a \in 1 .. made
                           /\ users'[a].name = users[a].name /\ users'[a].email = users[a].email
                           /\ users'[a].role = users[a].role
  BY DEF NobodyNew, Numbered, Kept
<1>2. Numbered'
  BY <1>1 DEF Numbered, NobodyNew
<1>3. Distinct'
  BY <1>1 DEF Distinct
<1> QED BY <1>2, <1>3

\* Nothing becomes of anybody.
SamePeople == UNCHANGED <<users, made>>

LEMMA SameAreKept ==
  ASSUME AccountsTyped, SamePeople
  PROVE  /\ Kept /\ NobodyNew /\ A!Existing' = A!Existing
         /\ users' \in [A!Account -> Person \cup {A!Absent}] /\ made' \in 0 .. MaxAccounts
<1>1. A!Existing' = A!Existing
  BY DEF SamePeople, A!Existing
<1>2. made \in 0 .. MaxAccounts /\ made <= made
  BY DEF AccountsTyped
<1> QED BY <1>1, <1>2 DEF SamePeople, AccountsTyped, Kept, NobodyNew

LEMMA LinksStay ==
  ASSUME AccountsTyped, MaxAccounts \in Nat, LinkedOnce, Kept, UNCHANGED links
  PROVE  LinkedOnce'
<1>1. \A i \in 1 .. Len(links) : Owns(links[i])'
  BY OwnsStays DEF LinkedOnce
<1> QED BY <1>1 DEF LinkedOnce, Owns

\* Where the identity leads to.
LEMMA HomeStays ==
  ASSUME AccountsTyped, MaxAccounts \in Nat, AtHome, Kept, NobodyNew, A!Existing' = A!Existing,
         UNCHANGED home
  PROVE  AtHome'
<1>1. Owns(home) => Owns(home)'
  BY OwnsStays
<1> QED BY <1>1 DEF AtHome, NobodyNew, Owns

-----------------------------------------------------------------------------
(* Requests.                                                               *)

Others(r) ==
  \A q \in Request \ {r} : /\ step'[q] = step[q] /\ kind'[q] = kind[q]
                           /\ form'[q] = form[q] /\ target'[q] = target[q]

LEMMA RequestStep ==
  ASSUME RequestsTyped, NEW r \in Request, NEW label \in AccountSteps, NEW what \in WhatFor,
         NEW f \in Forms \cup {A!NoForm}, NEW a \in {A!Nobody} \cup A!Account,
         step' = [step EXCEPT ![r] = label], kind' = [kind EXCEPT ![r] = what],
         form' = [form EXCEPT ![r] = f], target' = [target EXCEPT ![r] = a]
  PROVE  /\ RequestsTyped' /\ Others(r)
         /\ step'[r] = label /\ kind'[r] = what /\ form'[r] = f /\ target'[r] = a
BY DEF RequestsTyped, Others

LEMMA FinishStep ==
  ASSUME RequestsTyped, NEW r \in Request, A!Finish(r)
  PROVE  /\ RequestsTyped' /\ Others(r)
         /\ step'[r] = "idle" /\ kind'[r] = "none" /\ took' = took \ {r}
<1>1. "idle" \in AccountSteps /\ "none" \in WhatFor /\ A!NoForm \in Forms \cup {A!NoForm}
      /\ A!Nobody \in {A!Nobody} \cup A!Account
  BY DEF AccountSteps, WhatFor
<1>2. /\ step' = [step EXCEPT ![r] = "idle"] /\ kind' = [kind EXCEPT ![r] = "none"]
      /\ form' = [form EXCEPT ![r] = A!NoForm] /\ target' = [target EXCEPT ![r] = A!Nobody]
      /\ took' = took \ {r}
  BY DEF A!Finish, A!Goto
<1> QED BY <1>1, <1>2, RequestStep

LEMMA ProceedStep ==
  ASSUME RequestsTyped, NEW r \in Request, NEW label \in AccountSteps, A!Proceed(r, label)
  PROVE  /\ RequestsTyped' /\ Others(r) /\ step'[r] = label /\ UNCHANGED <<kind, form, target, took>>
<1>1. /\ kind' = [kind EXCEPT ![r] = kind[r]] /\ form' = [form EXCEPT ![r] = form[r]]
      /\ target' = [target EXCEPT ![r] = target[r]] /\ step' = [step EXCEPT ![r] = label]
      /\ kind[r] \in WhatFor /\ form[r] \in Forms \cup {A!NoForm} /\ target[r] \in {A!Nobody} \cup A!Account
  BY DEF RequestsTyped, A!Proceed, A!Goto
<1>2. PICK what \in WhatFor, f \in Forms \cup {A!NoForm}, a \in {A!Nobody} \cup A!Account :
        what = kind[r] /\ f = form[r] /\ a = target[r]
  BY <1>1
<1>3. RequestsTyped' /\ Others(r) /\ step'[r] = label
  BY <1>1, <1>2, RequestStep
<1> QED BY <1>3 DEF A!Proceed

LEMMA WithStep ==
  ASSUME RequestsTyped, NEW r \in Request, NEW label \in AccountSteps, NEW a \in A!Account,
         A!With(r, a, label)
  PROVE  /\ RequestsTyped' /\ Others(r) /\ step'[r] = label /\ target'[r] = a
         /\ UNCHANGED <<kind, form, took>>
<1>1. /\ kind' = [kind EXCEPT ![r] = kind[r]] /\ form' = [form EXCEPT ![r] = form[r]]
      /\ target' = [target EXCEPT ![r] = a] /\ step' = [step EXCEPT ![r] = label]
      /\ kind[r] \in WhatFor /\ form[r] \in Forms \cup {A!NoForm}
  BY DEF RequestsTyped, A!With, A!Goto
<1>2. PICK what \in WhatFor, f \in Forms \cup {A!NoForm} : what = kind[r] /\ f = form[r]
  BY <1>1
<1>3. a \in {A!Nobody} \cup A!Account
  OBVIOUS
<1>4. RequestsTyped' /\ Others(r) /\ step'[r] = label /\ target'[r] = a
  BY <1>1, <1>2, <1>3, RequestStep
<1> QED BY <1>4 DEF A!With

LEMMA BeginStep ==
  ASSUME RequestsTyped, NEW r \in Request, NEW label \in AccountSteps, NEW what \in WhatFor,
         NEW f \in Forms \cup {A!NoForm}, NEW a \in {A!Nobody} \cup A!Account, A!Begin(r, label, what, f, a)
  PROVE  /\ RequestsTyped' /\ Others(r) /\ step[r] = "idle"
         /\ step'[r] = label /\ kind'[r] = what /\ form'[r] = f /\ target'[r] = a
         /\ UNCHANGED <<users, made, links, sessions, took, claimed, cleared, home>>
BY RequestStep DEF A!Begin, A!Goto, A!history

\* The other requests are on their ways.
LEMMA WaysStay ==
  ASSUME AccountsTyped, MaxAccounts \in Nat, Kept, \A q \in Request : Way(q),
         NEW r \in Request, Others(r), Way(r)'
  PROVE  \A q \in Request : Way(q)'
<1> SUFFICES ASSUME NEW q \in Request, q # r PROVE Way(q)'
  OBVIOUS
<1>1. /\ step'[q] = step[q] /\ kind'[q] = kind[q] /\ form'[q] = form[q] /\ target'[q] = target[q]
      /\ Way(q)
  BY DEF Others
<1>2. PICK a : a = target[q]
  OBVIOUS
<1>3. Owns(a) => Owns(a)'
  BY OwnsStays
<1>4. a \in 1 .. made => a \in 1 .. made'
  BY DEF Kept, AccountsTyped
<1> QED BY <1>1, <1>2, <1>3, <1>4 DEF Way, Owns

\* A request that enters an account with a password does not find it cleared.
Enters(r) ==
  step'[r] = "open" /\ kind'[r] \in {"old", "new"} => target'[r] \notin cleared

LEMMA ShutStays ==
  ASSUME NEW r \in Request, Others(r), Enters(r), cleared \subseteq cleared', NEW a, Shut(a)
  PROVE  Shut(a)'
BY DEF Shut, A!Entering, Others, Enters

\* A new session is one with the provider, or of an account that could be entered.
Opened == \A s \in sessions' : s \in sessions \/ s.by = "provider" \/ ~Shut(s.account)

LEMMA EmptiedStays ==
  ASSUME Opened, NEW a, Shut(a), Emptied(a)
  PROVE  Emptied(a)'
BY DEF Opened, Emptied

LEMMA TookStays ==
  ASSUME TookIsShut, NEW r \in Request, Others(r), Enters(r), cleared \subseteq cleared', Opened,
         took \subseteq Request, took' \subseteq took \cup {r},
         r \in took' => /\ step'[r] \in {"revoke", "link", "open"} /\ kind'[r] = "provider"
                        /\ Shut(target[r])' /\ target'[r] = target[r]
                        /\ step'[r] = "link" => Emptied(target[r])'
  PROVE  TookIsShut'
<1> SUFFICES ASSUME NEW q \in took', q # r
             PROVE  /\ step'[q] \in {"revoke", "link", "open"} /\ kind'[q] = "provider"
                    /\ Shut(target[q])' /\ target'[q] = target[q]
                    /\ step'[q] = "link" => Emptied(target[q])'
  BY DEF TookIsShut, Shut, A!Entering, Emptied
<1>1. q \in took /\ q \in Request \ {r} /\ Shut(target[q])
  BY DEF TookIsShut
<1>2. PICK a : a = target[q]
  OBVIOUS
<1>3. Shut(a)'
  BY <1>1, <1>2, ShutStays
<1>4. Emptied(a) => Emptied(a)'
  BY <1>1, <1>2, EmptiedStays
<1>5. target'[q] = a /\ step'[q] = step[q] /\ kind'[q] = kind[q]
  BY <1>1, <1>2 DEF Others
<1>6. Shut(target[q])' /\ (Emptied(a)' => Emptied(target[q])')
  BY <1>3, <1>5 DEF Shut, A!Entering, Emptied
<1> QED BY <1>1, <1>2, <1>4, <1>5, <1>6 DEF TookIsShut

LEMMA ClaimedStays ==
  ASSUME ClaimedIsShut, NEW r \in Request, Others(r), Enters(r), cleared \subseteq cleared', Opened,
         NEW b, claimed' \subseteq claimed \cup {b},
         b \in claimed' => Shut(b) /\ Emptied(b)
  PROVE  ClaimedIsShut'
<1> SUFFICES ASSUME NEW a \in claimed' PROVE Shut(a)' /\ Emptied(a)'
  BY DEF ClaimedIsShut
<1>1. Shut(a) /\ Emptied(a)
  BY DEF ClaimedIsShut
<1> QED BY <1>1, ShutStays, EmptiedStays

-----------------------------------------------------------------------------
(* Steps.                                                                  *)

LEMMA NotTook ==
  ASSUME AccountsInv, NEW r \in Request, step[r] \notin {"revoke", "link", "open"}
  PROVE  r \notin took
BY DEF AccountsInv, TookIsShut

\* Everything but the request is as it was.
LEMMA QuietStep ==
  ASSUME AccountsInv, MaxAccounts \in Nat, NEW r \in Request, Others(r), RequestsTyped',
         Enters(r), Way(r)', UNCHANGED <<users, made, links, sessions, claimed, cleared, home>>,
         took' \subseteq took \ {r}
  PROVE  AccountsInv'
<1>0. AccountsTyped /\ took \subseteq Request
  BY DEF AccountsInv, AccountsTyped
<1>1. SamePeople /\ Opened
  BY DEF SamePeople, Opened
<1>2. /\ Kept /\ NobodyNew /\ A!Existing' = A!Existing
      /\ users' \in [A!Account -> Person \cup {A!Absent}] /\ made' \in 0 .. MaxAccounts
  BY <1>0, <1>1, SameAreKept
<1>3. AccountsTyped'
  BY <1>0, <1>2 DEF AccountsTyped
<1>4. Distinct' /\ Numbered'
  <2>1. \A a \in cleared' : a \in 1 .. made
    BY DEF AccountsInv, Numbered
  <2> QED BY <1>0, <1>2, <2>1, DistinctStays DEF AccountsInv
<1>5. LinkedOnce' /\ AtHome'
  BY <1>0, <1>2, LinksStay, HomeStays DEF AccountsInv
<1>6. Hashes'
  BY <1>2 DEF AccountsInv, Hashes
<1>7. \A q \in Request : Way(q)'
  BY <1>0, <1>2, WaysStay DEF AccountsInv
<1>8. TookIsShut'
  BY <1>0, <1>1, TookStays DEF AccountsInv
<1>9. ClaimedIsShut'
  <2>1. \A b \in claimed : Shut(b) /\ Emptied(b)
    BY DEF AccountsInv, ClaimedIsShut
  <2>2. PICK b : claimed = {} \/ b \in claimed
    OBVIOUS
  <2>3. claimed' \subseteq claimed \cup {b} /\ (b \in claimed' => Shut(b) /\ Emptied(b))
    BY <2>1
  <2> QED BY <1>1, <2>3, ClaimedStays DEF AccountsInv
<1> QED BY <1>3, <1>4, <1>5, <1>6, <1>7, <1>8, <1>9 DEF AccountsInv

LEMMA FinishQuietly ==
  ASSUME AccountsInv, MaxAccounts \in Nat, NEW r \in Request, A!Finish(r),
         UNCHANGED <<users, made, links, sessions, claimed, cleared, home>>
  PROVE  AccountsInv'
<1>1. /\ RequestsTyped' /\ Others(r) /\ step'[r] = "idle" /\ kind'[r] = "none" /\ took' = took \ {r}
  BY FinishStep DEF AccountsInv, AccountsTyped
<1>2. Enters(r) /\ Way(r)'
  BY <1>1 DEF Enters, Way, KindsAt
<1> QED BY <1>1, <1>2, QuietStep

\* A request goes on to where it may.
LEMMA ProceedQuietly ==
  ASSUME AccountsInv, MaxAccounts \in Nat, NEW r \in Request, NEW label \in AccountSteps,
         A!Proceed(r, label), step[r] \notin {"revoke", "link", "open"},
         UNCHANGED <<users, made, links, sessions, claimed, cleared, home>>,
         kind[r] \in KindsAt(label), kind[r] \notin {"old", "new"},
         label \in {"count", "by_name", "by_email", "create"} => form[r] \in Forms,
         label = "create" => kind[r] = "register",
         label \in {"linked_user", "clear", "revoke", "link", "open", "delete"} => Owns(target[r])
  PROVE  AccountsInv'
<1>1. RequestsTyped' /\ Others(r) /\ step'[r] = label /\ UNCHANGED <<kind, form, target, took>>
  BY ProceedStep DEF AccountsInv, AccountsTyped
<1>2. r \notin took
  BY NotTook
<1>3. Way(r)'
  BY <1>1 DEF Way, Owns, A!Existing
<1>4. Enters(r)
  BY <1>1 DEF Enters
<1> QED BY <1>1, <1>2, <1>3, <1>4, QuietStep

LEMMA WithQuietly ==
  ASSUME AccountsInv, MaxAccounts \in Nat, NEW r \in Request, NEW label \in {"linked_user", "link", "clear"},
         NEW a \in A!Account, A!With(r, a, label), step[r] \notin {"revoke", "link", "open"},
         UNCHANGED <<users, made, links, sessions, claimed, cleared, home>>,
         kind[r] = "provider", Owns(a)
  PROVE  AccountsInv'
<1>0. label \in AccountSteps
  BY DEF AccountSteps
<1>1. RequestsTyped' /\ Others(r) /\ step'[r] = label /\ target'[r] = a /\ UNCHANGED <<kind, form, took>>
  BY <1>0, WithStep DEF AccountsInv, AccountsTyped
<1>2. r \notin took
  BY NotTook
<1>3. Way(r)'
  BY <1>1 DEF Way, Owns, A!Existing, KindsAt
<1>4. Enters(r)
  BY <1>1 DEF Enters
<1> QED BY <1>1, <1>2, <1>3, <1>4, QuietStep

LEMMA BeginQuietly ==
  ASSUME AccountsInv, MaxAccounts \in Nat, NEW r \in Request, NEW label \in AccountSteps,
         NEW what \in WhatFor, NEW f \in Forms \cup {A!NoForm}, NEW a \in {A!Nobody} \cup A!Account,
         A!Begin(r, label, what, f, a), what \in KindsAt(label),
         label \in {"count", "by_name", "by_email"} => f \in Forms,
         label \notin {"create", "linked_user", "clear", "link", "delete"},
         label \in {"revoke", "open"} => what # "provider" /\ a \in 1 .. made,
         label = "open" => a \notin cleared
  PROVE  AccountsInv'
<1>1. /\ RequestsTyped' /\ Others(r) /\ step[r] = "idle"
      /\ step'[r] = label /\ kind'[r] = what /\ form'[r] = f /\ target'[r] = a
      /\ UNCHANGED <<users, made, links, sessions, took, claimed, cleared, home>>
  BY BeginStep DEF AccountsInv, AccountsTyped
<1>2. r \notin took
  BY <1>1, NotTook
<1>3. Way(r)'
  BY <1>1 DEF Way
<1>4. Enters(r)
  BY <1>1 DEF Enters
<1> QED BY <1>1, <1>2, <1>3, <1>4, QuietStep

LEMMA Facts ==
  ASSUME AccountsInv
  PROVE  /\ AccountsTyped /\ RequestsTyped /\ Numbered /\ Distinct /\ LinkedOnce /\ Hashes
         /\ TookIsShut /\ ClaimedIsShut /\ AtHome
         /\ \A r \in Request : Way(r) /\ step[r] \in AccountSteps /\ kind[r] \in WhatFor
BY DEF AccountsInv, AccountsTyped, RequestsTyped

LEMMA GivenForms ==
  /\ \A c \in Given : A!Form(c.name, c.email, "user") \in Forms
  /\ A!Form(AdminName, AdminAddress, "admin") \in Forms
  /\ \A i \in 1 .. Len(Candidates) :
       A!Form(Candidates[i], Own, "user") \in Forms /\ A!Form(Candidates[i], Own, "user").email = Own
BY DEF Forms, UserForms, A!Form, Names, Addresses

\* Whoever is found at the identity's address is an account the identity may lead to.
LEMMA OwnerOwns ==
  ASSUME AccountsInv, NEW a \in A!Addressed(Own)
  PROVE  a \in A!Account /\ Owns(a) /\ a \in A!Existing
BY DEF AccountsInv, AccountsTyped, A!Addressed, A!Existing, Numbered, Owns

LEMMA BeginsKeep ==
  ASSUME AccountsInv, MaxAccounts \in Nat, NEW r \in Request,
         \/ \E c \in Given : A!Register(r, c.name, c.email)
         \/ A!StartUp(r)
         \/ A!SignIn(r)
         \/ \E a \in A!Account :
              \/ A!LogIn(r, a, "old")
              \/ A!LogIn(r, a, "new")
              \/ A!DeleteAccount(r, a)
  PROVE  AccountsInv'
<1>0. /\ {"by_name", "count", "linked", "open", "revoke"} \subseteq AccountSteps
      /\ {"register", "provider", "old", "new", "delete"} \subseteq WhatFor
      /\ A!NoForm \in Forms \cup {A!NoForm} /\ A!Nobody \in {A!Nobody} \cup A!Account
  BY DEF AccountSteps, WhatFor
<1>1. ASSUME NEW c \in Given, A!Register(r, c.name, c.email) PROVE AccountsInv'
  <2>1. PICK f \in Forms : f = A!Form(c.name, c.email, "user")
    BY GivenForms
  <2>2. A!Begin(r, "by_name", "register", f, A!Nobody)
    BY <1>1, <2>1 DEF A!Register
  <2> QED BY <1>0, <2>2, BeginQuietly DEF KindsAt
<1>2. CASE A!StartUp(r)
  <2>1. PICK f \in Forms : f = A!Form(AdminName, AdminAddress, "admin")
    BY GivenForms
  <2>2. A!Begin(r, "count", "register", f, A!Nobody)
    BY <1>2, <2>1 DEF A!StartUp
  <2> QED BY <1>0, <2>2, BeginQuietly DEF KindsAt
<1>3. CASE A!SignIn(r)
  <2>1. A!Begin(r, "linked", "provider", A!NoForm, A!Nobody)
    BY <1>3 DEF A!SignIn
  <2> QED BY <1>0, <2>1, BeginQuietly DEF KindsAt
<1>4. ASSUME NEW a \in A!Account, NEW p \in {"old", "new"}, A!LogIn(r, a, p) PROVE AccountsInv'
  <2>1. a \in A!Existing /\ A!Password(a) = p /\ A!Begin(r, "open", p, A!NoForm, a)
    BY <1>4 DEF A!LogIn
  <2>2. a \notin cleared
    BY <2>1, Facts DEF A!Password, Hashes
  <2>3. a \in 1 .. made
    BY <2>1, Facts DEF Numbered
  <2> QED BY <1>0, <2>1, <2>2, <2>3, BeginQuietly DEF KindsAt
<1>5. ASSUME NEW a \in A!Account, A!DeleteAccount(r, a) PROVE AccountsInv'
  <2>1. a \in A!Existing /\ A!Begin(r, "revoke", "delete", A!NoForm, a)
    BY <1>5 DEF A!DeleteAccount
  <2>2. a \in 1 .. made
    BY <2>1, Facts DEF Numbered
  <2> QED BY <1>0, <2>1, <2>2, BeginQuietly DEF KindsAt
<1> QED BY <1>1, <1>2, <1>3, <1>4, <1>5

LEMMA LookingKeeps ==
  ASSUME AccountsInv, MaxAccounts \in Nat, NEW r \in Request,
         \/ A!CountUsers(r)
         \/ A!LookUp(r)
         \/ A!FindLink(r)
         \/ A!ReadLinked(r)
         \/ A!FindLocal(r)
         \/ A!Cut(r)
  PROVE  AccountsInv'
<1>0. {"by_name", "by_email", "create", "local", "open", "name"} \subseteq AccountSteps
  BY DEF AccountSteps
<1>1. Way(r) /\ UNCHANGED <<users, made, links, sessions, claimed, cleared, home>>
  BY Facts DEF A!CountUsers, A!LookUp, A!FindLink, A!ReadLinked, A!FindLocal, A!Cut
<1>2. CASE A!Finish(r)
  BY <1>1, <1>2, FinishQuietly
<1>3. CASE A!CountUsers(r) /\ ~A!Finish(r)
  <2>1. step[r] = "count" /\ A!Proceed(r, "by_name")
    BY <1>3 DEF A!CountUsers
  <2>2. kind[r] = "register" /\ form[r] \in Forms
    BY <1>1, <2>1 DEF Way, KindsAt
  <2> QED BY <1>0, <1>1, <2>1, <2>2, ProceedQuietly DEF KindsAt
<1>4. CASE A!LookUp(r) /\ ~A!Finish(r)
  <2>1. \/ step[r] = "by_name" /\ A!Proceed(r, "by_email")
        \/ step[r] = "by_email" /\ A!Proceed(r, "create")
    BY <1>4 DEF A!LookUp
  <2>2. kind[r] = "register" /\ form[r] \in Forms
    BY <1>1, <2>1 DEF Way, KindsAt
  <2>3. kind[r] \in KindsAt("by_email") /\ kind[r] \in KindsAt("create")
    BY <2>2 DEF KindsAt
  <2>4. CASE step[r] = "by_name" /\ A!Proceed(r, "by_email")
    BY <1>0, <1>1, <2>2, <2>3, <2>4, ProceedQuietly
  <2>5. CASE step[r] = "by_email" /\ A!Proceed(r, "create")
    BY <1>0, <1>1, <2>2, <2>3, <2>5, ProceedQuietly
  <2> QED BY <2>1, <2>4, <2>5
<1>5. CASE A!FindLink(r) /\ ~A!Finish(r)
  <2>1. step[r] = "linked"
    BY <1>5 DEF A!FindLink
  <2>2. kind[r] = "provider" /\ kind[r] \in KindsAt("local")
    BY <1>1, <2>1 DEF Way, KindsAt
  <2>3. CASE links = <<>>
    <3>1. A!Proceed(r, "local")
      BY <1>5, <2>3 DEF A!FindLink
    <3> QED BY <1>0, <1>1, <2>1, <2>2, <3>1, ProceedQuietly
  <2>4. CASE links # <<>>
    <3>1. links \in Seq(A!Account) /\ 1 \in 1 .. Len(links)
      BY <2>4, Facts DEF AccountsTyped
    <3>2. PICK a \in A!Account : a = links[1]
      BY <3>1
    <3>3. Owns(a) /\ A!With(r, a, "linked_user")
      BY <1>5, <2>4, <3>1, <3>2, Facts DEF A!FindLink, LinkedOnce
    <3> QED BY <1>1, <2>1, <2>2, <3>3, WithQuietly
  <2> QED BY <2>3, <2>4
<1>6. CASE A!ReadLinked(r) /\ ~A!Finish(r)
  <2>1. /\ step[r] = "linked_user"
        /\ \/ A!Proceed(r, "open")
           \/ A!Proceed(r, "local")
    BY <1>6 DEF A!ReadLinked
  <2>2. /\ kind[r] = "provider" /\ kind[r] \in KindsAt("local") /\ kind[r] \in KindsAt("open")
        /\ Owns(target[r])
    BY <1>1, <2>1 DEF Way, KindsAt
  <2>3. CASE A!Proceed(r, "open")
    BY <1>0, <1>1, <2>1, <2>2, <2>3, ProceedQuietly
  <2>4. CASE A!Proceed(r, "local")
    BY <1>0, <1>1, <2>1, <2>2, <2>4, ProceedQuietly
  <2> QED BY <2>1, <2>3, <2>4
<1>7. CASE A!FindLocal(r) /\ ~A!Finish(r)
  <2>1. step[r] = "local"
    BY <1>7 DEF A!FindLocal
  <2>2. kind[r] = "provider" /\ kind[r] \in KindsAt("name")
    BY <1>1, <2>1 DEF Way, KindsAt
  <2>3. CASE A!Addressed(Own) = {}
    <3>1. A!Proceed(r, "name")
      BY <1>7, <2>3 DEF A!FindLocal
    <3> QED BY <1>0, <1>1, <2>1, <2>2, <3>1, ProceedQuietly
  <2>4. CASE A!Addressed(Own) # {}
    <3>1. PICK a \in A!Addressed(Own) : A!With(r, a, IF users[a].verified THEN "link" ELSE "clear")
      BY <1>7, <2>4 DEF A!FindLocal
    <3>2. PICK label \in {"linked_user", "link", "clear"} :
            label = IF users[a].verified THEN "link" ELSE "clear"
      OBVIOUS
    <3>3. a \in A!Account /\ Owns(a)
      BY OwnerOwns
    <3>4. A!With(r, a, label)
      BY <3>1, <3>2
    <3> QED BY <1>1, <2>1, <2>2, <3>3, <3>4, WithQuietly
  <2> QED BY <2>3, <2>4
<1> QED BY <1>2, <1>3, <1>4, <1>5, <1>6, <1>7 DEF A!Cut

LEMMA PickNameKeeps ==
  ASSUME AccountsInv, MaxAccounts \in Nat, NEW r \in Request, A!PickName(r)
  PROVE  AccountsInv'
<1>1. PICK i \in 1 .. Len(Candidates) : form' = [form EXCEPT ![r] = A!Form(Candidates[i], Own, "user")]
  BY DEF A!PickName
<1>2. PICK f \in Forms : f = A!Form(Candidates[i], Own, "user") /\ f.email = Own
  BY GivenForms
<1>3. /\ step[r] = "name" /\ step' = [step EXCEPT ![r] = "create"]
      /\ UNCHANGED <<users, made, links, sessions, kind, target, took, claimed, cleared, home>>
  BY DEF A!PickName, A!Goto, A!history
<1>4. kind[r] = "provider" /\ r \notin took
  BY <1>3, Facts, NotTook DEF Way, KindsAt
<1>5. /\ "create" \in AccountSteps /\ "provider" \in WhatFor
      /\ target[r] \in {A!Nobody} \cup A!Account
      /\ kind' = [kind EXCEPT ![r] = "provider"] /\ target' = [target EXCEPT ![r] = target[r]]
      /\ form' = [form EXCEPT ![r] = f]
  BY <1>1, <1>2, <1>3, <1>4, Facts DEF AccountSteps, WhatFor, RequestsTyped
<1>6. PICK a \in {A!Nobody} \cup A!Account : a = target[r]
  BY <1>5
<1>7. /\ RequestsTyped' /\ Others(r)
      /\ step'[r] = "create" /\ kind'[r] = "provider" /\ form'[r] = f
  <2>1. RequestsTyped /\ f \in Forms \cup {A!NoForm}
    BY Facts
  <2>2. /\ step' = [step EXCEPT ![r] = "create"] /\ kind' = [kind EXCEPT ![r] = "provider"]
        /\ form' = [form EXCEPT ![r] = f] /\ target' = [target EXCEPT ![r] = a]
    BY <1>3, <1>5, <1>6
  <2>3. "create" \in AccountSteps /\ "provider" \in WhatFor
    BY <1>5
  <2> QED BY <2>1, <2>2, <2>3, RequestStep
<1>8. Way(r)' /\ Enters(r)
  BY <1>2, <1>7 DEF Way, Enters, KindsAt
<1> QED BY <1>3, <1>4, <1>7, <1>8, QuietStep

-----------------------------------------------------------------------------
(* Making, clearing and deleting accounts.                                 *)

\* An account that is there changes, or goes: it keeps what it is known by.
LEMMA ChangeStep ==
  ASSUME AccountsTyped, MaxAccounts \in Nat, Numbered, NEW a \in 1 .. made, NEW u, made' = made,
         users' = [users EXCEPT ![a] = u],
         \/ u = A!Absent
         \/ /\ a \in A!Existing /\ u \in Person
            /\ u.name = users[a].name /\ u.email = users[a].email /\ u.role = users[a].role
  PROVE  /\ users' \in [A!Account -> Person \cup {A!Absent}] /\ made' \in 0 .. MaxAccounts
         /\ Kept /\ NobodyNew /\ users'[a] = u
         /\ \A b \in A!Account \ {a} : users'[b] = users[b]
         /\ u # A!Absent => A!Existing' = A!Existing
<1>1. a \in A!Account /\ made \in 0 .. MaxAccounts
  BY DEF AccountsTyped, A!Account
<1>2. /\ users' \in [A!Account -> Person \cup {A!Absent}] /\ users'[a] = u
      /\ \A b \in A!Account \ {a} : users'[b] = users[b]
  BY <1>1 DEF AccountsTyped
<1>3. NobodyNew
  BY <1>1, <1>2 DEF NobodyNew, A!Existing
<1>4. Kept
  BY <1>1, <1>2 DEF Kept, A!Existing, A!Account, AccountsTyped
<1>5. u # A!Absent => A!Existing' = A!Existing
  BY <1>1, <1>2 DEF A!Existing
<1> QED BY <1>1, <1>2, <1>3, <1>4, <1>5

\* A request changes an account, or what leads to one.
LEMMA ChangingKeeps ==
  ASSUME AccountsInv, MaxAccounts \in Nat, NEW r \in Request, Others(r), RequestsTyped', Way(r)',
         step'[r] = "open" => kind'[r] = "provider",
         users' \in [A!Account -> Person \cup {A!Absent}], made' \in 0 .. MaxAccounts, Kept,
         cleared \subseteq cleared', Opened, took' \subseteq took \cup {r},
         r \in took' => /\ step'[r] \in {"revoke", "link", "open"} /\ kind'[r] = "provider"
                        /\ Shut(target[r])' /\ target'[r] = target[r]
                        /\ step'[r] = "link" => Emptied(target[r])',
         NEW b, claimed' \subseteq claimed \cup {b}, b \in claimed' => Shut(b) /\ Emptied(b) /\ b \in A!Account,
         cleared' \subseteq A!Account, links' \in Seq(A!Account),
         sessions' \subseteq [account : A!Account, by : {"provider", "old", "new"}],
         Numbered', Distinct', LinkedOnce', Hashes', AtHome'
  PROVE  AccountsInv'
<1>0. AccountsTyped /\ took \subseteq Request /\ claimed \subseteq A!Account
  BY DEF AccountsInv, AccountsTyped
<1>1. Enters(r)
  BY DEF Enters
<1>2. AccountsTyped'
  BY <1>0 DEF AccountsTyped
<1>3. \A q \in Request : Way(q)'
  BY <1>0, WaysStay DEF AccountsInv
<1>4. TookIsShut'
  BY <1>0, <1>1, TookStays DEF AccountsInv
<1>5. ClaimedIsShut'
  BY <1>1, ClaimedStays DEF AccountsInv
<1> QED BY <1>2, <1>3, <1>4, <1>5 DEF AccountsInv

LEMMA SomeClaimed ==
  ASSUME AccountsInv, UNCHANGED claimed
  PROVE  \E b : /\ claimed' \subseteq claimed \cup {b}
                /\ b \in claimed' => Shut(b) /\ Emptied(b) /\ b \in A!Account
<1>1. \A b \in claimed : Shut(b) /\ Emptied(b) /\ b \in A!Account
  BY DEF AccountsInv, ClaimedIsShut, AccountsTyped
<1>2. PICK b : claimed = {} \/ b \in claimed
  OBVIOUS
<1> QED BY <1>1, <1>2

\* A new account.
LEMMA CreateStep ==
  ASSUME AccountsInv, MaxAccounts \in Nat, made < MaxAccounts, NEW u \in Person, made' = made + 1,
         users' = [users EXCEPT ![made + 1] = u], A!Named(u.name) = {}, A!Addressed(u.email) = {},
         u.role = "admin" => u.name = AdminName, u.hash = "unset",
         UNCHANGED <<links, cleared, home>>
  PROVE  /\ users' \in [A!Account -> Person \cup {A!Absent}] /\ made' \in 0 .. MaxAccounts /\ Kept
         /\ made + 1 \in A!Account /\ users'[made + 1] = u
         /\ Numbered' /\ Distinct' /\ LinkedOnce' /\ Hashes' /\ AtHome'
<1> DEFINE n == made + 1
<1>1. AccountsTyped /\ Numbered /\ Distinct /\ LinkedOnce /\ Hashes /\ AtHome
  BY Facts
<1>2. made \in Nat /\ n \in A!Account /\ n \notin 1 .. made /\ 1 .. made' = 1 .. made \cup {n}
      /\ \A a \in 1 .. made : a \in A!Account
  BY <1>1 DEF AccountsTyped, A!Account
<1>3. /\ users' \in [A!Account -> Person \cup {A!Absent}] /\ users'[n] = u /\ u # A!Absent
      /\ \A a \in A!Account \ {n} : users'[a] = users[a]
  BY <1>1, <1>2, PersonIsThere DEF AccountsTyped
<1>4. n \notin A!Existing /\ n \notin cleared
  BY <1>1, <1>2 DEF Numbered
<1>5. A!Existing' = A!Existing \cup {n} /\ \A a \in A!Existing : a \in A!Account /\ a # n
  BY <1>2, <1>3, <1>4 DEF A!Existing
<1> HIDE DEF n
<1>6. made' \in 0 .. MaxAccounts /\ made <= made'
  BY <1>1, <1>2 DEF AccountsTyped
<1>7. Kept
  BY <1>2, <1>3, <1>5, <1>6 DEF Kept
<1>8. Numbered'
  BY <1>1, <1>2, <1>5 DEF Numbered
<1>9. Distinct'
  <2>1. \A a \in A!Existing : users[a].name # u.name /\ users[a].email # u.email
    BY DEF A!Named, A!Addressed
  <2> QED BY <1>1, <1>3, <1>5, <2>1 DEF Distinct
<1>10. LinkedOnce'
  BY <1>1, <1>7, LinksStay
<1>11. Hashes'
  BY <1>1, <1>3, <1>4, <1>5 DEF Hashes
<1>12. AtHome'
  <2>1. Owns(home) => Owns(home)'
    BY <1>1, <1>7, OwnsStays
  <2> QED BY <1>1, <1>2, <1>5, <2>1 DEF AtHome, Owns
<1> QED BY <1>2, <1>3, <1>6, <1>7, <1>8, <1>9, <1>10, <1>11, <1>12 DEF n

LEMMA CreateKeeps ==
  ASSUME AccountsInv, MaxAccounts \in Nat, NEW r \in Request, A!Create(r)
  PROVE  AccountsInv'
<1>0. /\ step[r] = "create" /\ made < MaxAccounts /\ UNCHANGED <<links, sessions, claimed, cleared, home>>
      /\ Way(r) /\ kind[r] \in {"register", "provider"} /\ form[r] \in Forms
      /\ AccountsTyped /\ RequestsTyped /\ made \in Nat
  <2>1. /\ step[r] = "create" /\ made < MaxAccounts
        /\ UNCHANGED <<links, sessions, claimed, cleared, home>>
    BY DEF A!Create
  <2>2. AccountsTyped /\ RequestsTyped /\ Way(r)
    BY Facts
  <2>3. kind[r] \in {"register", "provider"} /\ form[r] \in Forms
    BY <2>1, <2>2 DEF Way, KindsAt
  <2>4. made \in Nat
    BY <2>2 DEF AccountsTyped
  <2> QED BY <2>1, <2>2, <2>3, <2>4
<1>1. CASE A!Duplicate(form[r])
  <2>1. A!Finish(r) /\ UNCHANGED <<users, made>>
    BY <1>1 DEF A!Create
  <2> QED BY <1>0, <2>1, FinishQuietly
<1>2. CASE ~A!Duplicate(form[r])
  <2> DEFINE u == IF kind[r] = "register" THEN A!Registered(form[r]) ELSE A!FromProvider(form[r])
  <2>1. /\ form[r].name \in Names /\ form[r].email \in Addresses /\ form[r].role \in {"user", "admin"}
        /\ form[r].role = "admin" => form[r].name = AdminName
    <3>1. \A f \in UserForms : f.name \in Names /\ f.email \in Addresses /\ f.role = "user"
      BY DEF UserForms
    <3>2. /\ A!Form(AdminName, AdminAddress, "admin").name = AdminName /\ AdminName \in Names
          /\ A!Form(AdminName, AdminAddress, "admin").email = AdminAddress /\ AdminAddress \in Addresses
          /\ A!Form(AdminName, AdminAddress, "admin").role = "admin"
      BY DEF A!Form, Names, Addresses
    <3> QED BY <1>0, <3>1, <3>2 DEF Forms
  <2>2. /\ u \in Person /\ u.name = form[r].name /\ u.email = form[r].email
        /\ u.role = form[r].role /\ u.hash = "unset"
    BY <2>1 DEF Person, A!Registered, A!FromProvider
  <2>3. made' = made + 1 /\ users' = [users EXCEPT ![made + 1] = u]
    BY <1>2 DEF A!Create
  <2>4. A!Named(u.name) = {} /\ A!Addressed(u.email) = {}
    BY <1>2, <2>2 DEF A!Duplicate
  <2> HIDE DEF u
  <2>5. /\ users' \in [A!Account -> Person \cup {A!Absent}] /\ made' \in 0 .. MaxAccounts /\ Kept
        /\ made + 1 \in A!Account /\ users'[made + 1] = u
        /\ Numbered' /\ Distinct' /\ LinkedOnce' /\ Hashes' /\ AtHome'
    BY <1>0, <2>1, <2>2, <2>3, <2>4, CreateStep
  <2>6. r \notin took
    BY <1>0, NotTook
  <2>7. Others(r) /\ RequestsTyped' /\ Way(r)' /\ step'[r] # "open" /\ took' \subseteq took
    <3>1. CASE kind[r] = "register"
      <4>1. A!Finish(r)
        BY <1>2, <3>1 DEF A!Create
      <4>2. /\ RequestsTyped' /\ Others(r) /\ step'[r] = "idle" /\ kind'[r] = "none" /\ took' = took \ {r}
        BY <1>0, <4>1, FinishStep
      <4> QED BY <4>2 DEF Way, KindsAt
    <3>2. CASE kind[r] = "provider"
      <4>1. PICK n \in A!Account : n = made + 1
        BY <2>5
      <4>2. A!With(r, n, "link") /\ "link" \in AccountSteps
        BY <1>2, <2>3, <3>2, <4>1 DEF A!Create, AccountSteps
      <4>3. RequestsTyped' /\ Others(r) /\ step'[r] = "link" /\ target'[r] = n /\ UNCHANGED <<kind, form, took>>
        BY <1>0, <4>2, WithStep
      <4>4. u.email = Own
        BY <1>0, <2>2, <3>2 DEF Way
      <4>5. Owns(n)'
        BY <1>0, <2>3, <2>5, <4>1, <4>4 DEF Owns
      <4> QED BY <3>2, <4>3, <4>5 DEF Way, KindsAt, Owns
    <3> QED BY <1>0, <3>1, <3>2
  <2>8. PICK b : /\ claimed' \subseteq claimed \cup {b}
                 /\ b \in claimed' => Shut(b) /\ Emptied(b) /\ b \in A!Account
    BY <1>0, SomeClaimed
  <2>9. Opened /\ r \notin took' /\ took' \subseteq took \cup {r} /\ cleared \subseteq cleared'
        /\ cleared' \subseteq A!Account /\ links' \in Seq(A!Account)
        /\ sessions' \subseteq [account : A!Account, by : {"provider", "old", "new"}]
    BY <1>0, <2>6, <2>7 DEF Opened, AccountsTyped
  <2> QED BY <2>5, <2>7, <2>8, <2>9, ChangingKeeps
<1> QED BY <1>1, <1>2

\* The password of an account is removed, or one is set.
LEMMA ClearKeeps ==
  ASSUME AccountsInv, MaxAccounts \in Nat, NEW r \in Request, A!Clear(r)
  PROVE  AccountsInv'
<1>0. PICK a : a = target[r]
  OBVIOUS
<1>1. /\ step[r] = "clear" /\ step' = [step EXCEPT ![r] = "revoke"]
      /\ users' = IF a \in A!Existing THEN [users EXCEPT ![a] = A!Cleared(@)] ELSE users
      /\ cleared' = cleared \cup {a}
      /\ took' = IF A!Entering(a) THEN took ELSE took \cup {r}
      /\ UNCHANGED <<made, links, sessions, kind, form, target, claimed, home>>
  BY <1>0 DEF A!Clear, A!Goto
<1>2. AccountsTyped /\ RequestsTyped /\ Numbered /\ Distinct /\ LinkedOnce /\ Hashes /\ AtHome /\ Way(r)
  BY Facts
<1>3. kind[r] = "provider" /\ Owns(a) /\ a \in 1 .. made /\ r \notin took
  BY <1>0, <1>1, <1>2, NotTook DEF Way, KindsAt, Owns
<1>5. RequestsTyped' /\ Others(r) /\ step'[r] = "revoke" /\ kind'[r] = "provider" /\ target'[r] = a
  <2>1. "revoke" \in AccountSteps
    BY DEF AccountSteps
  <2>2. RequestsTyped'
    BY <1>1, <1>2, <2>1 DEF RequestsTyped
  <2>3. Others(r) /\ step'[r] = "revoke"
    BY <1>1, <1>2 DEF RequestsTyped, Others
  <2> QED BY <1>0, <1>1, <1>3, <2>2, <2>3
<1>6. a \in A!Account
  BY <1>2, <1>3 DEF AccountsTyped, A!Account
<1>7. /\ users' \in [A!Account -> Person \cup {A!Absent}] /\ made' \in 0 .. MaxAccounts /\ Kept /\ NobodyNew
      /\ A!Existing' = A!Existing
      /\ a \in A!Existing => users'[a].hash = "none"
      /\ \A b \in A!Account \ {a} : users'[b] = users[b]
  <2>1. CASE a \in A!Existing
    <3>1. PICK u : u = A!Cleared(users[a])
      OBVIOUS
    <3>2. users[a] \in Person
      BY <1>2, <2>1, ExistingArePeople
    <3>3. /\ u \in Person /\ u.name = users[a].name /\ u.email = users[a].email
          /\ u.role = users[a].role /\ u.hash = "none"
      BY <3>1, <3>2 DEF Person, A!Cleared
    <3>4. users' = [users EXCEPT ![a] = u] /\ made' = made
      BY <1>1, <2>1, <3>1
    <3>5. u # A!Absent
      BY <3>3, PersonIsThere
    <3>6. /\ users' \in [A!Account -> Person \cup {A!Absent}] /\ made' \in 0 .. MaxAccounts
          /\ Kept /\ NobodyNew /\ users'[a] = u
          /\ \A b \in A!Account \ {a} : users'[b] = users[b]
          /\ u # A!Absent => A!Existing' = A!Existing
      <4>1. /\ AccountsTyped /\ Numbered /\ a \in 1 .. made
            /\ made' = made /\ users' = [users EXCEPT ![a] = u]
        BY <1>2, <1>3, <3>4
      <4>2. \/ u = A!Absent
            \/ /\ a \in A!Existing /\ u \in Person
               /\ u.name = users[a].name /\ u.email = users[a].email /\ u.role = users[a].role
        BY <2>1, <3>3
      <4> QED BY <4>1, <4>2, ChangeStep
    <3> QED BY <3>3, <3>5, <3>6
  <2>2. CASE a \notin A!Existing
    <3>1. SamePeople
      BY <1>1, <2>2 DEF SamePeople
    <3> QED BY <1>2, <2>2, <3>1, SameAreKept DEF SamePeople
  <2> QED BY <2>1, <2>2
<1>8. Distinct' /\ Numbered'
  <2>1. \A b \in cleared' : b \in 1 .. made
    BY <1>1, <1>2, <1>3 DEF Numbered
  <2> QED BY <1>2, <1>7, <2>1, DistinctStays
<1>9. LinkedOnce' /\ AtHome'
  BY <1>1, <1>2, <1>7, LinksStay, HomeStays
<1>10. Hashes'
  <2>1. \A b \in A!Existing : b \in A!Account
    BY DEF A!Existing
  <2> QED BY <1>1, <1>2, <1>7, <2>1 DEF Hashes
<1>11. r \in took' => Shut(a)'
  <2>1. r \in took' => ~A!Entering(a)
    BY <1>1, <1>3
  <2>2. ~A!Entering(a) => ~A!Entering(a)'
    BY <1>5 DEF A!Entering, Others
  <2> QED BY <1>1, <2>1, <2>2 DEF Shut
<1>12. r \in took' => Shut(target[r])'
  BY <1>0, <1>1, <1>5, <1>11 DEF Shut, A!Entering
<1>13. Way(r)'
  <2>1. Owns(a)'
    BY <1>2, <1>3, <1>7, OwnsStays
  <2>2. a \in 1 .. made'
    BY <1>1, <1>3
  <2> QED BY <1>5, <2>1, <2>2 DEF Way, KindsAt, Owns, A!Existing
<1>14. PICK b : /\ claimed' \subseteq claimed \cup {b}
                /\ b \in claimed' => Shut(b) /\ Emptied(b) /\ b \in A!Account
  BY <1>1, SomeClaimed
<1>15. Opened /\ took' \subseteq took \cup {r} /\ cleared \subseteq cleared' /\ cleared' \subseteq A!Account
       /\ links' \in Seq(A!Account)
       /\ sessions' \subseteq [account : A!Account, by : {"provider", "old", "new"}]
  BY <1>1, <1>2, <1>6 DEF Opened, AccountsTyped
<1>16. target'[r] = target[r]
  BY <1>1
<1> QED BY <1>5, <1>7, <1>8, <1>9, <1>10, <1>12, <1>13, <1>14, <1>15, <1>16, ChangingKeeps

LEMMA ResetKeeps ==
  ASSUME AccountsInv, MaxAccounts \in Nat, NEW r \in Request, NEW a \in A!Account, A!Reset(r, a)
  PROVE  AccountsInv'
<1>1. /\ step[r] = "idle" /\ a \in A!Addressed(Own)
      /\ users' = [users EXCEPT ![a].password = "new", ![a].verified = TRUE]
      /\ step' = [step EXCEPT ![r] = "revoke"]
      /\ kind' = [kind EXCEPT ![r] = "reset"]
      /\ target' = [target EXCEPT ![r] = a]
      /\ UNCHANGED <<made, links, sessions, form, took, claimed, cleared, home>>
  BY DEF A!Reset, A!Goto
<1>2. AccountsTyped /\ RequestsTyped /\ Numbered /\ Distinct /\ LinkedOnce /\ Hashes /\ AtHome /\ Way(r)
  BY Facts
<1>3. a \in A!Existing /\ users[a] \in Person /\ a \in 1 .. made /\ r \notin took
  BY <1>1, <1>2, OwnerOwns, ExistingArePeople, NotTook DEF Owns
<1>4. RequestsTyped' /\ Others(r) /\ step'[r] = "revoke" /\ kind'[r] = "reset" /\ target'[r] = a
  <2>1. PICK f \in Forms \cup {A!NoForm} : f = form[r] /\ form' = [form EXCEPT ![r] = f]
    BY <1>1, <1>2 DEF RequestsTyped
  <2>2. "revoke" \in AccountSteps /\ "reset" \in WhatFor /\ a \in {A!Nobody} \cup A!Account
    BY DEF AccountSteps, WhatFor
  <2>3. /\ step' = [step EXCEPT ![r] = "revoke"] /\ kind' = [kind EXCEPT ![r] = "reset"]
        /\ form' = [form EXCEPT ![r] = f] /\ target' = [target EXCEPT ![r] = a]
    BY <1>1, <2>1
  <2>4. PICK b \in {A!Nobody} \cup A!Account : b = a
    BY <2>2
  <2> QED BY ONLY <1>2, <2>2, <2>3, <2>4, RequestStep
<1>5. PICK u : u = [users[a] EXCEPT !.password = "new", !.verified = TRUE]
  OBVIOUS
<1>6. /\ u \in Person /\ u.name = users[a].name /\ u.email = users[a].email
      /\ u.role = users[a].role /\ u.hash = users[a].hash
  BY <1>3, <1>5 DEF Person
<1>7. users' = [users EXCEPT ![a] = u] /\ made' = made /\ u # A!Absent
  <2>1. users \in [A!Account -> Person \cup {A!Absent}]
    BY <1>2 DEF AccountsTyped
  <2>2. users' = [users EXCEPT ![a] = u]
    BY <1>1, <1>5, <2>1
  <2> QED BY <1>1, <1>6, <2>2, PersonIsThere
<1>8. /\ users' \in [A!Account -> Person \cup {A!Absent}] /\ made' \in 0 .. MaxAccounts
      /\ Kept /\ NobodyNew /\ users'[a] = u
      /\ \A b \in A!Account \ {a} : users'[b] = users[b]
      /\ A!Existing' = A!Existing
  BY <1>2, <1>3, <1>6, <1>7, ChangeStep
<1>9. Distinct' /\ Numbered'
  <2>1. \A b \in cleared' : b \in 1 .. made
    BY <1>1, <1>2 DEF Numbered
  <2> QED BY <1>2, <1>8, <2>1, DistinctStays
<1>10. LinkedOnce' /\ AtHome'
  BY <1>1, <1>2, <1>8, LinksStay, HomeStays
<1>11. Hashes'
  <2>1. \A b \in A!Existing : b \in A!Account
    BY DEF A!Existing
  <2> QED BY <1>1, <1>2, <1>6, <1>8, <2>1 DEF Hashes
<1>12. Way(r)'
  <2>1. kind'[r] \in KindsAt(step'[r])
    BY <1>4 DEF KindsAt
  <2> QED BY <1>1, <1>3, <1>4, <2>1 DEF Way
<1>13. PICK b : /\ claimed' \subseteq claimed \cup {b}
                /\ b \in claimed' => Shut(b) /\ Emptied(b) /\ b \in A!Account
  BY <1>1, SomeClaimed
<1>14. Opened /\ r \notin took' /\ took' \subseteq took \cup {r} /\ cleared \subseteq cleared'
       /\ cleared' \subseteq A!Account /\ links' \in Seq(A!Account)
       /\ sessions' \subseteq [account : A!Account, by : {"provider", "old", "new"}]
  BY <1>1, <1>2, <1>3 DEF Opened, AccountsTyped
<1> QED BY <1>4, <1>8, <1>9, <1>10, <1>11, <1>12, <1>13, <1>14, ChangingKeeps

LEMMA DeleteUserKeeps ==
  ASSUME AccountsInv, MaxAccounts \in Nat, NEW r \in Request, A!DeleteUser(r)
  PROVE  AccountsInv'
<1>0. PICK a : a = target[r]
  OBVIOUS
<1>1. /\ step[r] = "delete" /\ users' = [users EXCEPT ![a] = A!Absent] /\ home' = A!Unknown /\ A!Finish(r)
      /\ UNCHANGED <<made, links, sessions, claimed, cleared>>
  BY <1>0 DEF A!DeleteUser
<1>2. AccountsTyped /\ RequestsTyped /\ Numbered /\ Distinct /\ LinkedOnce /\ Hashes /\ AtHome /\ Way(r)
  BY Facts
<1>3. a \in 1 .. made
  BY <1>0, <1>1, <1>2 DEF Way
<1>4. /\ RequestsTyped' /\ Others(r) /\ step'[r] = "idle" /\ kind'[r] = "none" /\ took' = took \ {r}
  BY <1>1, <1>2, FinishStep
<1>5. /\ users' \in [A!Account -> Person \cup {A!Absent}] /\ made' \in 0 .. MaxAccounts
      /\ Kept /\ NobodyNew /\ users'[a] = A!Absent
      /\ \A b \in A!Account \ {a} : users'[b] = users[b]
  <2>1. PICK u : u = A!Absent
    OBVIOUS
  <2>2. users' = [users EXCEPT ![a] = u] /\ made' = made
    BY <1>1, <2>1
  <2> QED BY <1>2, <1>3, <2>1, <2>2, ChangeStep
<1>6. Distinct' /\ Numbered'
  <2>1. \A b \in cleared' : b \in 1 .. made
    BY <1>1, <1>2 DEF Numbered
  <2> QED BY <1>2, <1>5, <2>1, DistinctStays
<1>7. LinkedOnce'
  BY <1>1, <1>2, <1>5, LinksStay
<1>8. AtHome'
  BY <1>1 DEF AtHome, A!Unknown
<1>9. Hashes'
  <2>1. \A b \in A!Existing' : b \in A!Existing /\ b \in A!Account /\ b # a
    BY <1>5 DEF NobodyNew, A!Existing
  <2> QED BY <1>1, <1>2, <1>5, <2>1 DEF Hashes
<1>10. Way(r)'
  BY <1>4 DEF Way, KindsAt
<1>11. PICK b : /\ claimed' \subseteq claimed \cup {b}
                /\ b \in claimed' => Shut(b) /\ Emptied(b) /\ b \in A!Account
  BY <1>1, SomeClaimed
<1>12. Opened /\ r \notin took' /\ took' \subseteq took \cup {r} /\ cleared \subseteq cleared'
       /\ cleared' \subseteq A!Account /\ links' \in Seq(A!Account)
       /\ sessions' \subseteq [account : A!Account, by : {"provider", "old", "new"}]
  BY <1>1, <1>2, <1>4 DEF Opened, AccountsTyped
<1> QED BY <1>4, <1>5, <1>6, <1>7, <1>8, <1>9, <1>10, <1>11, <1>12, ChangingKeeps

-----------------------------------------------------------------------------
(* Sessions and links.                                                     *)

\* The accounts are as they were.
LEMMA SamePeopleKeep ==
  ASSUME AccountsInv, MaxAccounts \in Nat, NEW r \in Request, Others(r), RequestsTyped', Way(r)',
         step'[r] = "open" => kind'[r] = "provider",
         UNCHANGED <<users, made, cleared>>, Opened, took' \subseteq took \cup {r},
         r \in took' => /\ step'[r] \in {"revoke", "link", "open"} /\ kind'[r] = "provider"
                        /\ Shut(target[r])' /\ target'[r] = target[r]
                        /\ step'[r] = "link" => Emptied(target[r])',
         NEW b, claimed' \subseteq claimed \cup {b}, b \in claimed' => Shut(b) /\ Emptied(b) /\ b \in A!Account,
         links' \in Seq(A!Account), LinkedOnce', AtHome',
         sessions' \subseteq [account : A!Account, by : {"provider", "old", "new"}]
  PROVE  AccountsInv'
<1>1. AccountsTyped /\ Numbered /\ Distinct /\ Hashes
  BY Facts
<1>2. SamePeople
  BY DEF SamePeople
<1>3. /\ Kept /\ NobodyNew /\ A!Existing' = A!Existing
      /\ users' \in [A!Account -> Person \cup {A!Absent}] /\ made' \in 0 .. MaxAccounts
  BY <1>1, <1>2, SameAreKept
<1>4. Distinct' /\ Numbered'
  <2>1. \A c \in cleared' : c \in 1 .. made
    BY <1>1 DEF Numbered
  <2> QED BY <1>1, <1>3, <2>1, DistinctStays
<1>5. Hashes' /\ cleared \subseteq cleared' /\ cleared' \subseteq A!Account
  BY <1>1, <1>3 DEF Hashes, AccountsTyped
<1> QED BY <1>3, <1>4, <1>5, ChangingKeeps

LEMMA RevokeAllKeeps ==
  ASSUME AccountsInv, MaxAccounts \in Nat, NEW r \in Request, A!RevokeAll(r)
  PROVE  AccountsInv'
<1>0. PICK a : a = target[r]
  OBVIOUS
<1>1. /\ step[r] = "revoke" /\ sessions' = sessions \ A!Of(a)
      /\ UNCHANGED <<users, made, links, claimed, cleared, home>>
  BY <1>0 DEF A!RevokeAll
<1>2. AccountsTyped /\ RequestsTyped /\ LinkedOnce /\ AtHome /\ TookIsShut /\ Way(r)
  BY Facts
<1>3. kind[r] \in {"provider", "reset", "delete"} /\ a \in 1 .. made
  BY <1>0, <1>1, <1>2 DEF Way, KindsAt
<1>4. LinkedOnce' /\ AtHome' /\ links' \in Seq(A!Account)
  <2>1. SamePeople
    BY <1>1 DEF SamePeople
  <2>2. Kept /\ NobodyNew /\ A!Existing' = A!Existing
    BY <1>2, <2>1, SameAreKept
  <2> QED BY <1>1, <1>2, <2>2, LinksStay, HomeStays DEF AccountsTyped
<1>5. Opened /\ sessions' \subseteq [account : A!Account, by : {"provider", "old", "new"}]
  BY <1>1, <1>2 DEF Opened, AccountsTyped
<1>6. PICK b : /\ claimed' \subseteq claimed \cup {b}
               /\ b \in claimed' => Shut(b) /\ Emptied(b) /\ b \in A!Account
  BY <1>1, SomeClaimed
<1>7. Emptied(a)'
  BY <1>1 DEF Emptied, A!Of
<1>8. CASE kind[r] = "provider"
  <2>1. A!Proceed(r, "link") /\ "link" \in AccountSteps
    BY <1>8 DEF A!RevokeAll, AccountSteps
  <2>2. RequestsTyped' /\ Others(r) /\ step'[r] = "link" /\ UNCHANGED <<kind, form, target, took>>
    BY <1>2, <2>1, ProceedStep
  <2>3. Owns(a)'
    BY <1>0, <1>1, <1>2, <1>8 DEF Way, Owns, A!Existing
  <2>4. Way(r)'
    BY <1>0, <1>8, <2>2, <2>3 DEF Way, KindsAt, Owns, A!Existing
  <2>5. r \in took => Shut(a)
    BY <1>0, <1>2 DEF TookIsShut
  <2>6. Shut(a) => Shut(a)'
    <3>1. Enters(r) /\ cleared \subseteq cleared'
      BY <1>1, <2>2 DEF Enters
    <3> QED BY <2>2, <3>1, ShutStays
  <2>7. r \in took' => Shut(target[r])' /\ Emptied(target[r])'
    BY <1>0, <1>7, <2>2, <2>5, <2>6 DEF Shut, A!Entering, Emptied
  <2>8. UNCHANGED <<users, made, cleared>> /\ took' \subseteq took \cup {r} /\ target'[r] = target[r]
        /\ kind'[r] = "provider" /\ step'[r] \in {"revoke", "link", "open"}
    BY <1>1, <1>8, <2>2
  <2> QED BY <1>4, <1>5, <1>6, <2>2, <2>4, <2>7, <2>8, SamePeopleKeep
<1>9. CASE kind[r] = "reset"
  <2>1. A!Finish(r)
    BY <1>9 DEF A!RevokeAll
  <2>2. /\ RequestsTyped' /\ Others(r) /\ step'[r] = "idle" /\ kind'[r] = "none" /\ took' = took \ {r}
    BY <1>2, <2>1, FinishStep
  <2>3. Way(r)'
    BY <2>2 DEF Way, KindsAt
  <2>4. UNCHANGED <<users, made, cleared>> /\ took' \subseteq took \cup {r} /\ r \notin took'
    BY <1>1, <2>2
  <2> QED BY <1>4, <1>5, <1>6, <2>2, <2>3, <2>4, SamePeopleKeep
<1>10. CASE kind[r] = "delete"
  <2>1. A!Proceed(r, "delete") /\ "delete" \in AccountSteps
    BY <1>10 DEF A!RevokeAll, AccountSteps
  <2>2. RequestsTyped' /\ Others(r) /\ step'[r] = "delete" /\ UNCHANGED <<kind, form, target, took>>
    BY <1>2, <2>1, ProceedStep
  <2>3. Way(r)'
    BY <1>0, <1>1, <1>3, <1>10, <2>2 DEF Way, KindsAt
  <2>4. r \notin took
    BY <1>2, <1>10 DEF TookIsShut
  <2>5. UNCHANGED <<users, made, cleared>> /\ took' \subseteq took \cup {r} /\ r \notin took'
    BY <1>1, <2>2, <2>4
  <2> QED BY <1>4, <1>5, <1>6, <2>2, <2>3, <2>5, SamePeopleKeep
<1> QED BY <1>3, <1>8, <1>9, <1>10

LEMMA LinkKeeps ==
  ASSUME AccountsInv, MaxAccounts \in Nat, NEW r \in Request, A!Link(r)
  PROVE  AccountsInv'
<1>0. PICK a : a = target[r]
  OBVIOUS
<1>1. /\ step[r] = "link" /\ UNCHANGED <<users, made, sessions, cleared, home>>
  BY DEF A!Link
<1>2. CASE A!Contains(links, target[r])
  <2>1. A!Finish(r) /\ UNCHANGED <<links, claimed>>
    BY <1>2 DEF A!Link
  <2> QED BY <1>1, <2>1, FinishQuietly
<1>3. CASE ~A!Contains(links, target[r])
  <2>1. /\ links' = Append(links, a)
        /\ claimed' = IF r \in took THEN claimed \cup {a} ELSE claimed
        /\ A!Proceed(r, "open")
    BY <1>0, <1>3 DEF A!Link
  <2>2. AccountsTyped /\ RequestsTyped /\ LinkedOnce /\ AtHome /\ TookIsShut /\ Way(r)
    BY Facts
  <2>3. kind[r] = "provider" /\ Owns(a) /\ a \in 1 .. made /\ a \in A!Account /\ links \in Seq(A!Account)
    BY <1>0, <1>1, <2>2 DEF Way, KindsAt, Owns, AccountsTyped, A!Account
  <2>4. RequestsTyped' /\ Others(r) /\ step'[r] = "open" /\ UNCHANGED <<kind, form, target, took>>
    BY <2>1, <2>2, ProceedStep DEF AccountSteps
  <2>5. \A i \in 1 .. Len(links) : links[i] # a
    BY <1>0, <1>3, <2>3 DEF A!Contains
  <2>6. SamePeople
    BY <1>1 DEF SamePeople
  <2>7. Kept /\ NobodyNew /\ A!Existing' = A!Existing
    BY <2>2, <2>6, SameAreKept
  <2>8. Owns(a)' /\ \A i \in 1 .. Len(links), c \in A!Account : c = links[i] => Owns(c)'
    <3>1. \A c \in A!Account : Owns(c) => Owns(c)'
      BY <2>2, <2>7, OwnsStays
    <3> QED BY <2>2, <2>3, <3>1 DEF LinkedOnce
  <2>9. LinkedOnce' /\ links' \in Seq(A!Account)
    <3>1. /\ links' \in Seq(A!Account) /\ Len(links') = Len(links) + 1 /\ Len(links) \in Nat
          /\ links'[Len(links) + 1] = a
          /\ \A i \in 1 .. Len(links) : links'[i] = links[i]
      BY <2>1, <2>3
    <3>2. \A i \in 1 .. Len(links') : i \in 1 .. Len(links) \/ i = Len(links) + 1
      BY <3>1
    <3>3. \A i \in 1 .. Len(links') : \E c \in A!Account : c = links'[i] /\ Owns(c)'
      <4> SUFFICES ASSUME NEW i \in 1 .. Len(links') PROVE \E c \in A!Account : c = links'[i] /\ Owns(c)'
        OBVIOUS
      <4>1. PICK c \in A!Account : c = links'[i]
        BY <3>1
      <4>2. CASE i \in 1 .. Len(links)
        <5>1. c = links[i]
          BY <3>1, <4>1, <4>2
        <5> QED BY <2>8, <4>1, <4>2, <5>1
      <4>3. CASE i = Len(links) + 1
        <5>1. c = a
          BY <3>1, <4>1, <4>3
        <5> QED BY <2>8, <4>1, <5>1
      <4> QED BY <3>2, <4>2, <4>3
    <3>4. \A i, j \in 1 .. Len(links') : links'[i] = links'[j] => i = j
      BY <2>2, <2>5, <3>1, <3>2 DEF LinkedOnce
    <3>5. (\A i \in 1 .. Len(links) : Owns(links[i]))'
      BY <3>3 DEF Owns
    <3> QED BY <3>1, <3>4, <3>5 DEF LinkedOnce
  <2>10. AtHome'
    BY <1>1, <2>2, <2>7, HomeStays
  <2>11. Way(r)'
    BY <1>0, <2>3, <2>4, <2>7, <2>8 DEF Way, KindsAt, Owns, NobodyNew
  <2>12. r \in took => Shut(a) /\ Emptied(a)
    BY <1>0, <1>1, <2>2 DEF TookIsShut
  <2>13. Shut(a) => Shut(a)'
    <3>1. Enters(r) /\ cleared \subseteq cleared'
      BY <1>1, <2>3, <2>4 DEF Enters
    <3> QED BY <2>4, <3>1, ShutStays
  <2>14. r \in took' => Shut(target[r])'
    BY <1>0, <2>4, <2>12, <2>13 DEF Shut, A!Entering
  <2>15. PICK b : /\ claimed' \subseteq claimed \cup {b}
                  /\ b \in claimed' => Shut(b) /\ Emptied(b) /\ b \in A!Account
    <3>1. CASE r \in took
      BY <2>1, <2>3, <2>12, <3>1
    <3>2. CASE r \notin took
      BY <2>1, <3>2, SomeClaimed
    <3> QED BY <3>1, <3>2
  <2>16. /\ UNCHANGED <<users, made, cleared>> /\ took' \subseteq took \cup {r} /\ target'[r] = target[r]
         /\ kind'[r] = "provider" /\ Opened
         /\ sessions' \subseteq [account : A!Account, by : {"provider", "old", "new"}]
    BY <1>1, <2>2, <2>3, <2>4 DEF Opened, AccountsTyped
  <2> QED BY <2>4, <2>9, <2>10, <2>11, <2>14, <2>15, <2>16, SamePeopleKeep
<1> QED BY <1>2, <1>3

LEMMA OpenKeeps ==
  ASSUME AccountsInv, MaxAccounts \in Nat, NEW r \in Request, A!Open(r)
  PROVE  AccountsInv'
<1>0. PICK a : a = target[r]
  OBVIOUS
<1>1. /\ step[r] = "open" /\ A!Finish(r) /\ UNCHANGED <<users, made, links, claimed, cleared>>
  BY DEF A!Open
<1>2. AccountsTyped /\ RequestsTyped /\ LinkedOnce /\ AtHome /\ Way(r)
  BY Facts
<1>3. CASE kind[r] = "provider" /\ a \notin A!Existing
  <2>1. UNCHANGED <<sessions, home>>
    BY <1>0, <1>3 DEF A!Open
  <2> QED BY <1>1, <2>1, FinishQuietly
<1>4. CASE ~(kind[r] = "provider" /\ a \notin A!Existing)
  <2>1. /\ sessions' = sessions \cup {[account |-> a, by |-> kind[r]]}
        /\ home' = IF kind[r] = "provider" /\ home # A!Unknown THEN a ELSE home
    BY <1>0, <1>4 DEF A!Open
  <2>2. kind[r] \in {"provider", "old", "new"} /\ a \in 1 .. made /\ a \in A!Account
        /\ (kind[r] = "provider" => Owns(a))
    BY <1>0, <1>1, <1>2 DEF Way, KindsAt, AccountsTyped, A!Account
  <2>3. /\ RequestsTyped' /\ Others(r) /\ step'[r] = "idle" /\ kind'[r] = "none" /\ took' = took \ {r}
    BY <1>1, <1>2, FinishStep
  <2>4. SamePeople
    BY <1>1 DEF SamePeople
  <2>5. Kept /\ NobodyNew /\ A!Existing' = A!Existing
    BY <1>2, <2>4, SameAreKept
  <2>6. LinkedOnce' /\ links' \in Seq(A!Account)
    BY <1>1, <1>2, <2>5, LinksStay DEF AccountsTyped
  <2>7. PICK h : h = home /\ (Owns(h) => Owns(h)')
    <3>1. PICK h : h = home
      OBVIOUS
    <3> QED BY <1>2, <2>5, <3>1, OwnsStays
  <2>8. Owns(a) => Owns(a)'
    BY <1>2, <2>5, OwnsStays
  <2>9. AtHome'
    BY <1>1, <1>2, <2>1, <2>2, <2>5, <2>7, <2>8 DEF AtHome, NobodyNew, Owns
  <2>10. Way(r)'
    BY <2>3 DEF Way, KindsAt
  <2>11. kind[r] \in {"old", "new"} => ~Shut(a)
    BY <1>0, <1>1 DEF Shut, A!Entering
  <2>12. Opened
    <3>1. [account |-> a, by |-> kind[r]].by = kind[r] /\ [account |-> a, by |-> kind[r]].account = a
      OBVIOUS
    <3> QED BY <2>1, <2>2, <2>11, <3>1 DEF Opened
  <2>13. sessions' \subseteq [account : A!Account, by : {"provider", "old", "new"}]
    BY <1>2, <2>1, <2>2 DEF AccountsTyped
  <2>14. PICK b : /\ claimed' \subseteq claimed \cup {b}
                  /\ b \in claimed' => Shut(b) /\ Emptied(b) /\ b \in A!Account
    BY <1>1, SomeClaimed
  <2>15. UNCHANGED <<users, made, cleared>> /\ took' \subseteq took \cup {r} /\ r \notin took'
    BY <1>1, <2>3
  <2> QED BY <2>3, <2>6, <2>9, <2>10, <2>12, <2>13, <2>14, <2>15, SamePeopleKeep
<1> QED BY <1>3, <1>4

LEMMA RemoveAtIs ==
  ASSUME NEW S, NEW s \in Seq(S), NEW i \in 1 .. Len(s)
  PROVE  /\ A!RemoveAt(s, i) \in Seq(S) /\ Len(A!RemoveAt(s, i)) = Len(s) - 1
         /\ \A j \in 1 .. Len(s) - 1 : A!RemoveAt(s, i)[j] = IF j < i THEN s[j] ELSE s[j + 1]
<1>1. /\ SubSeq(s, 1, i - 1) \in Seq(S) /\ Len(SubSeq(s, 1, i - 1)) = i - 1
      /\ \A j \in 1 .. i - 1 : SubSeq(s, 1, i - 1)[j] = s[j]
  OBVIOUS
<1>2. /\ SubSeq(s, i + 1, Len(s)) \in Seq(S) /\ Len(SubSeq(s, i + 1, Len(s))) = Len(s) - i
      /\ \A j \in 1 .. Len(s) - i : SubSeq(s, i + 1, Len(s))[j] = s[i + j]
  OBVIOUS
<1>3. A!RemoveAt(s, i) = SubSeq(s, 1, i - 1) \o SubSeq(s, i + 1, Len(s))
  BY DEF A!RemoveAt
<1> DEFINE p == SubSeq(s, 1, i - 1)
           q == SubSeq(s, i + 1, Len(s))
<1>4. p \in Seq(S) /\ q \in Seq(S) /\ Len(p) = i - 1 /\ Len(q) = Len(s) - i
  BY <1>1, <1>2
<1>5. \A j \in 1 .. i - 1 : p[j] = s[j]
  BY <1>1
<1>6. \A j \in 1 .. Len(s) - i : q[j] = s[i + j]
  BY <1>2
<1> HIDE DEF p, q
<1>7. p \o q \in Seq(S) /\ Len(p \o q) = Len(s) - 1
  BY <1>4
<1>8. \A j \in 1 .. Len(s) - 1 : (p \o q)[j] = IF j < i THEN s[j] ELSE s[j + 1]
  <2> SUFFICES ASSUME NEW j \in 1 .. Len(s) - 1
               PROVE  (p \o q)[j] = IF j < i THEN s[j] ELSE s[j + 1]
    OBVIOUS
  <2>1. CASE j < i
    <3>1. j \in 1 .. i - 1
      BY <2>1
    <3>2. (p \o q)[j] = p[j]
      BY <1>4, <3>1
    <3> QED BY <1>5, <2>1, <3>1, <3>2
  <2>2. CASE ~(j < i)
    <3>1. j - (i - 1) \in 1 .. Len(s) - i /\ i + (j - (i - 1)) = j + 1
      BY <2>2
    <3>2. (p \o q)[j] = q[j - (i - 1)]
      BY <1>4, <2>2
    <3> QED BY <1>6, <2>2, <3>1, <3>2
  <2> QED BY <2>1, <2>2
<1>9. A!RemoveAt(s, i) = p \o q
  BY <1>3 DEF p, q
<1> QED BY <1>7, <1>8, <1>9

LEMMA UnlinkKeeps ==
  ASSUME AccountsInv, NEW a \in A!Account, A!Unlink(a)
  PROVE  AccountsInv'
<1>1. /\ UNCHANGED <<users, made, sessions>> /\ UNCHANGED <<step, kind, form, target>>
      /\ UNCHANGED <<took, claimed, cleared, home>>
  BY DEF A!Unlink, A!request, A!history
<1>2. PICK i \in 1 .. Len(links) : links' = A!RemoveAt(links, i)
  BY DEF A!Unlink
<1>3. AccountsTyped /\ LinkedOnce /\ links \in Seq(A!Account)
  BY Facts DEF AccountsTyped
<1>4. /\ links' \in Seq(A!Account) /\ Len(links') = Len(links) - 1 /\ Len(links) \in Nat
      /\ \A j \in 1 .. Len(links') : links'[j] = IF j < i THEN links[j] ELSE links[j + 1]
  <2>1. PICK s \in Seq(A!Account) : s = links
    BY <1>3
  <2>2. i \in 1 .. Len(s)
    BY <2>1
  <2>3. /\ A!RemoveAt(s, i) \in Seq(A!Account) /\ Len(A!RemoveAt(s, i)) = Len(s) - 1
        /\ \A j \in 1 .. Len(s) - 1 : A!RemoveAt(s, i)[j] = IF j < i THEN s[j] ELSE s[j + 1]
    BY <2>2, RemoveAtIs
  <2>4. Len(s) \in Nat
    OBVIOUS
  <2> QED BY <1>2, <2>1, <2>3, <2>4
<1>5. AccountsTyped'
  BY <1>1, <1>3, <1>4 DEF AccountsTyped, RequestsTyped
<1>6. LinkedOnce'
  <2>1. \A j \in 1 .. Len(links') : \E k \in 1 .. Len(links) :
          links'[j] = links[k] /\ k = IF j < i THEN j ELSE j + 1
    BY <1>4
  <2>2. (\A j \in 1 .. Len(links) : Owns(links[j]))'
    BY <1>1, <1>3, <2>1 DEF LinkedOnce, Owns, A!Existing
  <2>3. \A j, k \in 1 .. Len(links') : links'[j] = links'[k] => j = k
    <3> SUFFICES ASSUME NEW j \in 1 .. Len(links'), NEW k \in 1 .. Len(links'), links'[j] = links'[k]
                 PROVE  j = k
      OBVIOUS
    <3>1. PICK m \in 1 .. Len(links) : links'[j] = links[m] /\ m = IF j < i THEN j ELSE j + 1
      BY <2>1
    <3>2. PICK n \in 1 .. Len(links) : links'[k] = links[n] /\ n = IF k < i THEN k ELSE k + 1
      BY <2>1
    <3>3. m = n
      BY <1>3, <3>1, <3>2 DEF LinkedOnce
    <3> QED BY <1>4, <3>1, <3>2, <3>3
  <2> QED BY <2>2, <2>3 DEF LinkedOnce
<1>7. (\A r \in Request : Way(r))' /\ Distinct' /\ Numbered' /\ Hashes' /\ AtHome'
  BY <1>1 DEF AccountsInv, Way, Owns, Distinct, Numbered, Hashes, AtHome, A!Existing
<1>8. TookIsShut' /\ ClaimedIsShut'
  BY <1>1 DEF AccountsInv, TookIsShut, ClaimedIsShut, Shut, A!Entering, Emptied
<1> QED BY <1>5, <1>6, <1>7, <1>8 DEF AccountsInv

-----------------------------------------------------------------------------
LEMMA AccountsInit ==
  ASSUME A!AccountsAssumption, A!Init
  PROVE  AccountsInv
<1>1. MaxAccounts \in Nat
  BY DEF A!AccountsAssumption
<1>2. A!Existing = {} /\ cleared = {} /\ took = {} /\ claimed = {} /\ made = 0 /\ sessions = {} /\ links = <<>>
  BY DEF A!Init, A!Existing
<1>3. AccountsTyped
  <2>1. RequestsTyped
    <3>1. "idle" \in AccountSteps /\ "none" \in WhatFor
      BY DEF AccountSteps, WhatFor
    <3> QED BY <3>1 DEF A!Init, RequestsTyped
  <2> QED BY <1>1, <1>2, <2>1 DEF A!Init, AccountsTyped
<1>4. \A r \in Request : Way(r)
  BY DEF A!Init, Way, KindsAt
<1>5. Numbered /\ Distinct /\ LinkedOnce /\ Hashes /\ TookIsShut /\ ClaimedIsShut
  BY <1>2 DEF Numbered, Distinct, LinkedOnce, Hashes, TookIsShut, ClaimedIsShut
<1>6. AtHome
  BY <1>1, <1>2 DEF A!Init, AtHome
<1> QED BY <1>3, <1>4, <1>5, <1>6 DEF AccountsInv

LEMMA AccountsStep ==
  ASSUME A!AccountsAssumption, AccountsInv, [A!Next]_A!vars
  PROVE  AccountsInv'
<1>0. MaxAccounts \in Nat
  BY DEF A!AccountsAssumption
<1>1. CASE UNCHANGED A!vars
  <2>1. /\ UNCHANGED <<users, made, links, sessions>> /\ UNCHANGED <<step, kind, form, target>>
        /\ UNCHANGED <<took, claimed, cleared, home>>
    BY <1>1 DEF A!vars, A!request, A!history
  <2>2. AccountsTyped'
    BY <2>1 DEF AccountsInv, AccountsTyped, RequestsTyped
  <2>3. (\A r \in Request : Way(r))' /\ Distinct' /\ Numbered' /\ Hashes' /\ AtHome'
    BY <2>1 DEF AccountsInv, Way, Owns, Distinct, Numbered, Hashes, AtHome, A!Existing
  <2>4. LinkedOnce'
    BY <2>1 DEF AccountsInv, LinkedOnce, Owns, A!Existing
  <2>5. TookIsShut' /\ ClaimedIsShut'
    BY <2>1 DEF AccountsInv, TookIsShut, ClaimedIsShut, Shut, A!Entering, Emptied
  <2> QED BY <2>2, <2>3, <2>4, <2>5 DEF AccountsInv
<1>2. ASSUME NEW r \in Request,
             \/ \E c \in Given : A!Register(r, c.name, c.email)
             \/ A!StartUp(r) \/ A!CountUsers(r) \/ A!LookUp(r) \/ A!Create(r)
             \/ A!SignIn(r) \/ A!FindLink(r) \/ A!ReadLinked(r) \/ A!FindLocal(r) \/ A!Clear(r) \/ A!RevokeAll(r)
             \/ A!Link(r) \/ A!PickName(r) \/ A!Open(r) \/ A!DeleteUser(r) \/ A!Cut(r)
             \/ \E a \in A!Account :
                  A!LogIn(r, a, "old") \/ A!LogIn(r, a, "new") \/ A!Reset(r, a) \/ A!DeleteAccount(r, a)
      PROVE  AccountsInv'
  <2>1. CASE \/ \E c \in Given : A!Register(r, c.name, c.email)
             \/ A!StartUp(r)
             \/ A!SignIn(r)
             \/ \E a \in A!Account :
                  \/ A!LogIn(r, a, "old")
                  \/ A!LogIn(r, a, "new")
                  \/ A!DeleteAccount(r, a)
    BY <1>0, <2>1, BeginsKeep
  <2>2. CASE \/ A!CountUsers(r)
             \/ A!LookUp(r)
             \/ A!FindLink(r)
             \/ A!ReadLinked(r)
             \/ A!FindLocal(r)
             \/ A!Cut(r)
    BY <1>0, <2>2, LookingKeeps
  <2>3. CASE A!Create(r)
    BY <1>0, <2>3, CreateKeeps
  <2>4. CASE A!Clear(r)
    BY <1>0, <2>4, ClearKeeps
  <2>5. CASE A!RevokeAll(r)
    BY <1>0, <2>5, RevokeAllKeeps
  <2>6. CASE A!Link(r)
    BY <1>0, <2>6, LinkKeeps
  <2>7. CASE A!PickName(r)
    BY <1>0, <2>7, PickNameKeeps
  <2>8. CASE A!Open(r)
    BY <1>0, <2>8, OpenKeeps
  <2>9. CASE A!DeleteUser(r)
    BY <1>0, <2>9, DeleteUserKeeps
  <2>10. CASE \E a \in A!Account : A!Reset(r, a)
    BY <1>0, <2>10, ResetKeeps
  <2> QED BY <1>2, <2>1, <2>2, <2>3, <2>4, <2>5, <2>6, <2>7, <2>8, <2>9, <2>10
<1>3. CASE \E a \in A!Account : A!Unlink(a)
  BY <1>3, UnlinkKeeps
<1> QED BY <1>1, <1>2, <1>3 DEF A!Next

LEMMA AccountsStay ==
  ASSUME A!AccountsAssumption
  PROVE  A!Spec => []AccountsInv
<1>1. A!Init => AccountsInv
  BY AccountsInit
<1>2. AccountsInv /\ [A!Next]_A!vars => AccountsInv'
  BY AccountsStep
<1> QED BY <1>1, <1>2, PTL DEF A!Spec

\* However registrations, first sign-ins and starting processes overlap, no two accounts share a
\* name or an address, one at most is the first administrator's, and the identity is linked to
\* one at most that is there.
THEOREM AccountsStayApart ==
  ASSUME A!AccountsAssumption
  PROVE  A!Spec => []OneOfEach
<1>1. AccountsInv => OneOfEach
  <2> SUFFICES ASSUME AccountsInv PROVE OneOfEach
    OBVIOUS
  <2>1. Distinct /\ LinkedOnce
    BY Facts
  <2>2. Cardinality({a \in A!Existing : users[a].role = "admin"}) <= 1
    <3> DEFINE admins == {a \in A!Existing : users[a].role = "admin"}
    <3>1. \A a, b \in admins : a = b
      BY <2>1 DEF Distinct
    <3>2. CASE admins = {}
      BY <3>2, FS_EmptySet
    <3>3. CASE admins # {}
      <4>1. PICK a \in admins : admins = {a}
        BY <3>1, <3>3
      <4>2. Cardinality({a}) = 1
        BY FS_Singleton
      <4>3. Cardinality(admins) = 1
        BY <4>1, <4>2
      <4> QED BY <4>3
    <3> QED BY <3>2, <3>3
  <2>3. \A i, j \in 1 .. Len(links) : links[i] \in A!Existing /\ links[j] \in A!Existing => i = j
    BY <2>1 DEF LinkedOnce, Distinct, Owns
  <2>4. A!Cardinality({a \in A!Existing : users[a].role = "admin"}) <= 1
    BY <2>2, SameCountOfAccounts
  <2> QED BY <2>1, <2>3, <2>4 DEF OneOfEach, A!OneOfEach, Distinct
<1> QED BY <1>1, AccountsStay, PTL

\* An account belongs to whoever proved the identity or its address: a taken over account keeps
\* nothing of whoever registered it, a password set with a reset link counts, and the identity is
\* led to the same account the next time.
THEOREM AccountsStayTheOwners ==
  ASSUME A!AccountsAssumption
  PROVE  A!Spec => []AccountsHold
<1>1. AccountsInv => AccountsHold
  <2> SUFFICES ASSUME AccountsInv PROVE AccountsHold
    OBVIOUS
  <2>1. AccountsTyped /\ Distinct /\ LinkedOnce /\ Hashes /\ ClaimedIsShut /\ AtHome /\ Numbered
    BY Facts
  <2>2. A!TakenOverIsClean
    <3> SUFFICES ASSUME NEW a \in claimed \cap A!Existing
                 PROVE  A!Password(a) # "old" /\ \A s \in A!Of(a) : s.by # "old"
      BY DEF A!TakenOverIsClean
    <3>1. a \in cleared /\ Emptied(a)
      BY <2>1 DEF ClaimedIsShut, Shut
    <3>2. users[a].hash = "none"
      BY <2>1, <3>1 DEF Hashes
    <3>3. \A s \in A!Of(a) : s.by = "provider"
      BY <3>1 DEF Emptied, A!Of
    <3> QED BY <3>2, <3>3 DEF A!Password
  <2>3. A!ResetCounts
    BY <2>1 DEF A!ResetCounts, Hashes, A!Password
  <2>4. A!ComesHome
    <3> SUFFICES ASSUME home \notin {A!Nobody, A!Unknown} PROVE A!Leads = {home}
      BY DEF A!ComesHome
    <3>1. Owns(home) /\ home \in A!Existing /\ users[home].email = Own
      BY <2>1 DEF AtHome, Owns
    <3>2. CASE links # <<>>
      <4>1. 1 \in 1 .. Len(links)
        BY <2>1, <3>2 DEF AccountsTyped
      <4>2. Owns(links[1])
        BY <2>1, <4>1 DEF LinkedOnce
      <4>3. links[1] \in A!Existing /\ users[links[1]].email = Own
        BY <2>1, <4>2 DEF AtHome, Owns
      <4>4. links[1] = home
        BY <2>1, <3>1, <4>3 DEF Distinct
      <4> QED BY <3>2, <4>4 DEF A!Leads
    <3>3. CASE links = <<>>
      <4>1. \A a \in A!Existing : users[a].email = Own => a = home
        BY <2>1, <3>1 DEF Distinct
      <4> QED BY <3>1, <3>3, <4>1 DEF A!Leads, A!Addressed
    <3> QED BY <3>2, <3>3
  <2> QED BY <2>2, <2>3, <2>4 DEF AccountsHold, A!AccountsHold
<1> QED BY <1>1, AccountsStay, PTL

-----------------------------------------------------------------------------
(* Passkeys and API tokens.                                                *)

Purposes == {"none", "gone", "login", "register"}
Challenges == [purpose : Purposes, expired : BOOLEAN]
CredentialSteps ==
  {"idle", "count_keys", "issue", "take", "spend", "insert_key", "key", "count", "account",
   "count_tokens", "insert_token", "token"}

Options == [kind |-> "options"]
Creation == [kind |-> "create"]
Ceremony(kinds) == [kind : kinds, challenge : Challenge, key : Key, count : Nat]
Calls == [kind : {"call"}, token : Token]
Operations ==
  {C!NoOp, Options, Creation} \cup Ceremony({"login", "register"}) \cup Calls

\* What a request at each step is for.
Fitting(label) ==
  CASE label = "idle" -> {C!NoOp}
    [] label \in {"count_keys", "issue"} -> {Options}
    [] label \in {"take", "spend"} -> Ceremony({"login", "register"})
    [] label = "insert_key" -> Ceremony({"register"})
    [] label \in {"key", "count"} -> Ceremony({"login"})
    [] label = "account" -> Ceremony({"login"}) \cup Calls
    [] label \in {"count_tokens", "insert_token"} -> {Creation}
    [] label = "token" -> Calls

CredentialsTyped ==
  /\ challenges \in [Challenge -> Challenges]
  /\ passkeys \in [Key -> Nat \cup {C!Unregistered}]
  /\ tokens \in [Token -> {"none", "live", "expired"}]
  /\ at \in [Request -> CredentialSteps]
  /\ call \in [Request -> Operations]
  /\ record \in [Request -> Challenges]
  /\ valid = [r \in Request |-> valid[r]]
  /\ answered \in [Challenge -> Nat]
  /\ count \in [Key -> Nat]
  /\ \A r \in Request : call[r] \in Fitting(at[r])

\* A challenge that is still there was never accepted.
UsedIsGone ==
  \A c \in Challenge : answered[c] <= 1 /\ (challenges[c] # C!Gone => answered[c] = 0)

\* While sign-ins with a key come one after another, the counter that one of them has compared is
\* the newest, and so is the one that is stored.
AtCount(r, k) == at[r] = "count" /\ call[r].key = k
ComparedIsNewest(k) ==
  /\ \A q, r \in Request : AtCount(q, k) /\ AtCount(r, k) => q = r
  /\ \A r \in Request : AtCount(r, k) => C!Newer(call[r].count, count[k])
  /\ k \in C!Registered => passkeys[k] = count[k]

CountersHold ==
  /\ \A k \in Key \ together : ComparedIsNewest(k)
  /\ C!CopiesAreFound

\* The challenge that a request spends has been issued, for what it has seen.
SpendsWhatItSaw ==
  \A r \in Request :
    /\ at[r] \in {"take", "spend"} => challenges[call[r].challenge] # C!Unissued
    /\ at[r] = "spend" => \/ challenges[call[r].challenge] = C!Gone
                          \/ challenges[call[r].challenge].purpose = record[r].purpose

\* What a key may still be registered with: a count that has found room, the challenge that was
\* issued for it, and the answer that has spent the challenge.
OpenChallenge == [purpose |-> "register", expired |-> FALSE]
Tickets ==
  {<<"request", r>> : r \in {q \in Request : at[q] \in {"issue", "insert_key"}}}
    \cup {<<"challenge", c>> : c \in {d \in Challenge : challenges[d] = OpenChallenge}}

\* One at a time, and only while there is room.
RoomForKeys ==
  "passkeys" \notin crowded =>
    /\ Cardinality(C!Registered) <= MaxPasskeys
    /\ \A s, t \in Tickets : s = t
    /\ Tickets # {} => Cardinality(C!Registered) < MaxPasskeys

Inserting == {r \in Request : at[r] = "insert_token"}
RoomForTokens ==
  "tokens" \notin crowded =>
    /\ Cardinality(C!Stored) <= PerUser
    /\ \A q, r \in Inserting : q = r
    /\ Inserting # {} => Cardinality(C!Stored) < PerUser

\* What a request relies on and is there is known to have been there while it ran, and so is what
\* it has already found.
FoundIsKnown ==
  \A r \in Request :
    /\ C!ReliesOn(call[r]) \cap C!There \subseteq valid[r]
    /\ at[r] \in {"count", "account"} /\ call[r].kind = "login" => <<"key", call[r].key>> \in valid[r]
    /\ at[r] = "account" /\ call[r].kind = "call" => <<"token", call[r].token>> \in valid[r]

CredentialsInv ==
  /\ CredentialsTyped
  /\ UsedIsGone
  /\ CountersHold
  /\ SpendsWhatItSaw
  /\ RoomForKeys
  /\ RoomForTokens
  /\ FoundIsKnown
  /\ C!RemovedIsRefused

-----------------------------------------------------------------------------
(* Types.                                                                  *)

USE DEF C!store, C!request, C!counters, C!history

\* What is finite, and how much there is, is the same for the instance.
LEMMA SameFinite == \A S : C!IsFiniteSet(S) <=> IsFiniteSet(S)
BY DEF C!IsFiniteSet, IsFiniteSet

LEMMA SameCount == \A S : C!Cardinality(S) = Cardinality(S)
BY DEF C!Cardinality, Cardinality

LEMMA NoOpIsNone ==
  ASSUME NEW o \in Operations
  PROVE  /\ o.kind = "login" => o \in Ceremony({"login"})
         /\ o.kind = "register" => o \in Ceremony({"register"})
         /\ o.kind = "call" => o \in Calls
         /\ C!ReliesOn(C!NoOp) = {} /\ C!ReliesOn(Options) = {} /\ C!ReliesOn(Creation) = {}
BY DEF Operations, C!NoOp, Options, Creation, Ceremony, Calls, C!ReliesOn

LEMMA FittingOps ==
  ASSUME NEW label \in CredentialSteps
  PROVE  /\ Fitting("idle") = {C!NoOp} /\ Fitting("count_keys") = {Options}
         /\ Fitting("issue") = {Options} /\ Fitting("take") = Ceremony({"login", "register"})
         /\ Fitting("spend") = Ceremony({"login", "register"})
         /\ Fitting("insert_key") = Ceremony({"register"})
         /\ Fitting("key") = Ceremony({"login"}) /\ Fitting("count") = Ceremony({"login"})
         /\ Fitting("account") = Ceremony({"login"}) \cup Calls
         /\ Fitting("count_tokens") = {Creation} /\ Fitting("insert_token") = {Creation}
         /\ Fitting("token") = Calls
         /\ Fitting(label) \subseteq Operations
<1>1. /\ Fitting("idle") = {C!NoOp} /\ Fitting("count_keys") = {Options} /\ Fitting("issue") = {Options}
      /\ Fitting("count_tokens") = {Creation} /\ Fitting("insert_token") = {Creation}
  BY DEF Fitting
<1>2. /\ Fitting("take") = Ceremony({"login", "register"}) /\ Fitting("spend") = Ceremony({"login", "register"})
      /\ Fitting("insert_key") = Ceremony({"register"})
  BY DEF Fitting
<1>3. /\ Fitting("key") = Ceremony({"login"}) /\ Fitting("count") = Ceremony({"login"})
      /\ Fitting("account") = Ceremony({"login"}) \cup Calls /\ Fitting("token") = Calls
  BY DEF Fitting
<1>4. Fitting(label) \subseteq Operations
  <2>1. /\ C!NoOp \in Operations /\ Options \in Operations /\ Creation \in Operations /\ Calls \subseteq Operations
        /\ \A S \in {{"login", "register"}, {"register"}, {"login"}} : Ceremony(S) \subseteq Operations
    BY DEF Operations, Ceremony
  <2> QED BY <1>1, <1>2, <1>3, <2>1 DEF CredentialSteps
<1> QED BY <1>1, <1>2, <1>3, <1>4

\* What a request at each step is for, and that it may go on from there.
LEMMA Carries ==
  ASSUME CredentialsTyped, NEW r \in Request
  PROVE  /\ at[r] \in {"count_keys", "issue"} => call[r] = Options
         /\ at[r] \in {"take", "spend"} => call[r] \in Ceremony({"login", "register"})
         /\ at[r] = "insert_key" => call[r] \in Ceremony({"register"})
         /\ at[r] \in {"key", "count"} => call[r] \in Ceremony({"login"})
         /\ at[r] = "account" => call[r] \in Ceremony({"login"}) \cup Calls
         /\ at[r] \in {"count_tokens", "insert_token"} => call[r] = Creation
         /\ at[r] = "token" => call[r] \in Calls
         /\ at[r] = "idle" => call[r] = C!NoOp
<1>1. at[r] \in CredentialSteps /\ call[r] \in Fitting(at[r])
  BY DEF CredentialsTyped
<1> QED BY <1>1, FittingOps

LEMMA BeginTyped ==
  ASSUME CredentialsTyped, NEW r \in Request, NEW label \in CredentialSteps, NEW o \in Fitting(label),
         C!Begin(r, o, label)
  PROVE  CredentialsTyped'
<1>1. o \in Operations
  BY FittingOps
<1>2. at' \in [Request -> CredentialSteps] /\ call' \in [Request -> Operations]
  BY <1>1 DEF CredentialsTyped, C!Begin, C!Goto
<1>3. valid' = [q \in Request |-> valid'[q]]
  BY DEF CredentialsTyped, C!Begin
<1>4. \A q \in Request : call'[q] \in Fitting(at'[q])
  BY DEF CredentialsTyped, C!Begin, C!Goto
<1> QED BY <1>2, <1>3, <1>4 DEF CredentialsTyped, C!Begin

LEMMA ExpiredChallenge ==
  ASSUME NEW e \in Challenges
  PROVE  LET f == [e EXCEPT !.expired = TRUE] IN
         f \in Challenges /\ f.purpose = e.purpose /\ f.expired = TRUE
<1>1. [e EXCEPT !.expired = TRUE] \in Challenges
  BY DEF Challenges
<1>2. [e EXCEPT !.expired = TRUE].purpose = e.purpose
  BY DEF Challenges
<1>3. [e EXCEPT !.expired = TRUE].expired = TRUE
  BY DEF Challenges
<1> QED BY <1>1, <1>2, <1>3

\* Only of MaxCount, which bounds them.
LEMMA CountsAreNumbers == \A n \in 0 .. MaxCount : n \in Nat
OBVIOUS

LEMMA LeaveTyped ==
  ASSUME CredentialsTyped, NEW r \in Request, C!Leave(r)
  PROVE  /\ at' \in [Request -> CredentialSteps]
         /\ call' \in [Request -> Operations]
         /\ record' \in [Request -> Challenges]
         /\ \A q \in Request : call'[q] \in Fitting(at'[q])
<1>1. C!Gone \in Challenges /\ C!NoOp \in Operations /\ C!NoOp \in Fitting("idle") /\ "idle" \in CredentialSteps
  BY FittingOps DEF C!Gone, Challenges, Purposes, Operations, CredentialSteps
<1> QED BY <1>1 DEF CredentialsTyped, C!Leave, C!Goto

LEMMA GotoTyped ==
  ASSUME CredentialsTyped, NEW r \in Request, NEW label \in CredentialSteps, C!Goto(r, label),
         call[r] \in Fitting(label), call' = call
  PROVE  /\ at' \in [Request -> CredentialSteps]
         /\ \A q \in Request : call'[q] \in Fitting(at'[q])
BY DEF CredentialsTyped, C!Goto

LEMMA CloseTyped ==
  ASSUME CredentialsTyped, NEW r \in Request, C!Close(r)
  PROVE  valid' = [q \in Request |-> valid'[q]]
BY DEF CredentialsTyped, C!Close

LEMMA CredentialsTypedStep == CredentialsTyped /\ [C!Next]_C!vars => CredentialsTyped'
<1> SUFFICES ASSUME CredentialsTyped, [C!Next]_C!vars PROVE CredentialsTyped'
  OBVIOUS
<1>0. CASE UNCHANGED C!vars
  BY <1>0 DEF C!vars, CredentialsTyped
<1>1. ASSUME NEW r \in Request, C!RegistrationOptions(r) \/ C!Create(r) PROVE CredentialsTyped'
  BY <1>1, BeginTyped, FittingOps DEF C!RegistrationOptions, C!Create, Options, Creation, CredentialSteps
<1>2. ASSUME NEW r \in Request, C!Register(r) \/ C!Login(r) PROVE CredentialsTyped'
  <2>1. CASE C!Register(r)
    <3>1. PICK c \in Challenge, k \in Key, n \in {0, 1} :
            C!Begin(r, [kind |-> "register", challenge |-> c, key |-> k, count |-> n], "take")
      BY <2>1 DEF C!Register
    <3>2. [kind |-> "register", challenge |-> c, key |-> k, count |-> n]
            \in Ceremony({"login", "register"})
      BY CountsAreNumbers DEF Ceremony
    <3>3. "take" \in CredentialSteps /\ Fitting("take") = Ceremony({"login", "register"})
      BY FittingOps DEF CredentialSteps
    <3> QED BY <3>1, <3>2, <3>3, BeginTyped
  <2>2. CASE C!Login(r)
    <3>1. PICK c \in Challenge, k \in Key, n \in 0 .. MaxCount :
            C!Begin(r, [kind |-> "login", challenge |-> c, key |-> k, count |-> n], "take")
      BY <2>2 DEF C!Login
    <3>2. [kind |-> "login", challenge |-> c, key |-> k, count |-> n]
            \in Ceremony({"login", "register"})
      BY CountsAreNumbers DEF Ceremony
    <3>3. "take" \in CredentialSteps /\ Fitting("take") = Ceremony({"login", "register"})
      BY FittingOps DEF CredentialSteps
    <3> QED BY <3>1, <3>2, <3>3, BeginTyped
  <2> QED BY <1>2, <2>1, <2>2
<1>3. ASSUME NEW r \in Request, C!Call(r) PROVE CredentialsTyped'
  BY <1>3, BeginTyped, FittingOps DEF C!Call, Calls, CredentialSteps
<1>4. ASSUME NEW r \in Request, C!CountKeys(r) PROVE CredentialsTyped'
  <2>1. call[r] \in Fitting("issue") /\ "issue" \in CredentialSteps
    BY <1>4, FittingOps DEF C!CountKeys, CredentialsTyped, CredentialSteps
  <2> QED BY <1>4, <2>1, LeaveTyped, CloseTyped, GotoTyped DEF C!CountKeys, C!Refuse, C!Close, CredentialsTyped
<1>5. ASSUME NEW r \in Request, C!IssueRegistration(r) PROVE CredentialsTyped'
  <2>1. PICK c \in C!Unused : C!Issue(c, "register")
    BY <1>5 DEF C!IssueRegistration
  <2>2. challenges' \in [Challenge -> Challenges]
    BY <2>1 DEF C!Issue, C!Unused, CredentialsTyped, Challenges, Purposes
  <2> QED BY <1>5, <2>1, <2>2, LeaveTyped, CloseTyped
         DEF C!IssueRegistration, C!Issue, C!Refuse, C!Close, CredentialsTyped
<1>6. ASSUME NEW r \in Request, C!TakeChallenge(r) PROVE CredentialsTyped'
  <2>1. call[r] \in Fitting("spend") /\ "spend" \in CredentialSteps
    BY <1>6, FittingOps DEF C!TakeChallenge, CredentialsTyped, CredentialSteps
  <2>2. challenges[call[r].challenge] \in Challenges
    BY <1>6, Carries DEF C!TakeChallenge, CredentialsTyped, Ceremony
  <2> QED BY <1>6, <2>1, <2>2, LeaveTyped, CloseTyped, GotoTyped
         DEF C!TakeChallenge, C!Refuse, C!Close, CredentialsTyped
<1>7. ASSUME NEW r \in Request, C!SpendChallenge(r) PROVE CredentialsTyped'
  <2>1. call[r] \in Ceremony({"login", "register"})
    BY <1>7, Carries DEF C!SpendChallenge
  <2>2. challenges' \in [Challenge -> Challenges]
    BY <1>7, <2>1 DEF C!SpendChallenge, CredentialsTyped, Challenges, C!Gone, Purposes
  <2>3. CASE C!Spent(r)
    <3>1. answered' \in [Challenge -> Nat]
      BY <1>7, <2>1, <2>3 DEF C!SpendChallenge, CredentialsTyped, Ceremony
    <3> DEFINE label == IF call[r].kind = "login" THEN "key" ELSE "insert_key"
    <3>2. label \in CredentialSteps /\ call[r] \in Fitting(label)
      BY <2>1, FittingOps DEF CredentialSteps, Ceremony
    <3>3. C!Goto(r, label) /\ UNCHANGED <<call, record, valid>>
      BY <1>7, <2>3 DEF C!SpendChallenge
    <3> HIDE DEF label
    <3> QED BY <1>7, <2>2, <3>1, <3>2, <3>3, GotoTyped DEF C!SpendChallenge, CredentialsTyped
  <2>4. CASE ~C!Spent(r)
    BY <1>7, <2>2, <2>4, LeaveTyped, CloseTyped DEF C!SpendChallenge, C!Refuse, C!Close, CredentialsTyped
  <2> QED BY <2>3, <2>4
<1>8. ASSUME NEW r \in Request, C!InsertKey(r) PROVE CredentialsTyped'
  <2>1. call[r].key \in Key /\ call[r].count \in Nat
    BY <1>8, Carries DEF C!InsertKey, Ceremony
  <2>2. passkeys' \in [Key -> Nat \cup {C!Unregistered}] /\ count' \in [Key -> Nat]
    BY <1>8, <2>1 DEF C!InsertKey, CredentialsTyped
  <2>3. C!Leave(r) /\ valid' = [q \in Request |-> valid'[q]]
    BY <1>8, CloseTyped DEF C!InsertKey, C!Refuse, C!Close, C!Watch
  <2> QED BY <1>8, <2>2, <2>3, LeaveTyped DEF C!InsertKey, CredentialsTyped
<1>9. ASSUME NEW r \in Request, C!VerifyKey(r) PROVE CredentialsTyped'
  <2>1. call[r] \in Fitting("count") /\ "count" \in CredentialSteps
    BY <1>9, FittingOps DEF C!VerifyKey, CredentialsTyped, CredentialSteps
  <2> QED BY <1>9, <2>1, LeaveTyped, CloseTyped, GotoTyped DEF C!VerifyKey, C!Refuse, C!Close, CredentialsTyped
<1>10. ASSUME NEW r \in Request, C!WriteCount(r) PROVE CredentialsTyped'
  <2>1. call[r] \in Ceremony({"login"})
    BY <1>10, Carries DEF C!WriteCount
  <2>3. call[r] \in Fitting("account") /\ "account" \in CredentialSteps /\ call[r].key \in Key
        /\ call[r].count \in Nat
    BY <2>1, FittingOps DEF CredentialSteps, Ceremony
  <2>2. passkeys' \in [Key -> Nat \cup {C!Unregistered}] /\ count' \in [Key -> Nat]
    BY <1>10, <2>3 DEF C!WriteCount, C!Counted, CredentialsTyped
  <2> QED BY <1>10, <2>2, <2>3, GotoTyped DEF C!WriteCount, CredentialsTyped
<1>11. ASSUME NEW r \in Request, C!ReadAccount(r) \/ C!Cut(r) PROVE CredentialsTyped'
  BY <1>11, LeaveTyped, CloseTyped DEF C!ReadAccount, C!Cut, C!Accept, C!Refuse, C!Close, CredentialsTyped
<1>12. ASSUME NEW r \in Request, C!CountTokens(r) PROVE CredentialsTyped'
  <2>1. call[r] \in Fitting("insert_token") /\ "insert_token" \in CredentialSteps
    BY <1>12, FittingOps DEF C!CountTokens, CredentialsTyped, CredentialSteps
  <2> QED BY <1>12, <2>1, LeaveTyped, CloseTyped, GotoTyped DEF C!CountTokens, C!Refuse, C!Close, CredentialsTyped
<1>13. ASSUME NEW r \in Request, C!InsertToken(r) PROVE CredentialsTyped'
  <2>1. tokens' \in [Token -> {"none", "live", "expired"}] /\ valid' = [q \in Request |-> valid'[q]]
    BY <1>13 DEF C!InsertToken, CredentialsTyped, C!Watch
  <2> QED BY <1>13, <2>1, LeaveTyped DEF C!InsertToken, CredentialsTyped
<1>14. ASSUME NEW r \in Request, C!ReadToken(r) PROVE CredentialsTyped'
  <2>1. call[r] \in Fitting("account") /\ "account" \in CredentialSteps
    BY <1>14, FittingOps DEF C!ReadToken, CredentialsTyped, CredentialSteps
  <2> QED BY <1>14, <2>1, LeaveTyped, CloseTyped, GotoTyped DEF C!ReadToken, C!Refuse, C!Close, CredentialsTyped
<1>15. ASSUME NEW c \in Challenge, C!LoginOptions(c) \/ C!ChallengeExpires(c) PROVE CredentialsTyped'
  <2>1. challenges' \in [Challenge -> Challenges]
    <3>1. CASE C!LoginOptions(c)
      BY <3>1 DEF C!LoginOptions, C!Issue, CredentialsTyped, Challenges, Purposes
    <3>2. CASE C!ChallengeExpires(c)
      <4>1. C!Gone \in Challenges /\ [challenges[c] EXCEPT !.expired = TRUE] \in Challenges
        BY ExpiredChallenge DEF CredentialsTyped, Challenges, C!Gone, Purposes
      <4> QED BY <3>2, <4>1 DEF C!ChallengeExpires, CredentialsTyped
    <3> QED BY <1>15, <3>1, <3>2
  <2> QED BY <1>15, <2>1 DEF C!LoginOptions, C!Issue, C!ChallengeExpires, CredentialsTyped
<1>16. ASSUME NEW k \in Key, C!RemoveKey(k) PROVE CredentialsTyped'
  BY <1>16 DEF C!RemoveKey, CredentialsTyped
<1>17. ASSUME NEW t \in Token, C!Revoke(t) \/ C!TokenExpires(t) PROVE CredentialsTyped'
  BY <1>17 DEF C!Revoke, C!TokenExpires, CredentialsTyped
<1>18. ASSUME NEW state \in {"active", "suspended", "deleted"}, C!SetStatus(state)
       PROVE  CredentialsTyped'
  BY <1>18 DEF C!SetStatus, C!Watch, CredentialsTyped
<1> QED
  BY <1>0, <1>1, <1>2, <1>3, <1>4, <1>5, <1>6, <1>7, <1>8, <1>9, <1>10, <1>11, <1>12, <1>13, <1>14,
     <1>15, <1>16, <1>17, <1>18 DEF C!Next
-----------------------------------------------------------------------------
(* Challenges.                                                             *)

\* A request that begins changes nothing that is stored.
LEMMA BegunAlone ==
  ASSUME NEW r, \/ C!RegistrationOptions(r) \/ C!Register(r) \/ C!Login(r) \/ C!Create(r) \/ C!Call(r)
  PROVE  UNCHANGED <<challenges, passkeys, tokens, status, answered, wrong, copied, together, crowded>>
<1>1. ASSUME NEW o, NEW label, C!Begin(r, o, label)
      PROVE  UNCHANGED <<challenges, passkeys, tokens, status, answered, wrong, copied, together, crowded>>
  BY <1>1 DEF C!Begin
<1> QED BY <1>1 DEF C!RegistrationOptions, C!Register, C!Login, C!Create, C!Call

\* A challenge that was issued stays what it was issued for until it is gone, and is gone for good.
LEMMA ChallengesMoveOn ==
  ASSUME CredentialsTyped, [C!Next]_C!vars, NEW c \in Challenge, challenges[c] # C!Unissued
  PROVE  /\ challenges'[c] # C!Unissued
         /\ challenges'[c] = C!Gone \/ challenges'[c].purpose = challenges[c].purpose
         /\ challenges[c] = C!Gone => challenges'[c] = C!Gone
<1>1. CASE challenges' = challenges
  BY <1>1
<1>2. ASSUME NEW d \in C!Unused, NEW purpose, C!Issue(d, purpose)
      PROVE  challenges'[c] = challenges[c]
  BY <1>2 DEF C!Issue, C!Unused, CredentialsTyped
<1>3. ASSUME NEW r \in Request, C!SpendChallenge(r)
      PROVE  challenges'[c] \in {challenges[c], C!Gone}
  BY <1>3 DEF C!SpendChallenge, CredentialsTyped
<1>4. ASSUME NEW d \in Challenge, C!ChallengeExpires(d)
      PROVE  /\ challenges'[c] = C!Gone \/ challenges'[c].purpose = challenges[c].purpose
             /\ challenges[c] = C!Gone => challenges'[c] = C!Gone
             /\ challenges'[c] # C!Unissued
  <2>1. CASE d # c
    BY <1>4, <2>1 DEF C!ChallengeExpires, CredentialsTyped
  <2>2. CASE d = c
    <3>1. challenges[c] \in Challenges /\ challenges[c] # C!Gone
      BY <1>4, <2>2 DEF C!ChallengeExpires, CredentialsTyped, C!Kept
    <3>2. challenges'[c] \in {C!Gone, [challenges[c] EXCEPT !.expired = TRUE]}
      BY <1>4, <2>2 DEF C!ChallengeExpires, CredentialsTyped
    <3>3. /\ [challenges[c] EXCEPT !.expired = TRUE] # C!Unissued
          /\ [challenges[c] EXCEPT !.expired = TRUE].purpose = challenges[c].purpose
      BY <3>1, ExpiredChallenge DEF C!Unissued
    <3>4. C!Gone # C!Unissued
      BY DEF C!Gone, C!Unissued
    <3> QED BY <2>2, <3>1, <3>2, <3>3, <3>4
  <2> QED BY <2>1, <2>2
<1>5. C!Gone # C!Unissued
  BY DEF C!Gone, C!Unissued
<1>6. \/ challenges' = challenges
      \/ \E d \in C!Unused, purpose \in {"login", "register"} : C!Issue(d, purpose)
      \/ \E r \in Request : C!SpendChallenge(r)
      \/ \E d \in Challenge : C!ChallengeExpires(d)
  <2>1. ASSUME NEW r \in Request, \/ C!RegistrationOptions(r) \/ C!Register(r) \/ C!Login(r)
                                  \/ C!Create(r) \/ C!Call(r)
        PROVE  challenges' = challenges
    BY <2>1, BegunAlone
  <2>2. ASSUME NEW r \in Request, \/ C!CountKeys(r) \/ C!TakeChallenge(r) \/ C!InsertKey(r) \/ C!VerifyKey(r)
                                  \/ C!WriteCount(r) \/ C!ReadAccount(r)
        PROVE  challenges' = challenges
    BY <2>2 DEF C!CountKeys, C!TakeChallenge, C!InsertKey, C!VerifyKey, C!WriteCount, C!ReadAccount
  <2>3. ASSUME NEW r \in Request, C!CountTokens(r) \/ C!InsertToken(r) \/ C!ReadToken(r) \/ C!Cut(r)
        PROVE  challenges' = challenges
    BY <2>3 DEF C!CountTokens, C!InsertToken, C!ReadToken, C!Cut
  <2>4. ASSUME NEW r \in Request, C!IssueRegistration(r)
        PROVE  \E d \in C!Unused : C!Issue(d, "register")
    BY <2>4 DEF C!IssueRegistration
  <2>5. ASSUME NEW d \in Challenge, C!LoginOptions(d)
        PROVE  \E e \in C!Unused : C!Issue(e, "login")
    BY <2>5 DEF C!LoginOptions
  <2>6. (\E k \in Key : C!RemoveKey(k)) \/ (\E t \in Token : C!Revoke(t) \/ C!TokenExpires(t))
        \/ (\E state \in {"active", "suspended", "deleted"} : C!SetStatus(state)) \/ UNCHANGED C!vars
          => challenges' = challenges
    BY DEF C!RemoveKey, C!Revoke, C!TokenExpires, C!SetStatus, C!vars
  <2> QED BY <2>1, <2>2, <2>3, <2>4, <2>5, <2>6 DEF C!Next
<1> QED BY <1>1, <1>2, <1>3, <1>4, <1>5, <1>6

LEMMA UsedStep ==
  CredentialsTyped /\ UsedIsGone /\ [C!Next]_C!vars => UsedIsGone'
<1> SUFFICES ASSUME CredentialsTyped, UsedIsGone, [C!Next]_C!vars PROVE UsedIsGone'
  OBVIOUS
<1>1. ASSUME answered' = answered PROVE UsedIsGone'
  <2>1. \A c \in Challenge : challenges'[c] # C!Gone => challenges[c] # C!Gone
    BY ChallengesMoveOn DEF C!Gone, C!Unissued
  <2> QED BY <1>1, <2>1 DEF UsedIsGone
<1>2. ASSUME NEW r \in Request, C!SpendChallenge(r), C!Spent(r) PROVE UsedIsGone'
  <2>1. call[r].challenge \in Challenge /\ challenges[call[r].challenge] # C!Gone
    BY <1>2, Carries DEF C!SpendChallenge, C!Spent, Ceremony
  <2>2. answered[call[r].challenge] = 0
    BY <2>1 DEF UsedIsGone
  <2>3. /\ answered' = [answered EXCEPT ![call[r].challenge] = @ + 1]
        /\ challenges' = [challenges EXCEPT ![call[r].challenge] = C!Gone]
    BY <1>2 DEF C!SpendChallenge
  <2> QED BY <2>1, <2>2, <2>3 DEF UsedIsGone, CredentialsTyped
<1>3. answered' = answered \/ \E r \in Request : C!SpendChallenge(r) /\ C!Spent(r)
  <2>1. ASSUME NEW r \in Request, \/ C!RegistrationOptions(r) \/ C!Register(r) \/ C!Login(r)
                                  \/ C!Create(r) \/ C!Call(r)
        PROVE  answered' = answered
    BY <2>1, BegunAlone
  <2>2. ASSUME NEW r \in Request, \/ C!CountKeys(r) \/ C!IssueRegistration(r) \/ C!TakeChallenge(r) \/ C!InsertKey(r)
                                  \/ C!VerifyKey(r) \/ C!WriteCount(r) \/ C!ReadAccount(r)
        PROVE  answered' = answered
    BY <2>2 DEF C!CountKeys, C!IssueRegistration, C!TakeChallenge, C!InsertKey, C!VerifyKey, C!WriteCount, C!ReadAccount
  <2>3. ASSUME NEW r \in Request, C!CountTokens(r) \/ C!InsertToken(r) \/ C!ReadToken(r) \/ C!Cut(r)
        PROVE  answered' = answered
    BY <2>3 DEF C!CountTokens, C!InsertToken, C!ReadToken, C!Cut
  <2>4. ASSUME NEW r \in Request, C!SpendChallenge(r)
        PROVE  answered' = answered \/ C!Spent(r)
    BY <2>4 DEF C!SpendChallenge
  <2>5. (\E d \in Challenge : C!LoginOptions(d) \/ C!ChallengeExpires(d)) \/ (\E k \in Key : C!RemoveKey(k))
        \/ (\E t \in Token : C!Revoke(t) \/ C!TokenExpires(t))
        \/ (\E state \in {"active", "suspended", "deleted"} : C!SetStatus(state)) \/ UNCHANGED C!vars
          => answered' = answered
    BY DEF C!LoginOptions, C!ChallengeExpires, C!RemoveKey, C!Revoke, C!TokenExpires, C!SetStatus, C!vars
  <2> QED BY <2>1, <2>2, <2>3, <2>4, <2>5 DEF C!Next
<1> QED BY <1>1, <1>2, <1>3

\* A request that neither takes up nor looks at a challenge.
LEMMA NoCeremony ==
  ASSUME CredentialsTyped, SpendsWhatItSaw, [C!Next]_C!vars,
         \A r \in Request : \/ at'[r] \notin {"take", "spend"}
                            \/ at'[r] = at[r] /\ call'[r] = call[r] /\ record'[r] = record[r]
  PROVE  SpendsWhatItSaw'
<1> SUFFICES ASSUME NEW r \in Request, at'[r] \in {"take", "spend"}
             PROVE  /\ challenges'[call'[r].challenge] # C!Unissued
                    /\ at'[r] = "spend" => \/ challenges'[call'[r].challenge] = C!Gone
                                           \/ challenges'[call'[r].challenge].purpose = record'[r].purpose
  BY DEF SpendsWhatItSaw
<1>1. at'[r] = at[r] /\ call'[r] = call[r] /\ record'[r] = record[r]
  OBVIOUS
<1>2. call[r].challenge \in Challenge /\ challenges[call[r].challenge] # C!Unissued
  BY <1>1, Carries DEF Ceremony, SpendsWhatItSaw
<1>3. at[r] = "spend" => \/ challenges[call[r].challenge] = C!Gone
                         \/ challenges[call[r].challenge].purpose = record[r].purpose
  BY DEF SpendsWhatItSaw
<1> QED BY <1>1, <1>2, <1>3, ChallengesMoveOn

LEMMA SpendsStep ==
  CredentialsTyped /\ SpendsWhatItSaw /\ [C!Next]_C!vars => SpendsWhatItSaw'
<1> SUFFICES ASSUME CredentialsTyped, SpendsWhatItSaw, [C!Next]_C!vars PROVE SpendsWhatItSaw'
  OBVIOUS
<1>1. ASSUME \A r \in Request : \/ at'[r] \notin {"take", "spend"}
                                \/ at'[r] = at[r] /\ call'[r] = call[r] /\ record'[r] = record[r]
      PROVE  SpendsWhatItSaw'
  BY <1>1, NoCeremony
<1>2. ASSUME NEW r \in Request, C!Register(r) \/ C!Login(r) PROVE SpendsWhatItSaw'
  <2>1. PICK c \in Challenge :
          C!Kept(c) /\ \E o : o.challenge = c /\ C!Begin(r, o, "take")
    <3>1. CASE C!Register(r)
      <4>1. PICK c \in Challenge, k \in Key, n \in {0, 1} :
              /\ C!Kept(c)
              /\ C!Begin(r, [kind |-> "register", challenge |-> c, key |-> k, count |-> n], "take")
        BY <3>1 DEF C!Register
      <4> QED BY <4>1
    <3>2. CASE C!Login(r)
      <4>1. PICK c \in Challenge, k \in Key, n \in 0 .. MaxCount :
              /\ C!Kept(c)
              /\ C!Begin(r, [kind |-> "login", challenge |-> c, key |-> k, count |-> n], "take")
        BY <3>2 DEF C!Login
      <4> QED BY <4>1
    <3> QED BY <1>2, <3>1, <3>2
  <2>2. PICK o : o.challenge = c /\ C!Begin(r, o, "take")
    BY <2>1
  <2>3. at'[r] = "take" /\ call'[r].challenge = c /\ challenges'[c] # C!Unissued
    BY <2>1, <2>2 DEF C!Begin, C!Goto, CredentialsTyped, C!Kept
  <2>4. ASSUME NEW q \in Request \ {r}
        PROVE  at'[q] = at[q] /\ call'[q] = call[q] /\ challenges' = challenges /\ record' = record
    BY <2>2 DEF C!Begin, C!Goto, CredentialsTyped
  <2> QED BY <2>3, <2>4 DEF SpendsWhatItSaw
<1>3. ASSUME NEW r \in Request, C!TakeChallenge(r), challenges[call[r].challenge] # C!Gone
      PROVE  SpendsWhatItSaw'
  <2>1. /\ at'[r] = "spend" /\ call' = call /\ challenges' = challenges
        /\ record'[r] = challenges[call[r].challenge] /\ challenges[call[r].challenge] # C!Unissued
    BY <1>3 DEF C!TakeChallenge, C!Goto, CredentialsTyped, SpendsWhatItSaw
  <2>2. ASSUME NEW q \in Request \ {r}
        PROVE  at'[q] = at[q] /\ call'[q] = call[q] /\ record'[q] = record[q]
    BY <1>3 DEF C!TakeChallenge, C!Goto, CredentialsTyped
  <2> QED BY <2>1, <2>2 DEF SpendsWhatItSaw
<1> DEFINE Apart == \A r \in Request :
                      \/ at'[r] \notin {"take", "spend"}
                      \/ at'[r] = at[r] /\ call'[r] = call[r] /\ record'[r] = record[r]
<1>4. \/ Apart
      \/ \E r \in Request : \/ C!Register(r) \/ C!Login(r)
                            \/ C!TakeChallenge(r) /\ challenges[call[r].challenge] # C!Gone
  <2> USE DEF CredentialsTyped, C!Goto, C!Begin, C!Leave, C!Close, C!Refuse, C!Accept
  <2>1. ASSUME NEW r \in Request, \/ C!RegistrationOptions(r) \/ C!CountKeys(r) \/ C!IssueRegistration(r)
                                  \/ C!SpendChallenge(r) \/ C!InsertKey(r) \/ C!VerifyKey(r)
                                  \/ C!TakeChallenge(r) /\ challenges[call[r].challenge] = C!Gone
        PROVE  Apart
    <3>1. CASE C!RegistrationOptions(r) \/ C!CountKeys(r)
      BY <3>1 DEF C!RegistrationOptions, C!CountKeys
    <3>2. CASE C!IssueRegistration(r) \/ C!SpendChallenge(r)
      BY <3>2 DEF C!IssueRegistration, C!SpendChallenge
    <3>3. CASE C!InsertKey(r) \/ C!VerifyKey(r)
      BY <3>3 DEF C!InsertKey, C!VerifyKey
    <3>4. CASE C!TakeChallenge(r) /\ challenges[call[r].challenge] = C!Gone
      BY <3>4 DEF C!TakeChallenge
    <3> QED BY <2>1, <3>1, <3>2, <3>3, <3>4
  <2>2. ASSUME NEW r \in Request, \/ C!WriteCount(r) \/ C!ReadAccount(r) \/ C!Create(r) \/ C!CountTokens(r)
                                  \/ C!InsertToken(r) \/ C!Call(r) \/ C!ReadToken(r) \/ C!Cut(r)
        PROVE  Apart
    <3>1. CASE C!WriteCount(r) \/ C!ReadAccount(r)
      BY <3>1 DEF C!WriteCount, C!ReadAccount
    <3>2. CASE C!Create(r) \/ C!CountTokens(r)
      BY <3>2 DEF C!Create, C!CountTokens
    <3>3. CASE C!InsertToken(r)
      BY <3>3 DEF C!InsertToken
    <3>4. CASE C!Call(r)
      BY <3>4 DEF C!Call
    <3>5. CASE C!ReadToken(r) \/ C!Cut(r)
      BY <3>5 DEF C!ReadToken, C!Cut
    <3> QED BY <2>2, <3>1, <3>2, <3>3, <3>4, <3>5
  <2>3. CASE UNCHANGED C!request
    BY <2>3
  <2> QED
    BY <2>1, <2>2, <2>3
       DEF C!Next, C!vars, C!LoginOptions, C!ChallengeExpires, C!RemoveKey, C!Revoke, C!TokenExpires, C!SetStatus
<1> QED BY <1>1, <1>2, <1>3, <1>4
-----------------------------------------------------------------------------
(* Counters.                                                               *)

\* Nothing is verified or written, whatever is removed.
LEMMA CountersKept ==
  ASSUME CredentialsTyped, CountersHold, together \subseteq together',
         count' = count, copied' = copied,
         \A r \in Request : at'[r] = "count" => at[r] = "count" /\ call'[r] = call[r],
         \A k \in Key : passkeys'[k] # C!Unregistered => passkeys'[k] = passkeys[k]
  PROVE  CountersHold'
<1>1. ASSUME NEW k \in Key \ together' PROVE ComparedIsNewest(k)'
  <2>1. ComparedIsNewest(k)
    BY DEF CountersHold
  <2> QED BY <2>1 DEF ComparedIsNewest, AtCount, C!Registered
<1> QED BY <1>1 DEF CountersHold, C!CopiesAreFound

LEMMA CountersStep ==
  CredentialsTyped /\ CountersHold /\ [C!Next]_C!vars => CountersHold'
<1> SUFFICES ASSUME CredentialsTyped, CountersHold, [C!Next]_C!vars PROVE CountersHold'
  OBVIOUS
<1>1. ASSUME NEW r \in Request, C!InsertKey(r), call[r].key \notin C!Registered PROVE CountersHold'
  <2>0. PICK k \in Key : k = call[r].key
    BY <1>1, Carries DEF C!InsertKey, Ceremony
  <2>1. /\ k = call[r].key /\ at[r] = "insert_key"
        /\ passkeys' = [passkeys EXCEPT ![k] = call[r].count]
        /\ count' = [count EXCEPT ![k] = call[r].count]
        /\ together' = together \cup {x \in {k} : C!SigningIn(k)} /\ copied' = copied
    BY <1>1, <2>0 DEF C!InsertKey
  <2>2. \A q \in Request : at'[q] = "count" => at[q] = "count" /\ call'[q] = call[q]
    BY <1>1 DEF C!InsertKey, C!Leave, C!Goto, CredentialsTyped
  <2>3. ASSUME NEW j \in Key \ together' PROVE ComparedIsNewest(j)'
    <3>1. ComparedIsNewest(j)
      BY <2>1, <2>3 DEF CountersHold
    <3>2. CASE j = k
      BY <2>1, <2>2, <2>3, <3>2 DEF ComparedIsNewest, AtCount, C!SigningIn, CredentialsTyped
    <3>3. CASE j # k
      BY <2>1, <2>2, <3>1, <3>3 DEF ComparedIsNewest, AtCount, C!Registered, CredentialsTyped
    <3> QED BY <3>2, <3>3
  <2> QED BY <2>1, <2>3 DEF CountersHold, C!CopiesAreFound
<1>2. ASSUME NEW r \in Request, C!VerifyKey(r), call[r].key \in C!Registered,
             C!Newer(call[r].count, passkeys[call[r].key])
      PROVE  CountersHold'
  <2>0. PICK k \in Key : k = call[r].key
    BY <1>2, Carries DEF C!VerifyKey, Ceremony
  <2>1. /\ k = call[r].key /\ at[r] = "key" /\ call' = call /\ at' = [at EXCEPT ![r] = "count"]
        /\ together' = together \cup {x \in {k} : C!SigningIn(k)} /\ copied' = copied
        /\ passkeys' = passkeys /\ count' = count
    BY <1>2, <2>0 DEF C!VerifyKey, C!Goto
  <2>2. ASSUME NEW j \in Key \ together' PROVE ComparedIsNewest(j)'
    <3>1. ComparedIsNewest(j)
      BY <2>1, <2>2 DEF CountersHold
    <3>2. CASE j = k
      <4>1. \A q \in Request : ~AtCount(q, k)
        BY <2>1, <2>2, <3>2 DEF C!SigningIn, AtCount
      <4>2. passkeys[k] = count[k]
        BY <1>2, <2>1, <3>1, <3>2 DEF ComparedIsNewest
      <4>3. \A q \in Request : AtCount(q, k)' <=> q = r
        BY <2>1, <4>1 DEF AtCount, CredentialsTyped
      <4> QED BY <1>2, <2>1, <3>2, <4>2, <4>3 DEF ComparedIsNewest, C!Registered
    <3>3. CASE j # k
      <4>1. \A q \in Request : AtCount(q, j)' <=> AtCount(q, j)
        BY <2>1, <3>3 DEF AtCount, CredentialsTyped
      <4> QED BY <2>1, <3>1, <4>1 DEF ComparedIsNewest, C!Registered
    <3> QED BY <3>2, <3>3
  <2> QED BY <2>1, <2>2 DEF CountersHold, C!CopiesAreFound
<1>3. ASSUME NEW r \in Request, C!WriteCount(r) PROVE CountersHold'
  <2>0. PICK k \in Key, n \in Nat : k = call[r].key /\ n = call[r].count
    BY <1>3, Carries DEF C!WriteCount, Ceremony
  <2>1. /\ k = call[r].key /\ n = call[r].count /\ at[r] = "count" /\ call' = call /\ at' = [at EXCEPT ![r] = "account"]
        /\ passkeys' = [passkeys EXCEPT ![k] = IF @ = C!Unregistered THEN @ ELSE n]
        /\ count' = [count EXCEPT ![k] = IF n > @ THEN n ELSE @]
        /\ copied' = copied \cup {x \in {k} : n > 0 /\ n <= count[k]} /\ together' = together
    BY <1>3, <2>0 DEF C!WriteCount, C!Goto, C!Counted
  <2>2. k \notin together => C!Newer(n, count[k]) /\ \A q \in Request : AtCount(q, k) => q = r
    BY <2>1 DEF CountersHold, ComparedIsNewest, AtCount
  <2>3. count[k] \in Nat
    BY <2>1 DEF CredentialsTyped
  <2>4. k \notin together => count'[k] = n /\ copied' = copied
    BY <2>1, <2>2, <2>3 DEF C!Newer, CredentialsTyped
  <2>5. ASSUME NEW j \in Key \ together' PROVE ComparedIsNewest(j)'
    <3>1. ComparedIsNewest(j)
      BY <2>1, <2>5 DEF CountersHold
    <3>2. CASE j = k
      <4>1. \A q \in Request : ~AtCount(q, k)'
        BY <2>1, <2>2, <2>5, <3>2 DEF AtCount, CredentialsTyped
      <4>2. k \in C!Registered' => passkeys'[k] = count'[k]
        BY <2>1, <2>4, <2>5, <3>2 DEF C!Registered, CredentialsTyped
      <4> QED BY <3>2, <4>1, <4>2 DEF ComparedIsNewest
    <3>3. CASE j # k
      <4>1. \A q \in Request : AtCount(q, j)' => AtCount(q, j)
        BY <2>1 DEF AtCount, CredentialsTyped
      <4>2. passkeys'[j] = passkeys[j] /\ count'[j] = count[j]
        BY <2>1, <3>3 DEF CredentialsTyped
      <4> QED BY <2>1, <3>1, <4>1, <4>2 DEF ComparedIsNewest, C!Registered
    <3> QED BY <3>2, <3>3
  <2>6. copied' \subseteq together'
    BY <2>1, <2>4 DEF CountersHold, C!CopiesAreFound
  <2> QED BY <2>5, <2>6 DEF CountersHold, C!CopiesAreFound
<1> DEFINE Apart == /\ together \subseteq together' /\ count' = count /\ copied' = copied
                    /\ \A r \in Request : at'[r] = "count" => at[r] = "count" /\ call'[r] = call[r]
                    /\ \A k \in Key : passkeys'[k] # C!Unregistered => passkeys'[k] = passkeys[k]
<1>4. \/ Apart
      \/ \E r \in Request :
           \/ C!InsertKey(r) /\ call[r].key \notin C!Registered
           \/ C!VerifyKey(r) /\ call[r].key \in C!Registered /\ C!Newer(call[r].count, passkeys[call[r].key])
           \/ C!WriteCount(r)
  <2> USE DEF CredentialsTyped, C!Goto, C!Begin, C!Leave, C!Close, C!Refuse, C!Accept
  <2>1. ASSUME NEW r \in Request, \/ C!RegistrationOptions(r) \/ C!CountKeys(r) \/ C!IssueRegistration(r)
                                  \/ C!TakeChallenge(r) \/ C!SpendChallenge(r) \/ C!Register(r) \/ C!Login(r)
        PROVE  Apart
    <3>1. CASE C!RegistrationOptions(r) \/ C!CountKeys(r)
      BY <3>1 DEF C!RegistrationOptions, C!CountKeys
    <3>2. CASE C!IssueRegistration(r) \/ C!TakeChallenge(r)
      BY <3>2 DEF C!IssueRegistration, C!TakeChallenge, C!Issue
    <3>3. CASE C!SpendChallenge(r)
      BY <3>3 DEF C!SpendChallenge
    <3>4. CASE C!Register(r)
      BY <3>4 DEF C!Register
    <3>5. CASE C!Login(r)
      BY <3>5 DEF C!Login
    <3> QED BY <2>1, <3>1, <3>2, <3>3, <3>4, <3>5
  <2>2. ASSUME NEW r \in Request, \/ C!ReadAccount(r) \/ C!Create(r) \/ C!CountTokens(r)
                                  \/ C!InsertToken(r) \/ C!Call(r) \/ C!ReadToken(r) \/ C!Cut(r)
        PROVE  Apart
    <3>1. CASE C!ReadAccount(r) \/ C!Create(r) \/ C!CountTokens(r)
      BY <3>1 DEF C!ReadAccount, C!Create, C!CountTokens
    <3>2. CASE C!InsertToken(r) \/ C!Call(r)
      BY <3>2 DEF C!InsertToken, C!Call
    <3>3. CASE C!ReadToken(r) \/ C!Cut(r)
      BY <3>3 DEF C!ReadToken, C!Cut
    <3> QED BY <2>2, <3>1, <3>2, <3>3
  <2>3. ASSUME NEW r \in Request,
               \/ C!InsertKey(r) /\ call[r].key \in C!Registered
               \/ /\ C!VerifyKey(r)
                  /\ ~(call[r].key \in C!Registered /\ C!Newer(call[r].count, passkeys[call[r].key]))
        PROVE  Apart
    BY <2>3 DEF C!InsertKey, C!VerifyKey
  <2>4. ASSUME NEW k \in Key, C!RemoveKey(k) PROVE Apart
    BY <2>4 DEF C!RemoveKey
  <2>5. CASE UNCHANGED <<passkeys, C!request, C!counters>>
    BY <2>5
  <2> QED
    BY <2>1, <2>2, <2>3, <2>4, <2>5
       DEF C!Next, C!vars, C!LoginOptions, C!ChallengeExpires, C!Revoke, C!TokenExpires, C!SetStatus, C!Issue
<1> HIDE DEF Apart
<1>5. ASSUME Apart PROVE CountersHold'
  BY <1>5, CountersKept DEF Apart
<1> QED BY <1>1, <1>2, <1>3, <1>4, <1>5
-----------------------------------------------------------------------------
(* Limits.                                                                 *)

LEMMA FewerStay ==
  ASSUME NEW S, NEW T \in SUBSET S, IsFiniteSet(S)
  PROVE  /\ IsFiniteSet(T) /\ Cardinality(S) \in Nat /\ Cardinality(T) \in Nat
         /\ Cardinality(T) <= Cardinality(S)
BY FS_Subset, FS_CardinalityType

LEMMA OneMoreFits ==
  ASSUME NEW S, NEW T, IsFiniteSet(S), NEW x, T \subseteq S \cup {x}, NEW limit \in Nat,
         Cardinality(S) < limit
  PROVE  Cardinality(T) <= limit
<1>1. /\ IsFiniteSet(S \cup {x}) /\ Cardinality(S) \in Nat
      /\ Cardinality(S \cup {x}) = (IF x \in S THEN Cardinality(S) ELSE Cardinality(S) + 1)
  BY FS_AddElement, FS_CardinalityType
<1>2. Cardinality(T) <= Cardinality(S \cup {x}) /\ Cardinality(T) \in Nat
  BY <1>1, FewerStay
<1> QED BY <1>1, <1>2

\* Nobody gets a ticket, and no key comes.
LEMMA NoMoreKeys ==
  ASSUME C!CredentialsAssumption, RoomForKeys,
         Tickets' \subseteq Tickets, C!Registered' \subseteq C!Registered, crowded \subseteq crowded'
  PROVE  RoomForKeys'
<1>1. IsFiniteSet(C!Registered)
  BY FS_Subset, SameFinite DEF C!CredentialsAssumption, C!Registered
<1>2. /\ Cardinality(C!Registered) \in Nat /\ Cardinality(C!Registered') \in Nat
      /\ Cardinality(C!Registered') <= Cardinality(C!Registered)
  BY <1>1, FewerStay
<1>3. Cardinality(C!Registered)' = Cardinality(C!Registered')
  OBVIOUS
<1> QED BY <1>2, <1>3 DEF RoomForKeys, C!CredentialsAssumption

\* A ticket takes the place of the only one there is.
LEMMA TicketPassesOn ==
  ASSUME RoomForKeys, NEW s \in Tickets, NEW t, Tickets' \subseteq (Tickets \ {s}) \cup {t},
         passkeys' = passkeys, crowded' = crowded
  PROVE  RoomForKeys'
<1>1. C!Registered' = C!Registered
  BY DEF C!Registered
<1>2. Cardinality(C!Registered)' = Cardinality(C!Registered)
  BY <1>1
<1> QED BY <1>2 DEF RoomForKeys

LEMMA TicketKinds ==
  /\ \A r \in Request : <<"request", r>> \in Tickets <=> at[r] \in {"issue", "insert_key"}
  /\ \A c \in Challenge : <<"challenge", c>> \in Tickets <=> challenges[c] = OpenChallenge
  /\ \A t \in Tickets : \/ \E r \in Request : t = <<"request", r>>
                        \/ \E c \in Challenge : t = <<"challenge", c>>
BY DEF Tickets

\* The tickets there are after a step, from those there were.
LEMMA TicketsAfter ==
  ASSUME NEW new,
         \A r \in Request : at'[r] \in {"issue", "insert_key"} =>
                              at[r] \in {"issue", "insert_key"} \/ <<"request", r>> \in new,
         \A c \in Challenge : challenges'[c] = OpenChallenge =>
                                challenges[c] = OpenChallenge \/ <<"challenge", c>> \in new
  PROVE  Tickets' \subseteq Tickets \cup new
BY DEF Tickets, OpenChallenge

LEMMA RoomForKeysStep ==
  ASSUME C!CredentialsAssumption, CredentialsInv, [C!Next]_C!vars
  PROVE  RoomForKeys'
<1>1. CredentialsTyped /\ SpendsWhatItSaw /\ RoomForKeys
  BY DEF CredentialsInv
<1>2. ASSUME NEW r \in Request, C!CountKeys(r), C!Room(C!Registered, MaxPasskeys) PROVE RoomForKeys'
  <2>1. /\ at[r] = "count_keys" /\ at' = [at EXCEPT ![r] = "issue"]
        /\ UNCHANGED <<challenges, passkeys, call>>
        /\ crowded' = crowded \cup {x \in {"passkeys"} : C!OtherCeremonies(r)}
        /\ Cardinality(C!Registered) < MaxPasskeys
    BY <1>2, SameCount DEF C!CountKeys, C!Room, C!Goto
  <2>2. C!Registered' = C!Registered
    BY <2>1 DEF C!Registered
  <2>3. Tickets' \subseteq Tickets \cup {<<"request", r>>}
    BY <1>1, <2>1, TicketsAfter DEF CredentialsTyped
  <2>4. CASE C!OtherCeremonies(r)
    BY <2>1, <2>4 DEF RoomForKeys
  <2>5. CASE ~C!OtherCeremonies(r)
    <3>1. \A c \in Challenge : challenges[c] # OpenChallenge
      BY <2>5 DEF C!OtherCeremonies, OpenChallenge
    <3>2. \A q \in Request \ {r} : at[q] \notin {"issue", "insert_key"}
      BY <1>1, <2>5, Carries DEF C!OtherCeremonies, Options, Ceremony
    <3>3. Tickets = {}
      BY <2>1, <3>1, <3>2, TicketKinds
    <3> QED BY <1>1, <2>1, <2>2, <2>3, <3>3 DEF RoomForKeys, C!CredentialsAssumption
  <2> QED BY <2>4, <2>5
<1>3. ASSUME NEW r \in Request, C!IssueRegistration(r) PROVE RoomForKeys'
  <2>1. PICK c \in C!Unused : C!Issue(c, "register")
    BY <1>3 DEF C!IssueRegistration
  <2>2. /\ at[r] = "issue" /\ at' = [at EXCEPT ![r] = "idle"]
        /\ challenges' = [challenges EXCEPT ![c] = OpenChallenge]
        /\ UNCHANGED <<passkeys, crowded>> /\ c \in Challenge
    BY <1>3, <2>1 DEF C!IssueRegistration, C!Issue, C!Refuse, C!Close, C!Leave, C!Goto, OpenChallenge, C!Unused
  <2>3. Tickets' \subseteq Tickets \cup {<<"challenge", c>>}
    BY <1>1, <2>2, TicketsAfter DEF CredentialsTyped
  <2>4. <<"request", r>> \notin Tickets' /\ <<"request", r>> \in Tickets
    BY <1>1, <2>2 DEF Tickets, CredentialsTyped
  <2>5. Tickets' \subseteq (Tickets \ {<<"request", r>>}) \cup {<<"challenge", c>>}
    BY <2>3, <2>4
  <2> QED BY <1>1, <2>2, <2>4, <2>5, TicketPassesOn
<1>4. ASSUME NEW r \in Request, C!SpendChallenge(r), C!Spent(r), call[r].kind # "login"
      PROVE  RoomForKeys'
  <2>1. PICK c \in Challenge : c = call[r].challenge
    BY <1>1, <1>4, Carries DEF C!SpendChallenge, Ceremony
  <2>2. /\ at[r] = "spend" /\ at' = [at EXCEPT ![r] = "insert_key"]
        /\ challenges' = [challenges EXCEPT ![c] = C!Gone]
        /\ UNCHANGED <<passkeys, crowded>>
    BY <1>4, <2>1 DEF C!SpendChallenge, C!Goto
  <2>3. challenges[c] = OpenChallenge
    <3>1. challenges[c] \in Challenges /\ ~challenges[c].expired
      BY <1>1, <1>4, <2>1 DEF C!Spent, CredentialsTyped
    <3>2. challenges[c].purpose = "register"
      <4>1. call[r].kind = "register"
        BY <1>1, <1>4, <2>2, Carries DEF Ceremony
      <4> QED BY <1>1, <1>4, <2>1, <2>2, <4>1 DEF C!Spent, C!Fits, SpendsWhatItSaw
    <3> QED BY <3>1, <3>2 DEF Challenges, OpenChallenge
  <2>4. Tickets' \subseteq Tickets \cup {<<"request", r>>}
    BY <1>1, <2>2, TicketsAfter DEF CredentialsTyped, C!Gone, OpenChallenge
  <2>5. <<"challenge", c>> \notin Tickets' /\ <<"challenge", c>> \in Tickets
    BY <1>1, <2>2, <2>3 DEF Tickets, CredentialsTyped, C!Gone, OpenChallenge
  <2>6. Tickets' \subseteq (Tickets \ {<<"challenge", c>>}) \cup {<<"request", r>>}
    BY <2>4, <2>5
  <2> QED BY <1>1, <2>2, <2>5, <2>6, TicketPassesOn
<1>5. ASSUME NEW r \in Request, C!InsertKey(r), call[r].key \notin C!Registered PROVE RoomForKeys'
  <2>1. PICK k \in Key : k = call[r].key
    BY <1>1, <1>5, Carries DEF C!InsertKey, Ceremony
  <2>2. /\ at[r] = "insert_key" /\ at' = [at EXCEPT ![r] = "idle"]
        /\ passkeys' = [passkeys EXCEPT ![k] = call[r].count] /\ UNCHANGED <<challenges, crowded>>
    BY <1>5, <2>1 DEF C!InsertKey, C!Leave, C!Goto
  <2>3. C!Registered' \subseteq C!Registered \cup {k}
    BY <1>1, <2>2 DEF C!Registered, CredentialsTyped
  <2>4. Tickets' \subseteq Tickets \cup {}
    BY <1>1, <2>2, TicketsAfter DEF CredentialsTyped
  <2>5. <<"request", r>> \notin Tickets' /\ <<"request", r>> \in Tickets
    BY <1>1, <2>2 DEF Tickets, CredentialsTyped
  <2>6. ASSUME "passkeys" \notin crowded' PROVE Tickets' = {} /\ Cardinality(C!Registered') <= MaxPasskeys
    <3>1. Cardinality(C!Registered) < MaxPasskeys /\ \A s, t \in Tickets : s = t
      BY <1>1, <2>2, <2>5, <2>6 DEF RoomForKeys
    <3>2. IsFiniteSet(C!Registered)
      BY FS_Subset, SameFinite DEF C!CredentialsAssumption, C!Registered
    <3> QED BY <2>3, <2>4, <2>5, <3>1, <3>2, OneMoreFits DEF C!CredentialsAssumption
  <2>7. Cardinality(C!Registered)' = Cardinality(C!Registered')
    OBVIOUS
  <2> QED BY <2>6, <2>7 DEF RoomForKeys
<1> DEFINE Apart == /\ Tickets' \subseteq Tickets /\ C!Registered' \subseteq C!Registered
                    /\ crowded \subseteq crowded'
<1>6. \/ Apart
      \/ \E r \in Request :
           \/ C!CountKeys(r) /\ C!Room(C!Registered, MaxPasskeys)
           \/ C!IssueRegistration(r)
           \/ C!SpendChallenge(r) /\ C!Spent(r) /\ call[r].kind # "login"
           \/ C!InsertKey(r) /\ call[r].key \notin C!Registered
  <2> DEFINE Same == UNCHANGED <<challenges, passkeys>> /\ crowded \subseteq crowded'
             NoTicket(r) == at'[r] \notin {"issue", "insert_key"}
                            /\ \A q \in Request \ {r} : at'[q] = at[q]
  <2>1. ASSUME NEW r \in Request, Same, NoTicket(r) PROVE Apart
    <3>1. Tickets' \subseteq Tickets \cup {}
      BY <2>1, TicketsAfter
    <3> QED BY <2>1, <3>1 DEF C!Registered
  <2> USE DEF C!Goto, C!Begin, C!Leave, C!Close, C!Refuse, C!Accept
  <2>2. ASSUME NEW r \in Request, \/ C!RegistrationOptions(r) \/ C!TakeChallenge(r) \/ C!Register(r)
                                  \/ C!Login(r) \/ C!VerifyKey(r) \/ C!ReadAccount(r) \/ C!Create(r)
        PROVE  Apart
    <3>1. Same /\ NoTicket(r)
      <4>1. CASE C!RegistrationOptions(r) \/ C!Create(r)
        BY <1>1, <4>1 DEF C!RegistrationOptions, C!Create, CredentialsTyped
      <4>2. CASE C!Register(r)
        BY <1>1, <4>2 DEF C!Register, CredentialsTyped
      <4>3. CASE C!Login(r)
        BY <1>1, <4>3 DEF C!Login, CredentialsTyped
      <4>4. CASE C!TakeChallenge(r) \/ C!VerifyKey(r) \/ C!ReadAccount(r)
        BY <1>1, <4>4 DEF C!TakeChallenge, C!VerifyKey, C!ReadAccount, CredentialsTyped
      <4> QED BY <2>2, <4>1, <4>2, <4>3, <4>4
    <3> QED BY <2>1, <3>1
  <2>3. ASSUME NEW r \in Request, \/ C!CountTokens(r) \/ C!InsertToken(r) \/ C!Call(r) \/ C!ReadToken(r) \/ C!Cut(r)
        PROVE  Apart
    <3>1. Same /\ NoTicket(r)
      BY <1>1, <2>3 DEF C!CountTokens, C!InsertToken, C!Call, C!ReadToken, C!Cut, CredentialsTyped
    <3> QED BY <2>1, <3>1
  <2>4. ASSUME NEW r \in Request, \/ C!CountKeys(r) /\ ~C!Room(C!Registered, MaxPasskeys)
                                  \/ C!InsertKey(r) /\ call[r].key \in C!Registered
        PROVE  Apart
    <3>1. Same /\ NoTicket(r)
      BY <1>1, <2>4 DEF C!CountKeys, C!InsertKey, CredentialsTyped
    <3> QED BY <2>1, <3>1
  <2>5. ASSUME NEW r \in Request, C!SpendChallenge(r), ~(C!Spent(r) /\ call[r].kind # "login") PROVE Apart
    <3>1. /\ NoTicket(r) /\ UNCHANGED <<passkeys, crowded>>
          /\ challenges' = [challenges EXCEPT ![call[r].challenge] = C!Gone]
      BY <1>1, <2>5 DEF C!SpendChallenge, CredentialsTyped
    <3>2. Tickets' \subseteq Tickets \cup {}
      BY <1>1, <3>1, TicketsAfter DEF CredentialsTyped, C!Gone, OpenChallenge
    <3> QED BY <3>1, <3>2 DEF C!Registered
  <2>6. ASSUME NEW r \in Request, C!WriteCount(r) PROVE Apart
    <3>1. /\ NoTicket(r) /\ UNCHANGED <<challenges, crowded>> /\ call[r].key \in Key
          /\ passkeys' = [passkeys EXCEPT ![call[r].key] = IF @ = C!Unregistered THEN @ ELSE call[r].count]
      BY <1>1, <2>6, Carries DEF C!WriteCount, C!Counted, CredentialsTyped, Ceremony
    <3>2. Tickets' \subseteq Tickets \cup {}
      BY <3>1, TicketsAfter
    <3>3. C!Registered' \subseteq C!Registered
      BY <1>1, <3>1 DEF C!Registered, CredentialsTyped
    <3> QED BY <3>1, <3>2, <3>3
  <2>7. ASSUME NEW c \in Challenge, C!LoginOptions(c) \/ C!ChallengeExpires(c) PROVE Apart
    <3>1. ASSUME NEW d \in Challenge, challenges'[d] = OpenChallenge
          PROVE  challenges[d] = OpenChallenge
      <4>1. CASE C!LoginOptions(c)
        BY <1>1, <3>1, <4>1 DEF C!LoginOptions, C!Issue, CredentialsTyped, OpenChallenge
      <4>2. CASE C!ChallengeExpires(c)
        <5>1. challenges[c] \in Challenges
          BY <1>1 DEF CredentialsTyped
        <5>2. d = c => challenges'[d] \in {C!Gone, [challenges[c] EXCEPT !.expired = TRUE]}
          BY <1>1, <4>2 DEF C!ChallengeExpires, CredentialsTyped
        <5>3. [challenges[c] EXCEPT !.expired = TRUE] # OpenChallenge /\ C!Gone # OpenChallenge
          BY <5>1, ExpiredChallenge DEF OpenChallenge, C!Gone
        <5>4. d # c
          BY <3>1, <5>2, <5>3
        <5> QED BY <1>1, <3>1, <4>2, <5>4 DEF C!ChallengeExpires, CredentialsTyped
      <4> QED BY <2>7, <4>1, <4>2
    <3>2. Tickets' \subseteq Tickets \cup {}
      BY <2>7, <3>1, TicketsAfter DEF C!LoginOptions, C!ChallengeExpires
    <3> QED BY <2>7, <3>2 DEF C!LoginOptions, C!ChallengeExpires, C!Issue, C!Registered
  <2>8. ASSUME NEW k \in Key, C!RemoveKey(k) PROVE Apart
    <3>1. Tickets' \subseteq Tickets \cup {}
      BY <2>8, TicketsAfter DEF C!RemoveKey
    <3> QED BY <1>1, <2>8, <3>1 DEF C!RemoveKey, C!Registered, CredentialsTyped
  <2>9. CASE UNCHANGED <<challenges, passkeys, at, crowded>>
    BY <2>9 DEF Tickets, C!Registered
  <2> QED
    BY <2>2, <2>3, <2>4, <2>5, <2>6, <2>7, <2>8, <2>9
       DEF C!Next, C!vars, C!Revoke, C!TokenExpires, C!SetStatus
<1>7. ASSUME Apart PROVE RoomForKeys'
  BY <1>1, <1>7, NoMoreKeys
<1> HIDE DEF Apart
<1> QED BY <1>2, <1>3, <1>4, <1>5, <1>6, <1>7
LEMMA RoomForTokensStep ==
  ASSUME C!CredentialsAssumption, CredentialsTyped, RoomForTokens, [C!Next]_C!vars
  PROVE  RoomForTokens'
<1>1. IsFiniteSet(C!Stored)
  BY FS_Subset, SameFinite DEF C!CredentialsAssumption, C!Stored
<1>2. ASSUME Inserting' \subseteq Inserting, C!Stored' \subseteq C!Stored, crowded \subseteq crowded'
      PROVE  RoomForTokens'
  <2>1. /\ Cardinality(C!Stored) \in Nat /\ Cardinality(C!Stored') \in Nat
        /\ Cardinality(C!Stored') <= Cardinality(C!Stored)
    BY <1>1, <1>2, FewerStay
  <2>2. Cardinality(C!Stored)' = Cardinality(C!Stored')
    OBVIOUS
  <2> QED BY <1>2, <2>1, <2>2 DEF RoomForTokens, C!CredentialsAssumption
<1>3. ASSUME NEW r \in Request, C!CountTokens(r), C!Room(C!Stored, PerUser) PROVE RoomForTokens'
  <2>1. /\ at' = [at EXCEPT ![r] = "insert_token"] /\ tokens' = tokens
        /\ crowded' = crowded \cup {x \in {"tokens"} : \E q \in Request : at[q] = "insert_token"}
        /\ Cardinality(C!Stored) < PerUser
    BY <1>3, SameCount DEF C!CountTokens, C!Room, C!Goto
  <2>2. C!Stored' = C!Stored
    BY <2>1 DEF C!Stored
  <2>3. CASE Inserting = {}
    <3>1. Inserting' = {r}
      BY <2>1, <2>3 DEF Inserting, CredentialsTyped
    <3> QED BY <1>1, <2>1, <2>2, <3>1, FS_CardinalityType DEF RoomForTokens, C!CredentialsAssumption
  <2>4. CASE Inserting # {}
    BY <2>1, <2>4 DEF RoomForTokens, Inserting
  <2> QED BY <2>3, <2>4
<1>4. ASSUME NEW r \in Request, C!InsertToken(r) PROVE RoomForTokens'
  <2>1. PICK t \in Token : tokens' = [tokens EXCEPT ![t] = "live"]
    BY <1>4 DEF C!InsertToken
  <2>2. /\ at[r] = "insert_token" /\ at' = [at EXCEPT ![r] = "idle"] /\ crowded' = crowded
    BY <1>4 DEF C!InsertToken, C!Leave, C!Goto
  <2>3. C!Stored' \subseteq C!Stored \cup {t}
    BY <2>1 DEF C!Stored, CredentialsTyped
  <2>4. r \in Inserting /\ Inserting' = Inserting \ {r}
    BY <2>2 DEF Inserting, CredentialsTyped
  <2>5. ASSUME "tokens" \notin crowded' PROVE Inserting' = {} /\ Cardinality(C!Stored') <= PerUser
    <3>1. Cardinality(C!Stored) < PerUser /\ \A q \in Inserting : q = r
      BY <2>2, <2>4, <2>5 DEF RoomForTokens
    <3> QED BY <1>1, <2>3, <2>4, <3>1, OneMoreFits DEF C!CredentialsAssumption
  <2>6. Cardinality(C!Stored)' = Cardinality(C!Stored')
    OBVIOUS
  <2> QED BY <2>5, <2>6 DEF RoomForTokens
<1> DEFINE Apart == Inserting' \subseteq Inserting /\ C!Stored' \subseteq C!Stored /\ crowded \subseteq crowded'
<1>5. \/ Apart
      \/ \E r \in Request : (C!CountTokens(r) /\ C!Room(C!Stored, PerUser)) \/ C!InsertToken(r)
  <2> USE DEF C!Goto, C!Begin, C!Leave, C!Close, C!Refuse, C!Accept, Inserting, C!Stored, CredentialsTyped
  <2>1. ASSUME NEW r \in Request, \/ C!RegistrationOptions(r) \/ C!CountKeys(r) \/ C!IssueRegistration(r)
                                  \/ C!TakeChallenge(r) \/ C!SpendChallenge(r) \/ C!Register(r) \/ C!Login(r)
        PROVE  Apart
    <3>1. CASE C!RegistrationOptions(r) \/ C!CountKeys(r)
      BY <3>1 DEF C!RegistrationOptions, C!CountKeys
    <3>2. CASE C!IssueRegistration(r) \/ C!TakeChallenge(r)
      BY <3>2 DEF C!IssueRegistration, C!TakeChallenge, C!Issue
    <3>3. CASE C!SpendChallenge(r)
      BY <3>3 DEF C!SpendChallenge
    <3>4. CASE C!Register(r) \/ C!Login(r)
      BY <3>4 DEF C!Register, C!Login
    <3> QED BY <2>1, <3>1, <3>2, <3>3, <3>4
  <2>2. ASSUME NEW r \in Request, \/ C!InsertKey(r) \/ C!VerifyKey(r) \/ C!WriteCount(r) \/ C!ReadAccount(r)
                                  \/ C!Create(r) \/ C!Call(r) \/ C!ReadToken(r) \/ C!Cut(r)
                                  \/ C!CountTokens(r) /\ ~C!Room(C!Stored, PerUser)
        PROVE  Apart
    <3>1. CASE C!InsertKey(r) \/ C!VerifyKey(r)
      BY <3>1 DEF C!InsertKey, C!VerifyKey
    <3>2. CASE C!WriteCount(r) \/ C!ReadAccount(r)
      BY <3>2 DEF C!WriteCount, C!ReadAccount
    <3>3. CASE C!Create(r) \/ C!Call(r)
      BY <3>3 DEF C!Create, C!Call
    <3>4. CASE C!ReadToken(r) \/ C!Cut(r)
      BY <3>4 DEF C!ReadToken, C!Cut
    <3>5. CASE C!CountTokens(r) /\ ~C!Room(C!Stored, PerUser)
      BY <3>5 DEF C!CountTokens
    <3> QED BY <2>2, <3>1, <3>2, <3>3, <3>4, <3>5
  <2>3. ASSUME NEW t \in Token, C!Revoke(t) \/ C!TokenExpires(t) PROVE Apart
    BY <2>3 DEF C!Revoke, C!TokenExpires
  <2>4. CASE UNCHANGED <<tokens, at, crowded>>
    BY <2>4
  <2> QED
    BY <2>1, <2>2, <2>3, <2>4
       DEF C!Next, C!vars, C!LoginOptions, C!ChallengeExpires, C!RemoveKey, C!SetStatus, C!Issue
<1>6. ASSUME Apart PROVE RoomForTokens'
  BY <1>2, <1>6
<1> HIDE DEF Apart
<1> QED BY <1>3, <1>4, <1>5, <1>6

-----------------------------------------------------------------------------
(* What is removed is refused.                                             *)

LEMMA Relies ==
  ASSUME NEW o \in Operations
  PROVE  /\ o.kind = "login" => C!ReliesOn(o) = {<<"key", o.key>>, <<"account">>}
         /\ o.kind = "call" => C!ReliesOn(o) = {<<"token", o.token>>, <<"account">>}
BY DEF C!ReliesOn

LEMMA WhatIsThere ==
  /\ \A k \in Key : k \in C!Registered => <<"key", k>> \in C!There
  /\ \A t \in Token : tokens[t] = "live" => <<"token", t>> \in C!There
  /\ status = "active" => <<"account">> \in C!There
BY DEF C!There

\* What one request comes to know.
KnownTo(r) ==
  /\ C!ReliesOn(call[r]) \cap C!There \subseteq valid[r]
  /\ at[r] \in {"count", "account"} /\ call[r].kind = "login" => <<"key", call[r].key>> \in valid[r]
  /\ at[r] = "account" /\ call[r].kind = "call" => <<"token", call[r].token>> \in valid[r]

LEMMA IdleKnows == ASSUME NEW r \in Request, at[r] = "idle", call[r] = C!NoOp PROVE KnownTo(r)
BY NoOpIsNone DEF KnownTo, Operations

\* Nothing new is there, for those that have not moved.
LEMMA SameKnown ==
  ASSUME NEW r \in Request, KnownTo(r), at'[r] = at[r], call'[r] = call[r], valid[r] \subseteq valid'[r],
         C!There' \subseteq C!There \/ C!ReliesOn(call'[r]) \cap C!There' \subseteq valid'[r]
  PROVE  KnownTo(r)'
BY DEF KnownTo

LEMMA FoundStep ==
  ASSUME CredentialsTyped, FoundIsKnown, [C!Next]_C!vars
  PROVE  FoundIsKnown'
<1>0. \A r \in Request : KnownTo(r)
  BY DEF FoundIsKnown, KnownTo
<1> SUFFICES ASSUME NEW r \in Request PROVE KnownTo(r)'
  BY DEF FoundIsKnown, KnownTo
<1> DEFINE Stays == /\ at'[r] = at[r] /\ call'[r] = call[r] /\ valid[r] \subseteq valid'[r]
           Ends == at'[r] = "idle" /\ call'[r] = C!NoOp
<1>1. ASSUME Ends PROVE KnownTo(r)'
  <2>1. C!ReliesOn(call'[r]) = {} /\ call'[r].kind = "none"
    BY <1>1 DEF C!NoOp, C!ReliesOn
  <2> QED BY <1>1, <2>1 DEF KnownTo
<1>2. ASSUME Stays, C!There' \subseteq C!There PROVE KnownTo(r)'
  BY <1>0, <1>2, SameKnown
<1>3. ASSUME UNCHANGED <<status, passkeys, tokens>> PROVE C!There' = C!There
  BY <1>3 DEF C!There, C!Registered
\* A step of any request within the store as it is, this one's or not.
<1>4. ASSUME NEW q \in Request, NEW o, NEW label \in CredentialSteps \ {"count", "account"},
             C!Begin(q, o, label)
      PROVE  KnownTo(r)'
  <2>1. C!There' = C!There
    BY <1>3, <1>4 DEF C!Begin
  <2>2. CASE q = r
    <3>1. at'[r] = label /\ call'[r] = o /\ valid'[r] = C!ReliesOn(o) \cap C!There
      BY <1>4, <2>2 DEF C!Begin, C!Goto, CredentialsTyped
    <3> QED BY <2>1, <3>1 DEF KnownTo
  <2>3. CASE q # r
    <3>1. Stays
      BY <1>4, <2>3 DEF C!Begin, C!Goto, CredentialsTyped
    <3> QED BY <1>2, <2>1, <3>1
  <2> QED BY <2>2, <2>3
<1>5. ASSUME NEW q \in Request, C!Close(q), C!There' \subseteq C!There PROVE KnownTo(r)'
  <2>1. Ends \/ Stays
    BY <1>5 DEF C!Close, C!Leave, C!Goto, CredentialsTyped
  <2> QED BY <1>1, <1>2, <1>5, <2>1
<1>6. ASSUME NEW q \in Request, NEW label \in CredentialSteps \ {"count", "account"},
             C!Goto(q, label), UNCHANGED <<call, valid>>, C!There' \subseteq C!There
      PROVE  KnownTo(r)'
  <2>1. CASE q = r
    BY <1>0, <1>6, <2>1 DEF KnownTo, C!Goto, CredentialsTyped
  <2>2. CASE q # r
    BY <1>2, <1>6, <2>2 DEF C!Goto, CredentialsTyped
  <2> QED BY <2>1, <2>2
\* What is new in the store is known at once.
<1>7. ASSUME C!Watch, Ends \/ (at'[r] = at[r] /\ call'[r] = call[r]) PROVE KnownTo(r)'
  <2>1. Stays => C!ReliesOn(call'[r]) \cap C!There' \subseteq valid'[r]
    BY <1>7 DEF C!Watch
  <2>2. valid[r] \subseteq valid'[r]
    BY <1>7 DEF C!Watch
  <2> QED BY <1>0, <1>1, <1>7, <2>1, <2>2, SameKnown
<1>8. ASSUME NEW q \in Request, C!VerifyKey(q), call[q].key \in C!Registered,
             C!Goto(q, "count"), UNCHANGED <<call, valid>>
      PROVE  KnownTo(r)'
  <2>1. C!There' = C!There
    BY <1>3, <1>8 DEF C!VerifyKey
  <2>2. CASE q = r
    <3>1. call[r] \in Ceremony({"login"}) /\ call[r] \in Operations
      BY <1>8, <2>2, Carries DEF C!VerifyKey, CredentialsTyped
    <3>2. <<"key", call[r].key>> \in C!ReliesOn(call[r]) \cap C!There
      BY <1>8, <2>2, <3>1, Relies, WhatIsThere DEF Ceremony
    <3>3. call[r].kind = "login"
      BY <3>1 DEF Ceremony
    <3> QED BY <1>0, <1>8, <2>1, <3>2, <3>3 DEF KnownTo
  <2>3. CASE q # r
    BY <1>2, <1>8, <2>1, <2>3 DEF C!Goto, CredentialsTyped
  <2> QED BY <2>2, <2>3
<1>9. ASSUME NEW q \in Request, C!WriteCount(q) PROVE KnownTo(r)'
  <2>1. call[q] \in Ceremony({"login"})
    BY <1>9, Carries DEF C!WriteCount
  <2>2. C!Registered' = C!Registered
    BY <1>9, <2>1 DEF C!WriteCount, C!Registered, C!Counted, CredentialsTyped, Ceremony, C!Unregistered
  <2>3. C!There' = C!There
    BY <1>9, <2>2 DEF C!There, C!WriteCount
  <2>4. CASE q = r
    <3>1. call[r].kind = "login" /\ at[r] = "count" /\ UNCHANGED <<call, valid>>
      BY <1>9, <2>1, <2>4 DEF C!WriteCount, Ceremony
    <3> QED BY <1>0, <2>3, <3>1 DEF KnownTo
  <2>5. CASE q # r
    BY <1>2, <1>9, <2>3, <2>5 DEF C!WriteCount, C!Goto, CredentialsTyped
  <2> QED BY <2>4, <2>5
<1>10. ASSUME NEW q \in Request, C!ReadToken(q), tokens[call[q].token] = "live" PROVE KnownTo(r)'
  <2>1. C!There' = C!There
    BY <1>3, <1>10 DEF C!ReadToken
  <2>2. CASE q = r
    <3>1. call[r] \in Calls /\ call[r] \in Operations /\ UNCHANGED <<call, valid>>
      BY <1>10, <2>2, Carries DEF C!ReadToken, CredentialsTyped
    <3>2. <<"token", call[r].token>> \in C!ReliesOn(call[r]) \cap C!There
      BY <1>10, <2>2, <3>1, Relies, WhatIsThere DEF Calls
    <3>3. call[r].kind = "call"
      BY <3>1 DEF Calls
    <3> QED BY <1>0, <2>1, <3>1, <3>2, <3>3 DEF KnownTo
  <2>3. CASE q # r
    BY <1>2, <1>10, <2>1, <2>3 DEF C!ReadToken, C!Goto, CredentialsTyped
  <2> QED BY <2>2, <2>3
<1>11. ASSUME NEW q \in Request,
              \/ C!RegistrationOptions(q) \/ C!Register(q) \/ C!Login(q) \/ C!Create(q) \/ C!Call(q)
       PROVE  KnownTo(r)'
  <2>1. PICK o : \/ C!Begin(q, o, "count_keys") \/ C!Begin(q, o, "take")
                 \/ C!Begin(q, o, "count_tokens") \/ C!Begin(q, o, "token")
    BY <1>11 DEF C!RegistrationOptions, C!Register, C!Login, C!Create, C!Call
  <2> QED BY <1>4, <2>1 DEF CredentialSteps
<1>12. ASSUME NEW q \in Request,
              \/ C!CountKeys(q) \/ C!IssueRegistration(q) \/ C!TakeChallenge(q) \/ C!SpendChallenge(q)
              \/ C!ReadAccount(q) \/ C!CountTokens(q) \/ C!Cut(q)
       PROVE  KnownTo(r)'
  <2>1. C!There' = C!There
    BY <1>3, <1>12 DEF C!CountKeys, C!IssueRegistration, C!Issue, C!TakeChallenge, C!SpendChallenge,
                       C!ReadAccount, C!CountTokens, C!Cut
  <2>2. \/ C!Close(q)
        \/ \E label \in CredentialSteps \ {"count", "account"} : C!Goto(q, label) /\ UNCHANGED <<call, valid>>
    BY <1>12 DEF C!CountKeys, C!IssueRegistration, C!TakeChallenge, C!SpendChallenge, C!ReadAccount,
                 C!CountTokens, C!Cut, C!Refuse, C!Accept, CredentialSteps
  <2> QED BY <1>5, <1>6, <2>1, <2>2
<1>13. ASSUME NEW q \in Request, C!InsertKey(q) \/ C!InsertToken(q) PROVE KnownTo(r)'
  <2>1. CASE C!Watch
    BY <1>7, <1>13, <2>1 DEF C!InsertKey, C!InsertToken, C!Refuse, C!Close, C!Leave, C!Goto, CredentialsTyped
  <2>2. CASE C!InsertKey(q) /\ C!Close(q) /\ UNCHANGED C!store
    BY <1>3, <1>5, <2>2
  <2> QED BY <1>13, <2>1, <2>2 DEF C!InsertKey, C!InsertToken, C!Refuse
<1>14. ASSUME NEW q \in Request, C!VerifyKey(q) \/ C!ReadToken(q),
              ~(C!VerifyKey(q) /\ call[q].key \in C!Registered /\ C!Goto(q, "count") /\ UNCHANGED <<call, valid>>),
              ~(C!ReadToken(q) /\ tokens[call[q].token] = "live")
       PROVE  KnownTo(r)'
  <2>1. C!Close(q) /\ UNCHANGED C!store
    BY <1>14 DEF C!VerifyKey, C!ReadToken, C!Refuse
  <2> QED BY <1>3, <1>5, <2>1
<1>15. ASSUME NEW k \in Key, C!RemoveKey(k) PROVE KnownTo(r)'
  <2>1. C!There' \subseteq C!There
    BY <1>15 DEF C!RemoveKey, C!There, C!Registered, CredentialsTyped
  <2> QED BY <1>2, <1>15, <2>1 DEF C!RemoveKey
<1>16. ASSUME NEW t \in Token, C!Revoke(t) \/ C!TokenExpires(t) PROVE KnownTo(r)'
  <2>1. C!There' \subseteq C!There
    BY <1>16 DEF C!Revoke, C!TokenExpires, C!There, C!Registered, CredentialsTyped
  <2> QED BY <1>2, <1>16, <2>1 DEF C!Revoke, C!TokenExpires
<1>17. ASSUME NEW state \in {"active", "suspended", "deleted"}, C!SetStatus(state) PROVE KnownTo(r)'
  BY <1>7, <1>17 DEF C!SetStatus
<1>18. CASE UNCHANGED <<status, passkeys, tokens, at, call, valid>>
  BY <1>2, <1>3, <1>18
<1> HIDE DEF Stays, Ends
<1> QED
  BY <1>8, <1>9, <1>10, <1>11, <1>12, <1>13, <1>14, <1>15, <1>16, <1>17, <1>18
     DEF C!Next, C!vars, C!LoginOptions, C!ChallengeExpires, C!Issue

LEMMA RefusedStep ==
  ASSUME CredentialsTyped, FoundIsKnown, C!RemovedIsRefused, [C!Next]_C!vars
  PROVE  C!RemovedIsRefused'
<1>1. ASSUME NEW r \in Request, C!ReadAccount(r), C!MayEnter(status) PROVE C!RemovedIsRefused'
  <2>1. call[r] \in Operations /\ call[r] \in Ceremony({"login"}) \cup Calls
    BY <1>1, Carries DEF C!ReadAccount, CredentialsTyped
  <2>2. <<"account">> \in C!There
    BY <1>1, WhatIsThere DEF C!MayEnter
  <2>3. C!ReliesOn(call[r]) \subseteq valid[r]
    <3>1. CASE call[r] \in Ceremony({"login"})
      BY <1>1, <2>1, <2>2, <3>1, Relies DEF Ceremony, FoundIsKnown, C!ReadAccount
    <3>2. CASE call[r] \in Calls
      BY <1>1, <2>1, <2>2, <3>2, Relies DEF Calls, FoundIsKnown, C!ReadAccount
    <3> QED BY <2>1, <3>1, <3>2
  <2> QED BY <1>1, <2>3 DEF C!ReadAccount, C!Accept, C!RemovedIsRefused
<1>2. wrong' = wrong \/ \E r \in Request : C!ReadAccount(r) /\ C!MayEnter(status)
  <2>1. ASSUME NEW r \in Request, \/ C!RegistrationOptions(r) \/ C!Register(r) \/ C!Login(r)
                                  \/ C!Create(r) \/ C!Call(r)
        PROVE  wrong' = wrong
    BY <2>1, BegunAlone
  <2>2. ASSUME NEW r \in Request, \/ C!CountKeys(r) \/ C!IssueRegistration(r) \/ C!TakeChallenge(r) \/ C!SpendChallenge(r)
        PROVE  wrong' = wrong
    BY <2>2 DEF C!CountKeys, C!IssueRegistration, C!TakeChallenge, C!SpendChallenge, C!Refuse
  <2>3. ASSUME NEW r \in Request, C!InsertKey(r) \/ C!VerifyKey(r) \/ C!WriteCount(r)
        PROVE  wrong' = wrong
    BY <2>3 DEF C!InsertKey, C!VerifyKey, C!WriteCount, C!Refuse
  <2>4. ASSUME NEW r \in Request, C!CountTokens(r) \/ C!InsertToken(r) \/ C!ReadToken(r) \/ C!Cut(r)
        PROVE  wrong' = wrong
    BY <2>4 DEF C!CountTokens, C!InsertToken, C!ReadToken, C!Cut, C!Refuse
  <2>5. ASSUME NEW r \in Request, C!ReadAccount(r) PROVE wrong' = wrong \/ C!MayEnter(status)
    BY <2>5 DEF C!ReadAccount, C!Refuse
  <2>6. (\E d \in Challenge : C!LoginOptions(d) \/ C!ChallengeExpires(d)) \/ (\E k \in Key : C!RemoveKey(k))
        \/ (\E t \in Token : C!Revoke(t) \/ C!TokenExpires(t))
        \/ (\E state \in {"active", "suspended", "deleted"} : C!SetStatus(state)) \/ UNCHANGED C!vars
          => wrong' = wrong
    BY DEF C!LoginOptions, C!ChallengeExpires, C!RemoveKey, C!Revoke, C!TokenExpires, C!SetStatus, C!vars
  <2> QED BY <2>1, <2>2, <2>3, <2>4, <2>5, <2>6 DEF C!Next
<1> QED BY <1>1, <1>2 DEF C!RemovedIsRefused

-----------------------------------------------------------------------------
LEMMA CredentialsStart == ASSUME C!CredentialsAssumption, C!Init PROVE CredentialsInv
<1>1. PICK have \in {S \in SUBSET Key : Cardinality(S) <= MaxPasskeys} :
        passkeys = [k \in Key |-> IF k \in have THEN 0 ELSE C!Unregistered]
  BY SameCount DEF C!Init
<1>2. C!Registered = have
  BY <1>1 DEF C!Registered, C!Unregistered
<1>3. CredentialsTyped
  BY <1>1, FittingOps
     DEF C!Init, CredentialsTyped, Challenges, Purposes, C!Unissued, C!Gone, CredentialSteps, Operations
<1>4. Tickets = {} /\ Inserting = {} /\ C!Stored = {} /\ Cardinality(C!Stored) = 0
  BY FS_EmptySet DEF C!Init, Tickets, Inserting, C!Stored, OpenChallenge, C!Unissued
<1>5. RoomForKeys /\ RoomForTokens
  BY <1>2, <1>4 DEF RoomForKeys, RoomForTokens, C!CredentialsAssumption
<1>6. UsedIsGone /\ SpendsWhatItSaw /\ C!RemovedIsRefused
  BY DEF C!Init, UsedIsGone, SpendsWhatItSaw, C!RemovedIsRefused
<1>7. CountersHold
  BY <1>1 DEF C!Init, CountersHold, ComparedIsNewest, AtCount, C!Registered, C!CopiesAreFound
<1>8. FoundIsKnown
  BY NoOpIsNone DEF C!Init, FoundIsKnown, C!NoOp, Operations
<1> QED BY <1>3, <1>5, <1>6, <1>7, <1>8 DEF CredentialsInv

\* Whatever the limits and however many requests there are, no challenge is accepted twice, a
\* copied key is found out by its counter unless it is used at the very moment the owner does,
\* the limits are kept while ceremonies follow one another, and nobody gets in by what was
\* removed before the request came (passkeys.py: _consume_challenge, _bump_counter; api_tokens.py:
\* create_token, authenticate_token).
THEOREM CredentialsStay == ASSUME C!CredentialsAssumption PROVE C!Spec => []CredentialsHold
<1>1. C!Init => CredentialsInv
  BY CredentialsStart
<1>2. CredentialsInv /\ [C!Next]_C!vars => CredentialsInv'
  <2> SUFFICES ASSUME CredentialsInv, [C!Next]_C!vars PROVE CredentialsInv'
    OBVIOUS
  <2>1. CredentialsTyped' /\ UsedIsGone' /\ CountersHold' /\ SpendsWhatItSaw'
    BY CredentialsTypedStep, UsedStep, CountersStep, SpendsStep DEF CredentialsInv
  <2>2. RoomForKeys' /\ RoomForTokens' /\ FoundIsKnown' /\ C!RemovedIsRefused'
    BY RoomForKeysStep, RoomForTokensStep, FoundStep, RefusedStep DEF CredentialsInv
  <2> QED BY <2>1, <2>2 DEF CredentialsInv
<1>3. CredentialsInv => CredentialsHold
  <2>1. RoomForKeys /\ RoomForTokens => C!WithinLimits
    BY SameCount DEF RoomForKeys, RoomForTokens, C!WithinLimits
  <2> QED BY <2>1 DEF CredentialsInv, UsedIsGone, CountersHold, CredentialsHold,
       C!CredentialsHold, C!ChallengesWorkOnce
<1> QED BY <1>1, <1>2, <1>3, PTL DEF C!Spec
=============================================================================
