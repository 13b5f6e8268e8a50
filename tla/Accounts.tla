------------------------------ MODULE Accounts ------------------------------
(***************************************************************************)
(* How accounts come and go: registration (app/services/auth/users.py),    *)
(* the first administrator (bootstrap.py), and sign-in with one identity   *)
(* of one provider (app/services/oauth/service.py), which is linked to the *)
(* account of its verified address or gets a new one.                      *)
(*                                                                         *)
(* The identity's owner has the address Own; whoever registers may give    *)
(* that address too.  "old" is the password given at a registration,       *)
(* "new" the one set with a reset link, which goes to the address.         *)
(***************************************************************************)
EXTENDS Naturals, Sequences, SequencesExt, FiniteSets

CONSTANTS
  Request,      \* requests, and processes that start
  Given,        \* the names and addresses given at registrations
  Candidates,   \* the names tried for a new account of the identity, in order
  Own,          \* the identity's verified address
  AdminName, AdminAddress,  \* bootstrap_admin_username, bootstrap_admin_email
  MaxAccounts   \* bounds the accounts ever made

\* Asserted where the module is instantiated.
AccountsAssumption == MaxAccounts \in Nat

VARIABLES
  users,     \* the account records, by number
  made,      \* how many have been made
  links,     \* the accounts the identity is linked to, oldest first
  sessions,  \* live sessions: the account, and what it was entered with
  pc, kind, form, target,  \* each request: its step, its kind, what it registers, its account
  took,      \* history: requests that cleared an account nobody was just signing in to
  claimed,   \* history: accounts so cleared and then linked
  cleared,   \* history: accounts whose password was removed
  home       \* history: the account the identity was signed in to last, until one is deleted

request == <<pc, kind, form, target>>
history == <<took, claimed, cleared, home>>
vars == <<users, made, links, sessions, request, history>>

Account == 1 .. MaxAccounts
Nobody == 0
Unknown == MaxAccounts + 1  \* home, once an account was deleted
Absent == [name |-> "none"]
NoForm == [name |-> "none"]

Init ==
  /\ users = [a \in Account |-> Absent] /\ made = 0
  /\ links = <<>> /\ sessions = {}
  /\ pc = [r \in Request |-> "idle"] /\ kind = [r \in Request |-> "none"]
  /\ form = [r \in Request |-> NoForm] /\ target = [r \in Request |-> Nobody]
  /\ took = {} /\ claimed = {} /\ cleared = {} /\ home = Nobody

Existing == {a \in Account : users[a] # Absent}
Named(n) == {a \in Existing : users[a].name = n}
Addressed(m) == {a \in Existing : users[a].email = m}

Goto(r, label) == pc' = [pc EXCEPT ![r] = label]

Begin(r, label, what, f, a) ==
  /\ pc[r] = "idle"
  /\ Goto(r, label)
  /\ kind' = [kind EXCEPT ![r] = what]
  /\ form' = [form EXCEPT ![r] = f]
  /\ target' = [target EXCEPT ![r] = a]
  /\ UNCHANGED <<users, made, links, sessions, history>>

\* Done, refused or cut short.
Finish(r) ==
  /\ Goto(r, "idle")
  /\ kind' = [kind EXCEPT ![r] = "none"]
  /\ form' = [form EXCEPT ![r] = NoForm]
  /\ target' = [target EXCEPT ![r] = Nobody]
  /\ took' = took \ {r}

Proceed(r, label) == Goto(r, label) /\ UNCHANGED <<kind, form, target, took>>

With(r, a, label) ==
  Goto(r, label) /\ target' = [target EXCEPT ![r] = a] /\ UNCHANGED <<kind, form, took>>

-----------------------------------------------------------------------------
(* Making an account.                                                      *)

Form(n, m, role) == [name |-> n, email |-> m, role |-> role]

\* register: the role is not the caller's to choose.
Register(r, n, m) == Begin(r, "by_name", "register", Form(n, m, "user"), Nobody)

\* ensure_bootstrap_admin, when a process starts.
StartUp(r) == Begin(r, "count", "register", Form(AdminName, AdminAddress, "admin"), Nobody)

CountUsers(r) ==
  /\ pc[r] = "count"
  /\ IF Existing # {} THEN Finish(r) ELSE Proceed(r, "by_name")
  /\ UNCHANGED <<users, made, links, sessions, claimed, cleared, home>>

LookUp(r) ==
  /\ \/ /\ pc[r] = "by_name"
        /\ IF Named(form[r].name) # {} THEN Finish(r) ELSE Proceed(r, "by_email")
     \/ /\ pc[r] = "by_email"
        /\ IF Addressed(form[r].email) # {} THEN Finish(r) ELSE Proceed(r, "create")
  /\ UNCHANGED <<users, made, links, sessions, claimed, cleared, home>>

\* A record keeps its password under "password"; "password_hash" is only set by a takeover.
Registered(f) ==
  [name |-> f.name, email |-> f.email, role |-> f.role, verified |-> FALSE,
   password |-> "old", hash |-> "unset"]

\* No password: the account can only be entered through its provider.
FromProvider(f) ==
  [name |-> f.name, email |-> f.email, role |-> f.role, verified |-> TRUE,
   password |-> "none", hash |-> "unset"]

\* Faulty variant: addresses have no unique index.
NameTaken(f) == Named(f.name) # {}

\* The unique indexes of users.
Duplicate(f) == Named(f.name) # {} \/ Addressed(f.email) # {}

Create(r) ==
  /\ pc[r] = "create" /\ made < MaxAccounts
  /\ IF Duplicate(form[r])
     THEN Finish(r) /\ UNCHANGED <<users, made>>
     ELSE /\ made' = made + 1
          /\ users' = [users EXCEPT ![made'] =
                         IF kind[r] = "register" THEN Registered(form[r]) ELSE FromProvider(form[r])]
          /\ IF kind[r] = "register" THEN Finish(r) ELSE With(r, made', "link")
  /\ UNCHANGED <<links, sessions, claimed, cleared, home>>

-----------------------------------------------------------------------------
(* Signing in with the provider.                                           *)

\* The provider's answer is verified: what follows is create_or_link_user.
SignIn(r) == Begin(r, "linked", "provider", NoForm, Nobody)

FindLink(r) ==
  /\ pc[r] = "linked"
  /\ IF links = <<>> THEN Proceed(r, "local") ELSE With(r, links[1], "linked_user")
  /\ UNCHANGED <<users, made, links, sessions, claimed, cleared, home>>

ReadLinked(r) ==
  /\ pc[r] = "linked_user"
  /\ Proceed(r, IF target[r] \in Existing THEN "open" ELSE "local")
  /\ UNCHANGED <<users, made, links, sessions, claimed, cleared, home>>

FindLocal(r) ==
  /\ pc[r] = "local"
  /\ IF Addressed(Own) = {} THEN Proceed(r, "name")
     ELSE \E a \in Addressed(Own) : With(r, a, IF users[a].verified THEN "link" ELSE "clear")
  /\ UNCHANGED <<users, made, links, sessions, claimed, cleared, home>>

\* Faulty variant: the password stays.
Trusted(u) == [u EXCEPT !.verified = TRUE]

\* Whoever registered the address may not be its owner.
Cleared(u) == [u EXCEPT !.verified = TRUE, !.password = "none", !.hash = "none"]

Entering(a) == \E q \in Request : pc[q] = "open" /\ kind[q] \in {"old", "new"} /\ target[q] = a

Clear(r) ==
  LET a == target[r] IN
  /\ pc[r] = "clear"
  /\ users' = IF a \in Existing THEN [users EXCEPT ![a] = Cleared(@)] ELSE users
  /\ cleared' = cleared \cup {a}
  /\ took' = IF Entering(a) THEN took ELSE took \cup {r}
  /\ Goto(r, "revoke")
  /\ UNCHANGED <<made, links, sessions, kind, form, target, claimed, home>>

Of(a) == {s \in sessions : s.account = a}

RevokeAll(r) ==
  /\ pc[r] = "revoke"
  /\ sessions' = sessions \ Of(target[r])
  /\ CASE kind[r] = "provider" -> Proceed(r, "link")
       [] kind[r] = "reset" -> Finish(r)
       [] kind[r] = "delete" -> Proceed(r, "delete")
  /\ UNCHANGED <<users, made, links, claimed, cleared, home>>

\* One link per account and provider: a second one is refused, and the sign-in with it.
Link(r) ==
  /\ pc[r] = "link"
  /\ IF Contains(links, target[r])
     THEN Finish(r) /\ UNCHANGED <<links, claimed>>
     ELSE /\ links' = Append(links, target[r])
          /\ claimed' = IF r \in took THEN claimed \cup {target[r]} ELSE claimed
          /\ Proceed(r, "open")
  /\ UNCHANGED <<users, made, sessions, cleared, home>>

PickName(r) ==
  /\ pc[r] = "name"
  /\ \E i \in 1 .. Len(Candidates) :
       /\ Named(Candidates[i]) = {} /\ \A j \in 1 .. i - 1 : Named(Candidates[j]) # {}
       /\ form' = [form EXCEPT ![r] = Form(Candidates[i], Own, "user")]
  /\ Goto(r, "create")
  /\ UNCHANGED <<users, made, links, sessions, kind, target, history>>

\* With the provider the account is read once more; with a password it is not.
Open(r) ==
  LET a == target[r] IN
  /\ pc[r] = "open"
  /\ IF kind[r] = "provider" /\ a \notin Existing
     THEN UNCHANGED <<sessions, home>>
     ELSE /\ sessions' = sessions \cup {[account |-> a, by |-> kind[r]]}
          /\ home' = IF kind[r] = "provider" /\ home # Unknown THEN a ELSE home
  /\ Finish(r)
  /\ UNCHANGED <<users, made, links, claimed, cleared>>

-----------------------------------------------------------------------------
(* What else becomes of an account.                                        *)

\* normalize_user: "password" is only looked at if there is no "password_hash".
Password(a) == IF users[a].hash = "unset" THEN users[a].password ELSE users[a].hash

LogIn(r, a, p) == a \in Existing /\ Password(a) = p /\ Begin(r, "open", p, NoForm, a)

\* A reset link of the account at the address is used.
Reset(r, a) ==
  /\ pc[r] = "idle" /\ a \in Addressed(Own)
  /\ users' = [users EXCEPT ![a].password = "new", ![a].verified = TRUE]
  /\ Goto(r, "revoke")
  /\ kind' = [kind EXCEPT ![r] = "reset"]
  /\ target' = [target EXCEPT ![r] = a]
  /\ UNCHANGED <<made, links, sessions, form, took, claimed, cleared, home>>

Unlink(a) ==
  /\ \E i \in 1 .. Len(links) : links[i] = a /\ links' = RemoveAt(links, i)
  /\ UNCHANGED <<users, made, sessions, request, history>>

\* The links of a deleted account stay.
DeleteAccount(r, a) == a \in Existing /\ Begin(r, "revoke", "delete", NoForm, a)

DeleteUser(r) ==
  /\ pc[r] = "delete"
  /\ users' = [users EXCEPT ![target[r]] = Absent]
  /\ home' = Unknown
  /\ Finish(r)
  /\ UNCHANGED <<made, links, sessions, claimed, cleared>>

Cut(r) ==
  /\ pc[r] # "idle" /\ Finish(r)
  /\ UNCHANGED <<users, made, links, sessions, claimed, cleared, home>>

-----------------------------------------------------------------------------
Next ==
  \/ \E r \in Request :
       \/ \E c \in Given : Register(r, c.name, c.email)
       \/ StartUp(r) \/ CountUsers(r) \/ LookUp(r) \/ Create(r)
       \/ SignIn(r) \/ FindLink(r) \/ ReadLinked(r) \/ FindLocal(r) \/ Clear(r) \/ RevokeAll(r)
       \/ Link(r) \/ PickName(r) \/ Open(r) \/ DeleteUser(r) \/ Cut(r)
       \/ \E a \in Account :
            LogIn(r, a, "old") \/ LogIn(r, a, "new") \/ Reset(r, a) \/ DeleteAccount(r, a)
  \/ \E a \in Account : Unlink(a)

Spec == Init /\ [][Next]_vars

-----------------------------------------------------------------------------
\* However registrations, first sign-ins and starting processes overlap, no two accounts share
\* a name or an address, one at most is the first administrator's, and the identity is linked
\* to one at most that is there.
OneOfEach ==
  /\ \A a, b \in Existing :
       users[a].name = users[b].name \/ users[a].email = users[b].email => a = b
  /\ Cardinality({a \in Existing : users[a].role = "admin"}) <= 1
  /\ \A i, j \in 1 .. Len(links) : links[i] \in Existing /\ links[j] \in Existing => i = j

\* An account that somebody registered with the identity's address keeps nothing of theirs once
\* its owner has signed in: neither the password nor a session, unless one was just begun.
TakenOverIsClean ==
  \A a \in claimed \cap Existing : Password(a) # "old" /\ \A s \in Of(a) : s.by # "old"

\* The password that was set last with a reset link is the account's, if no sign-in with the
\* provider has removed one.
ResetCounts ==
  \A a \in Existing \ cleared : users[a].password = "new" => Password(a) = "new"

\* Whoever has signed in with the provider is led to the same account the next time, unlinked
\* or not, as long as no account was deleted.
Leads == IF links # <<>> THEN {links[1]} ELSE Addressed(Own)
ComesHome == home \notin {Nobody, Unknown} => Leads = {home}

\* Between them: an account belongs to whoever proved the identity or its address.
AccountsHold == TakenOverIsClean /\ ResetCounts /\ ComesHome

-----------------------------------------------------------------------------
(* What the documentation says, and the code does not do.                  *)

\* A password that was set with a reset link is the account's.
ResetAlwaysCounts == \A a \in Existing : users[a].password = "new" => Password(a) = "new"

\* "The account already linked to this identity": there is one, and the sign-in leads to it.
LinkedIsFound ==
  \A a \in Existing : Contains(links, a) /\ (\A r \in Request : pc[r] = "idle") => Leads = {a}
=============================================================================
