------------------------------- MODULE SignIn -------------------------------
(***************************************************************************)
(* Signing in to one account and everything that decides whether it works: *)
(* AuthService (app/services/auth/service.py) with its lockout counter,    *)
(* the second step of a two-factor sign-in, passkeys, OAuth, password      *)
(* changes, password-reset links and suspension.                           *)
(*                                                                         *)
(* One step is one call to the database or one password verification       *)
(* (which runs in a thread), so attempts interleave between any two        *)
(* awaits.  Passwords are numbered in the order they were chosen; 0 is a   *)
(* wrong guess.  Whether a second-factor code is right is left open here.  *)
(***************************************************************************)
EXTENDS Naturals, FiniteSets

CONSTANTS
  Attempt,      \* requests being served, by any worker process
  Link,         \* password-reset tokens that can be issued
  NoLink,
  Operations,   \* what clients ask for (see Arrive)
  MaxFailed,    \* auth_max_failed_logins
  Rehash,       \* TRUE: the hashing parameters were raised since the password was set
  MaxPassword,  \* bound on the passwords ever chosen
  MaxCount,     \* bound on the failure counter
  MaxCancels    \* bound on attempts cut short (time-out, crash)

ASSUME NamesAssumption == NoLink \notin Link /\ Rehash \in BOOLEAN
ASSUME BoundsAssumption ==
  /\ MaxFailed \in Nat \ {0} /\ MaxCount \in Nat /\ MaxFailed < MaxCount
  /\ MaxPassword \in Nat \ {0} /\ MaxCancels \in Nat

VARIABLES
  status,     \* of the account
  count,      \* failed_login_count
  locked,     \* locked_until lies in the future
  password,   \* the password whose hash is stored
  outdated,   \* its hash was made with weaker parameters
  newest,     \* the password chosen last
  link,       \* the state of each reset token
  challenge,  \* passwords for which an unexpired second-step token is out
  open,       \* passwords that live sessions were opened with
  pc,         \* where each attempt is
  op,         \* what it was asked to do
  guess,      \* the password it presents (of a second step: presented earlier)
  seen,       \* the password in the record it read
  weak,       \* and whether its hash was outdated
  number,     \* the failure count it was given
  old,        \* the reset tokens it still has to expire
  mine,       \* the reset token it presents or issues
  result,     \* how it was answered, where a property is about it
  checked,    \* history: guesses verified since the counter was last reset
  burst,      \* history: guesses verified since the account last let somebody in
  retired,    \* history: passwords replaced by a change that was answered
  revived,    \* history: passwords replaced while a sign-in with them was under way
  used,       \* history: how often each reset token set a password
  crowd,      \* history: two reset links were requested at the same time
  late,       \* history: what was already true when the attempt came in
  cancels     \* how much of the bound on cancellations is used

record == <<status, count, locked, password, outdated, newest>>
store == <<record, link, challenge, open>>
attempt == <<pc, op, guess, seen, weak, number, old, mine, result>>
history == <<checked, burst, retired, revived, used, crowd, late, cancels>>
vars == <<store, attempt, history>>

Passwords == 1 .. MaxPassword

Init ==
  /\ status = "active" /\ count = 0 /\ locked = FALSE
  /\ password = 1 /\ newest = 1 /\ outdated = Rehash
  /\ link = [t \in Link |-> "none"]
  /\ challenge = {} /\ open = {}
  /\ pc = [a \in Attempt |-> "idle"]
  /\ op = [a \in Attempt |-> "none"]
  /\ guess = [a \in Attempt |-> 0]
  /\ seen = [a \in Attempt |-> 0]
  /\ weak = [a \in Attempt |-> FALSE]
  /\ number = [a \in Attempt |-> 0]
  /\ old = [a \in Attempt |-> {}]
  /\ mine = [a \in Attempt |-> NoLink]
  /\ result = [a \in Attempt |-> "none"]
  /\ checked = 0 /\ burst = 0
  /\ retired = {} /\ revived = {}
  /\ used = [t \in Link |-> 0]
  /\ crowd = FALSE
  /\ late = [a \in Attempt |-> "no"]
  /\ cancels = 0

-----------------------------------------------------------------------------
(* Attempts come in, and are answered.                                     *)

Goto(a, label) == pc' = [pc EXCEPT ![a] = label]

\* The attempt is over, and nothing it held is left.
Answer(a, how) ==
  /\ Goto(a, "idle")
  /\ result' = [result EXCEPT ![a] = how]
  /\ op' = [op EXCEPT ![a] = "none"]
  /\ guess' = [guess EXCEPT ![a] = 0]
  /\ seen' = [seen EXCEPT ![a] = 0]
  /\ weak' = [weak EXCEPT ![a] = FALSE]
  /\ number' = [number EXCEPT ![a] = 0]
  /\ old' = [old EXCEPT ![a] = {}]
  /\ mine' = [mine EXCEPT ![a] = NoLink]

SigningIn == {"password", "code", "passkey", "oauth"}

\* Faulty variant: only the status is looked at.
StatusOnly(how) == status # "active"

\* What the record says against a sign-in; OAuth knows no lock.
Refuses(how) == status # "active" \/ (locked /\ how # "oauth")

Start(a, what, p, t, label) ==
  /\ pc[a] = "idle" /\ what \in Operations
  /\ Goto(a, label)
  /\ op' = [op EXCEPT ![a] = what]
  /\ guess' = [guess EXCEPT ![a] = p]
  /\ mine' = [mine EXCEPT ![a] = t]
  /\ result' = [result EXCEPT ![a] = "none"]
  /\ late' = [late EXCEPT ![a] =
       IF what \in SigningIn /\ status # "active" THEN "inactive"
       ELSE IF what \in SigningIn \ {"oauth"} /\ locked THEN "locked"
       ELSE IF what = "password" /\ p \in retired \ revived THEN "old"
       ELSE "no"]
  /\ UNCHANGED <<store, seen, weak, number, old, checked, burst, retired, revived, used, crowd,
                 cancels>>

\* Whoever knows a password may present it for ever; a reset token that was mailed, too.
Arrive(a) ==
  \/ \E p \in 0 .. newest : Start(a, "password", p, NoLink, "read")
  \/ \E p \in challenge : Start(a, "code", p, NoLink, "read")
  \/ Start(a, "passkey", 0, NoLink, "read")
  \/ Start(a, "oauth", 0, NoLink, "read")
  \/ \E p \in 0 .. newest : Start(a, "change", p, NoLink, "read")
  \/ Start(a, "disable", 0, NoLink, "status")
  \/ Start(a, "enable", 0, NoLink, "status")
  \/ Start(a, "delete", 0, NoLink, "revoke")
  \/ Start(a, "forgot", 0, NoLink, "find")
  \/ \E t \in Link : link[t] # "none" /\ Start(a, "reset", 0, t, "token")

-----------------------------------------------------------------------------
(* authenticate, complete_mfa_login, login_with_passkey, login_oauth_user.  *)

\* The account is read from the database, past every cache.
ReadRecord(a) ==
  /\ pc[a] = "read" /\ op[a] \in SigningIn
  /\ IF Refuses(op[a])
     THEN Answer(a, "none")
     ELSE /\ seen' = [seen EXCEPT ![a] = password]
          /\ weak' = [weak EXCEPT ![a] = outdated]
          /\ Goto(a, CASE op[a] \in {"password", "code"} -> "reserve"
                       [] op[a] = "passkey" -> "clear"
                       [] op[a] = "oauth" -> "open")
          /\ UNCHANGED <<op, guess, number, old, mine, result>>
  /\ UNCHANGED <<store, history>>

\* Faulty variant: count and increment are two calls, so two attempts get one number.
CountedTwice(n) == count' \in {n, n + 1}

Counted(n) == count' = n + 1

Exhausted(n) == n > MaxFailed

\* The failure is counted before anything is verified.  A code is refused once the guesses
\* are used up, and locks the account; a password is just refused.
Reserve(a) ==
  /\ pc[a] = "reserve" /\ count < MaxCount /\ status # "deleted"
  /\ Counted(count)
  /\ IF Exhausted(count') /\ op[a] = "password"
     THEN Answer(a, "none")
     ELSE /\ number' = [number EXCEPT ![a] = count']
          /\ Goto(a, IF Exhausted(count') THEN "lock" ELSE "verify")
          /\ UNCHANGED <<op, guess, seen, weak, old, mine, result>>
  /\ IF Exhausted(count') THEN UNCHANGED <<checked, burst>>
     ELSE checked' = checked + 1 /\ burst' = burst + 1
  /\ UNCHANGED <<status, locked, password, outdated, newest, link, challenge, open,
                 retired, revived, used, crowd, late, cancels>>

\* There is no counter any more: the guess goes by as number 0.
ReserveNothing(a) ==
  /\ pc[a] = "reserve" /\ status = "deleted"
  /\ Goto(a, "verify")
  /\ UNCHANGED <<store, op, guess, seen, weak, number, old, mine, result, history>>

\* Faulty variant: only the guess after the last one allowed locks the account.
LockedAfter(n) == n > MaxFailed

LocksAt(n) == n >= MaxFailed

Wrong(a) ==
  IF LocksAt(number[a])
  THEN Goto(a, "lock") /\ UNCHANGED <<op, guess, seen, weak, number, old, mine, result>>
  ELSE Answer(a, "none")

\* The password is compared with the hash that was read before; a code may be anything.
Verify(a) ==
  /\ pc[a] = "verify"
  /\ \/ /\ op[a] = "password"
        /\ IF guess[a] = seen[a]
           THEN /\ Goto(a, "succeed")
                /\ UNCHANGED <<op, guess, seen, weak, number, old, mine, result>>
           ELSE Wrong(a)
     \/ op[a] = "code" /\ Wrong(a)
     \/ /\ op[a] = "code"
        /\ Goto(a, "clear")
        /\ UNCHANGED <<op, guess, seen, weak, number, old, mine, result>>
  /\ UNCHANGED <<store, history>>

Lock(a) ==
  /\ pc[a] = "lock"
  /\ IF status = "deleted" THEN UNCHANGED <<count, locked, checked>>
     ELSE locked' = TRUE /\ count' = 0 /\ checked' = 0
  /\ Answer(a, "none")
  /\ UNCHANGED <<status, password, outdated, newest, link, challenge, open,
                 burst, retired, revived, used, crowd, late, cancels>>

\* Attempts that came in while the account was locked may be served once it is not.
Unlocked == late' = [a \in Attempt |-> IF late[a] = "locked" THEN "no" ELSE late[a]]

\* The right password: counter and lock are cleared, and if the hash that was read was made
\* with outdated parameters a new one of the password that was presented is stored.
Succeed(a) ==
  /\ pc[a] = "succeed"
  /\ IF status = "deleted"
     THEN UNCHANGED <<count, locked, password, outdated, checked, burst, late>>
     ELSE /\ count' = 0 /\ locked' = FALSE /\ checked' = 0 /\ burst' = 0
          /\ IF weak[a]
             THEN password' = guess[a] /\ outdated' = FALSE
             ELSE UNCHANGED <<password, outdated>>
          /\ Unlocked
  /\ Goto(a, "factor")
  /\ UNCHANGED <<status, newest, link, challenge, open, op, guess, seen, weak, number, old, mine,
                 result, retired, revived, used, crowd, cancels>>

\* With a second factor the answer is a token for the second step.
AskFactor(a) ==
  /\ pc[a] = "factor"
  /\ \/ Goto(a, "open") /\ UNCHANGED <<challenge, op, guess, seen, weak, number, old, mine, result>>
     \/ challenge' = challenge \cup {guess[a]} /\ Answer(a, "accepted")
  /\ UNCHANGED <<record, link, open, history>>

\* After a code or a passkey the counter is cleared; a lock stays.
Clear(a) ==
  /\ pc[a] = "clear"
  /\ IF status = "deleted" THEN UNCHANGED <<count, checked, burst>>
     ELSE count' = 0 /\ checked' = 0 /\ burst' = 0
  /\ Goto(a, "open")
  /\ UNCHANGED <<status, locked, password, outdated, newest, link, challenge, open,
                 op, guess, seen, weak, number, old, mine, result,
                 retired, revived, used, crowd, late, cancels>>

OpenSession(a) ==
  /\ pc[a] = "open"
  /\ open' = open \cup {IF op[a] \in {"password", "code"} THEN guess[a] ELSE seen[a]}
  /\ Answer(a, "accepted")
  /\ UNCHANGED <<record, link, challenge, history>>

-----------------------------------------------------------------------------
(* change_password, set_user_status, delete_user.                          *)

\* The current password is read and checked; there is no counting.
CheckCurrent(a) ==
  /\ pc[a] = "read" /\ op[a] = "change"
  /\ IF status = "deleted" \/ guess[a] # password
     THEN Answer(a, "none")
     ELSE Goto(a, "store") /\ UNCHANGED <<op, guess, seen, weak, number, old, mine, result>>
  /\ UNCHANGED <<store, history>>

Chosen(p) == p

\* Sign-ins under way when a password is replaced: verified, or about to be, with it.
UnderWay(p) ==
  \/ p \in challenge
  \/ \E b \in Attempt : /\ op[b] \in SigningIn /\ (op[b] = "code" \/ pc[b] # "read")
                        /\ p \in {guess[b], seen[b]}

\* A change or a reset stores a new password; a reset clears counter and lock, too, and
\* goes no further if there is no such account any more.
StorePassword(a) ==
  /\ pc[a] = "store" /\ newest < MaxPassword
  /\ IF status = "deleted"
     THEN /\ IF op[a] = "reset" THEN Answer(a, "none")
             ELSE Goto(a, "revoke")
                    /\ UNCHANGED <<op, guess, seen, weak, number, old, mine, result>>
          /\ UNCHANGED <<count, locked, password, outdated, newest, checked, burst, revived, late>>
     ELSE /\ newest' = newest + 1
          /\ password' = Chosen(newest')
          /\ outdated' = FALSE
          /\ seen' = [seen EXCEPT ![a] = password]
          /\ revived' = IF UnderWay(password) THEN revived \cup {password} ELSE revived
          /\ IF op[a] = "reset"
             THEN count' = 0 /\ locked' = FALSE /\ checked' = 0 /\ burst' = 0 /\ Unlocked
             ELSE UNCHANGED <<count, locked, checked, burst, late>>
          /\ Goto(a, "revoke")
          /\ UNCHANGED <<op, guess, weak, number, old, mine, result>>
  /\ UNCHANGED <<status, link, challenge, open, retired, used, crowd, cancels>>

\* Faulty variant: a reset leaves the sessions alone.
SpareAll(a) == open

\* A change may keep the caller's own session, from now on one of the new password.
SessionsLeft(a) == {}

\* revoke_user_sessions (module Sessions), then the answer.
Revoke(a) ==
  /\ pc[a] = "revoke"
  /\ \/ open' = SessionsLeft(a)
     \/ op[a] = "change" /\ open # {} /\ open' = SessionsLeft(a) \cup {newest}
  /\ retired' = IF op[a] \in {"change", "reset"} THEN retired \cup ({seen[a]} \ {0})
                ELSE retired
  /\ IF op[a] = "delete"
     THEN Goto(a, "status") /\ UNCHANGED <<op, guess, seen, weak, number, old, mine, result>>
     ELSE Answer(a, "none")
  /\ UNCHANGED <<record, link, challenge, checked, burst, revived, used, crowd, late, cancels>>

\* Attempts that came in while the account was suspended may be served once it is not.
Enabled == late' = [a \in Attempt |-> IF late[a] = "inactive" THEN "no" ELSE late[a]]

SetStatus(a) ==
  /\ pc[a] = "status"
  /\ IF status = "deleted"
     THEN Answer(a, "none") /\ UNCHANGED <<status, late>>
     ELSE \/ /\ op[a] = "disable"
             /\ status' = "disabled" /\ Goto(a, "revoke")
             /\ UNCHANGED <<op, guess, seen, weak, number, old, mine, result, late>>
          \/ op[a] = "enable" /\ status' = "active" /\ Enabled /\ Answer(a, "none")
          \/ op[a] = "delete" /\ status' = "deleted" /\ UNCHANGED late /\ Answer(a, "none")
  /\ UNCHANGED <<count, locked, password, outdated, newest, link, challenge, open,
                 checked, burst, retired, revived, used, crowd, cancels>>

-----------------------------------------------------------------------------
(* Password-reset links.                                                   *)

Issuing(a) == op[a] = "forgot" /\ pc[a] \in {"expire", "insert"}

FindUnused(a) ==
  /\ pc[a] = "find"
  /\ IF status = "deleted"
     THEN Answer(a, "none") /\ UNCHANGED crowd
     ELSE /\ old' = [old EXCEPT ![a] = {t \in Link : link[t] = "unused"}]
          /\ crowd' = (crowd \/ \E b \in Attempt : Issuing(b))
          /\ Goto(a, "expire")
          /\ UNCHANGED <<op, guess, seen, weak, number, mine, result>>
  /\ UNCHANGED <<store, checked, burst, retired, revived, used, late, cancels>>

Spent(t) == [link EXCEPT ![t] = IF @ = "unused" THEN "used" ELSE @]

ExpireOld(a) ==
  /\ pc[a] = "expire"
  /\ \/ \E t \in old[a] :
          /\ link' = Spent(t)
          /\ old' = [old EXCEPT ![a] = @ \ {t}]
          /\ UNCHANGED pc
     \/ old[a] = {} /\ Goto(a, "insert") /\ UNCHANGED <<link, old>>
  /\ UNCHANGED <<record, challenge, open, op, guess, seen, weak, number, mine, result, history>>

InsertLink(a, t) ==
  /\ pc[a] = "insert"
  /\ link[t] = "none"
  /\ link' = [link EXCEPT ![t] = "unused"]
  /\ Answer(a, "none")
  /\ UNCHANGED <<record, challenge, open, history>>

CheckLink(a) ==
  /\ pc[a] = "token"
  /\ IF link[mine[a]] = "unused"
     THEN Goto(a, "consume") /\ UNCHANGED <<op, guess, seen, weak, number, old, mine, result>>
     ELSE Answer(a, "none")
  /\ UNCHANGED <<store, history>>

\* Faulty variant: the token is marked used, whoever else did so before.
Consumable(t) == TRUE

StillUnused(t) == link[t] = "unused"

\* Of two confirmations only one matches used_at: None.
Consume(a) ==
  /\ pc[a] = "consume"
  /\ IF StillUnused(mine[a])
     THEN /\ link' = [link EXCEPT ![mine[a]] = "used"]
          /\ used' = [used EXCEPT ![mine[a]] = @ + 1]
          /\ Goto(a, "store")
          /\ UNCHANGED <<op, guess, seen, weak, number, old, mine, result>>
     ELSE UNCHANGED <<link, used>> /\ Answer(a, "none")
  /\ UNCHANGED <<record, challenge, open, checked, burst, retired, revived, crowd, late, cancels>>

-----------------------------------------------------------------------------
(* What time and the time-out middleware do.                               *)

Cancel(a) ==
  /\ pc[a] # "idle" /\ cancels < MaxCancels
  /\ cancels' = cancels + 1
  /\ Answer(a, "none")
  /\ UNCHANGED <<store, checked, burst, retired, revived, used, crowd, late>>

\* Cut short as well: an attempt that would leave the bounds.
OutOfBounds(a) ==
  /\ \/ pc[a] = "store" /\ newest = MaxPassword
     \/ pc[a] = "reserve" /\ count = MaxCount
     \/ pc[a] = "insert" /\ \A t \in Link : link[t] # "none"
  /\ Answer(a, "none")
  /\ UNCHANGED <<store, history>>

LockEnds ==
  /\ locked
  /\ locked' = FALSE /\ burst' = 0 /\ Unlocked
  /\ UNCHANGED <<status, count, password, outdated, newest, link, challenge, open, attempt,
                 checked, retired, revived, used, crowd, cancels>>

ChallengeEnds(p) ==
  /\ p \in challenge
  /\ challenge' = challenge \ {p}
  /\ UNCHANGED <<record, link, open, attempt, history>>

LinkExpires(t) ==
  /\ link[t] = "unused"
  /\ link' = [link EXCEPT ![t] = "expired"]
  /\ UNCHANGED <<record, challenge, open, attempt, history>>

-----------------------------------------------------------------------------
Serve(a) ==
  \/ ReadRecord(a) \/ Reserve(a) \/ ReserveNothing(a) \/ Verify(a) \/ Lock(a)
  \/ Succeed(a) \/ AskFactor(a) \/ Clear(a) \/ OpenSession(a)
  \/ CheckCurrent(a) \/ StorePassword(a) \/ Revoke(a) \/ SetStatus(a)
  \/ FindUnused(a) \/ ExpireOld(a) \/ \E t \in Link : InsertLink(a, t)
  \/ CheckLink(a) \/ Consume(a) \/ OutOfBounds(a)

World ==
  \/ LockEnds
  \/ \E p \in Passwords : ChallengeEnds(p)
  \/ \E t \in Link : LinkExpires(t)

Next ==
  \/ \E a \in Attempt : Arrive(a) \/ Serve(a) \/ Cancel(a)
  \/ World

Spec == Init /\ [][Next]_vars

\* The event loop runs every attempt to its end, and locked_until comes.
Fairness == WF_vars(LockEnds) /\ \A a \in Attempt : WF_vars(Serve(a))

FairSpec == Spec /\ Fairness

-----------------------------------------------------------------------------
(* What signing in promises.                                               *)

Labels == {"idle", "read", "reserve", "verify", "lock", "succeed", "factor", "clear", "open",
           "store", "revoke", "status", "find", "expire", "insert", "token", "consume"}
Ops == {"none", "change", "disable", "enable", "delete", "forgot", "reset"} \cup SigningIn

\* Every variable stays in its range; whoever confirms a reset presents a token.
TypeOK ==
  /\ status \in {"active", "disabled", "deleted"}
  /\ count \in 0 .. MaxCount /\ locked \in BOOLEAN /\ outdated \in BOOLEAN
  /\ password \in Passwords /\ newest \in Passwords
  /\ link \in [Link -> {"none", "unused", "used", "expired"}]
  /\ challenge \subseteq Passwords /\ open \subseteq Passwords
  /\ pc \in [Attempt -> Labels] /\ op \in [Attempt -> Ops]
  /\ guess \in [Attempt -> 0 .. MaxPassword] /\ seen \in [Attempt -> 0 .. MaxPassword]
  /\ weak \in [Attempt -> BOOLEAN] /\ number \in [Attempt -> 0 .. MaxCount]
  /\ old \in [Attempt -> SUBSET Link] /\ mine \in [Attempt -> Link \cup {NoLink}]
  /\ result \in [Attempt -> {"none", "accepted"}]
  /\ checked \in Nat /\ burst \in Nat
  /\ retired \subseteq Passwords /\ revived \subseteq Passwords
  /\ used \in [Link -> Nat] /\ crowd \in BOOLEAN
  /\ late \in [Attempt -> {"no", "inactive", "locked", "old"}]
  /\ cancels \in 0 .. MaxCancels
  /\ \A a \in Attempt :
       /\ pc[a] \in {"verify", "succeed", "factor"} => number[a] <= MaxFailed
       /\ op[a] = "reset" => mine[a] \in Link

\* Between two resets of the counter no more guesses are verified than are allowed,
\* however many attempts read the account before the first of them was counted.
GuessesAreCounted == checked <= MaxFailed

\* Whoever comes in while the account is locked or suspended is not let in, unless that
\* changes before the account is read.
RefusedOutright ==
  \A a \in Attempt : late[a] \in {"inactive", "locked"} => result[a] # "accepted"

\* A password is of no use once its change or reset was answered, unless a sign-in with
\* it was under way when it was replaced.
OldPasswordRefused == \A a \in Attempt : late[a] = "old" => result[a] # "accepted"

\* Nor is a session that was opened with it left, or opened later by a second step.
SessionsEndWithPassword == open \cap retired \subseteq revived

\* A password that was replaced is of no use, to a sign-in or in a session.
PasswordsHold == TypeOK /\ OldPasswordRefused /\ SessionsEndWithPassword

\* However many confirmations race, one of them gets to set the password.
LinkWorksOnce == \A t \in Link : used[t] <= 1

\* As long as links are requested one after the other, only the newest works.
NewestLinkOnly ==
  ~crowd => \A t, u \in Link : link[t] = "unused" /\ link[u] = "unused" => t = u

\* A reset link sets the password once, and only the newest one does.
LinksHold == LinkWorksOnce /\ NewestLinkOnly

\* The guesses come back: an account whose guesses are used up is either locked for a
\* time, which resets the counter, or lets the right password in; but an attempt cut
\* short takes the last guess with it.
GuessesComeBack ==
  count >= MaxFailed ~> count < MaxFailed \/ status = "deleted" \/ cancels > 0

-----------------------------------------------------------------------------
(* What the documentation says, and the code does not do.                  *)

\* "Of a burst of parallel guesses, at most auth_max_failed_logins ever reach the
\* (expensive) Argon2 verification; the account then locks."
BurstBounded == burst <= MaxFailed

\* "Options: wait": a locked account is usable again after auth_lockout_minutes, whatever
\* request was cut short.
WaitingHelps == count >= MaxFailed ~> count < MaxFailed \/ status = "deleted"

\* "Only the newest link may work": whoever requests one at the same time.
OneLink == \A t, u \in Link : link[t] = "unused" /\ link[u] = "unused" => t = u

\* A changed password stays changed: the old one is refused from the answer on.
ChangeLasts == password \notin retired

=============================================================================
