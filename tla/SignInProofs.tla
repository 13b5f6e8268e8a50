---------------------------- MODULE SignInProofs ----------------------------
(***************************************************************************)
(* Proofs about SignIn, for any attempts, reset links, passwords and       *)
(* guesses: the counter that is raised before anything is verified keeps   *)
(* its promise, a locked or suspended account lets nobody in, a password   *)
(* that was replaced is of no use, and a reset link works once.            *)
(***************************************************************************)
EXTENDS SignIn, TLAPS

-----------------------------------------------------------------------------
(* Where an attempt can be, and what it then holds.                        *)

Guessing == {"password", "code"}
Setting == {"change", "reset"}

\* The operation that has brought an attempt where it is.
Place(a) ==
  /\ pc[a] = "read" => op[a] \in SigningIn \cup {"change"}
  /\ pc[a] \in {"reserve", "verify", "lock"} => op[a] \in Guessing
  /\ pc[a] \in {"succeed", "factor"} => op[a] = "password"
  /\ pc[a] = "clear" => op[a] \in {"code", "passkey"}
  /\ pc[a] = "open" => op[a] \in SigningIn
  /\ pc[a] = "store" => op[a] \in Setting
  /\ pc[a] = "revoke" => op[a] \in Setting \cup {"disable", "delete"}
  /\ pc[a] = "status" => op[a] \in {"disable", "enable", "delete"}
  /\ pc[a] \in {"find", "expire", "insert"} => op[a] = "forgot"
  /\ pc[a] \in {"token", "consume"} => op[a] = "reset"
  /\ pc[a] = "idle" => op[a] = "none"

\* What it has read and was given by then.
Carries(a) ==
  /\ pc[a] = "idle" => guess[a] = 0 /\ old[a] = {}
  /\ pc[a] \in {"idle", "read", "reserve"} => number[a] = 0
  /\ pc[a] \in {"idle", "read", "token", "consume", "store"} => seen[a] = 0
  /\ op[a] \in SigningIn /\ pc[a] # "read" => seen[a] \in Passwords
  /\ op[a] = "code" => guess[a] \in Passwords
  /\ op[a] = "password" /\ pc[a] \in {"succeed", "factor", "open"} => guess[a] = seen[a]

Typed == TypeOK /\ \A a \in Attempt : Place(a) /\ Carries(a)

-----------------------------------------------------------------------------
(* What makes the promises inductive.                                      *)

\* Every guess that was verified is still counted.
Guesses == checked <= count /\ checked <= MaxFailed

\* Whoever came in too early waits where the account will be read, and it still refuses.
TurnedAway(a) ==
  /\ late[a] = "inactive" =>
       status # "active" /\ result[a] = "none"
         /\ (pc[a] = "idle" \/ (pc[a] = "read" /\ op[a] \in SigningIn))
  /\ late[a] = "locked" =>
       locked /\ result[a] = "none"
         /\ (pc[a] = "idle" \/ (pc[a] = "read" /\ op[a] \in SigningIn \ {"oauth"}))

\* A link has set no password before it is consumed.
UsedOnce == \A t \in Link : used[t] <= 1 /\ (link[t] \in {"none", "unused"} => used[t] = 0)

\* Who issues a link alone has all that still work on its list, and leaves none.
OneAtATime ==
  ~crowd =>
    /\ \A a, b \in Attempt : Issuing(a) /\ Issuing(b) => a = b
    /\ \A a \in Attempt, t \in Link : pc[a] = "expire" /\ link[t] = "unused" => t \in old[a]
    /\ \A a \in Attempt, t \in Link : pc[a] = "insert" => link[t] # "unused"
    /\ \A t, u \in Link : link[t] = "unused" /\ link[u] = "unused" => t = u

\* Passwords that were replaced, by a change that was answered or will be.
Replacing(a) == pc[a] = "revoke" /\ op[a] \in Setting
Replaced == retired \cup ({seen[a] : a \in {b \in Attempt : Replacing(b)}} \ {0})
Gone == Replaced \ revived

\* They are older than the newest one, and neither the account, a pending challenge nor, once
\* the change was answered, a session still has one.
PasswordsKept ==
  /\ password <= newest /\ password \notin Gone
  /\ \A p \in Replaced : p < newest
  /\ challenge \cap Gone = {}
  /\ open \cap retired \subseteq revived

\* No sign-in has read one, unless it was under way when the password was replaced.
Clean(a) ==
  /\ op[a] = "code" => guess[a] \notin Gone
  /\ op[a] \in SigningIn /\ pc[a] # "read" => seen[a] <= newest /\ seen[a] \notin Gone

\* Whoever comes in with one does not get past the verification.
Barred(a) ==
  late[a] = "old" =>
    /\ result[a] = "none"
    /\ \/ pc[a] = "idle"
       \/ /\ op[a] = "password" /\ pc[a] \in {"read", "reserve", "verify", "lock"}
          /\ guess[a] \in retired \ revived

Outlived == PasswordsKept /\ \A a \in Attempt : Clean(a) /\ Barred(a)

Inv ==
  /\ Typed /\ Guesses /\ UsedOnce /\ OneAtATime /\ Outlived
  /\ \A a \in Attempt : TurnedAway(a)

-----------------------------------------------------------------------------
(* Steps of one attempt.                                                   *)

\* The type invariant in two parts: of one attempt, and of everything else.
AttemptOK(a) ==
  /\ pc[a] \in Labels /\ op[a] \in Ops
  /\ guess[a] \in 0 .. MaxPassword /\ seen[a] \in 0 .. MaxPassword
  /\ weak[a] \in BOOLEAN /\ number[a] \in 0 .. MaxCount
  /\ old[a] \in SUBSET Link /\ mine[a] \in Link \cup {NoLink}
  /\ result[a] \in {"none", "accepted"}
  /\ pc[a] \in {"verify", "succeed", "factor"} => number[a] <= MaxFailed
  /\ op[a] = "reset" => mine[a] \in Link

StoreOK ==
  /\ status \in {"active", "disabled", "deleted"}
  /\ count \in 0 .. MaxCount /\ locked \in BOOLEAN /\ outdated \in BOOLEAN
  /\ password \in Passwords /\ newest \in Passwords
  /\ link \in [Link -> {"none", "unused", "used", "expired"}]
  /\ challenge \subseteq Passwords /\ open \subseteq Passwords
  /\ checked \in Nat /\ burst \in Nat
  /\ retired \subseteq Passwords /\ revived \subseteq Passwords
  /\ used \in [Link -> Nat] /\ crowd \in BOOLEAN
  /\ late \in [Attempt -> {"no", "inactive", "locked", "old"}]
  /\ cancels \in 0 .. MaxCancels

Fields ==
  /\ pc = [b \in Attempt |-> pc[b]] /\ op = [b \in Attempt |-> op[b]]
  /\ guess = [b \in Attempt |-> guess[b]] /\ seen = [b \in Attempt |-> seen[b]]
  /\ weak = [b \in Attempt |-> weak[b]] /\ number = [b \in Attempt |-> number[b]]
  /\ old = [b \in Attempt |-> old[b]] /\ mine = [b \in Attempt |-> mine[b]]
  /\ result = [b \in Attempt |-> result[b]]

Same(b) ==
  /\ pc'[b] = pc[b] /\ op'[b] = op[b] /\ guess'[b] = guess[b] /\ seen'[b] = seen[b]
  /\ weak'[b] = weak[b] /\ number'[b] = number[b] /\ old'[b] = old[b] /\ mine'[b] = mine[b]
  /\ result'[b] = result[b]

\* The step leaves the other attempts where they are.
Moved(a) == Fields' /\ \A b \in Attempt \ {a} : Same(b)

Held(a) == AttemptOK(a) /\ Place(a) /\ Carries(a)

StepOf(a) == Arrive(a) \/ Serve(a) \/ Cancel(a)

LEMMA Parts == TypeOK => StoreOK /\ Fields /\ \A a \in Attempt : AttemptOK(a)
<1>1. TypeOK => StoreOK
  BY DEF TypeOK, StoreOK
<1>2. TypeOK => Fields
  BY DEF TypeOK, Fields
<1>3. TypeOK => \A a \in Attempt : AttemptOK(a)
  BY DEF TypeOK, AttemptOK
<1> QED BY <1>1, <1>2, <1>3

LEMMA Whole ==
  ASSUME StoreOK', Fields', \A a \in Attempt : AttemptOK(a)'
  PROVE  TypeOK'
<1>1. /\ pc' \in [Attempt -> Labels] /\ op' \in [Attempt -> Ops]
      /\ guess' \in [Attempt -> 0 .. MaxPassword] /\ seen' \in [Attempt -> 0 .. MaxPassword]
      /\ weak' \in [Attempt -> BOOLEAN] /\ number' \in [Attempt -> 0 .. MaxCount]
  BY DEF Fields, AttemptOK
<1>2. /\ old' \in [Attempt -> SUBSET Link] /\ mine' \in [Attempt -> Link \cup {NoLink}]
      /\ result' \in [Attempt -> {"none", "accepted"}]
  BY DEF Fields, AttemptOK
<1> QED BY <1>1, <1>2 DEF StoreOK, AttemptOK, TypeOK

LEMMA Answering ==
  ASSUME Fields, NEW a \in Attempt, NEW how, Answer(a, how)
  PROVE  /\ Moved(a)
         /\ pc'[a] = "idle" /\ op'[a] = "none" /\ guess'[a] = 0 /\ seen'[a] = 0 /\ weak'[a] = FALSE
         /\ number'[a] = 0 /\ old'[a] = {} /\ mine'[a] = NoLink /\ result'[a] = how
<1>1. Fields'
  BY DEF Fields, Answer, Goto
<1>2. \A b \in Attempt \ {a} : Same(b)
  BY DEF Fields, Answer, Goto, Same
<1>3. /\ pc'[a] = "idle" /\ op'[a] = "none" /\ guess'[a] = 0 /\ seen'[a] = 0 /\ weak'[a] = FALSE
      /\ number'[a] = 0 /\ old'[a] = {} /\ mine'[a] = NoLink /\ result'[a] = how
  BY DEF Fields, Answer, Goto
<1> QED BY <1>1, <1>2, <1>3 DEF Moved

LEMMA Going ==
  ASSUME Fields, NEW a \in Attempt, NEW label, Goto(a, label),
         UNCHANGED <<op, guess, seen, weak, number, old, mine, result>>
  PROVE  Moved(a) /\ pc'[a] = label
BY DEF Fields, Goto, Moved, Same

LEMMA AttemptsMove ==
  ASSUME Fields, NEW a \in Attempt, StepOf(a)
  PROVE  Moved(a)
<1>a. ASSUME NEW how, Answer(a, how) PROVE Moved(a)
  BY <1>a, Answering
<1>b. ASSUME NEW label, Goto(a, label), UNCHANGED <<op, guess, seen, weak, number, old, mine, result>>
      PROVE  Moved(a)
  BY <1>b, Going
<1>1. CASE Arrive(a)
  BY <1>1, <1>a, <1>b DEF Arrive, Start, SigningIn, Goto, record, store, Moved, Same, Fields
<1>2. CASE ReadRecord(a) \/ Reserve(a) \/ StorePassword(a)
  BY <1>2, <1>a, <1>b
     DEF ReadRecord, Reserve, StorePassword, Refuses, SigningIn, Goto, record, store, history,
         Counted, Exhausted, Unlocked, Chosen, UnderWay, Moved, Same, Fields
<1>3. CASE FindUnused(a) \/ ExpireOld(a)
  BY <1>3, <1>a, <1>b
     DEF FindUnused, ExpireOld, Issuing, Goto, record, store, Spent, history, Moved, Same,
         Fields
<1>4. CASE ReserveNothing(a) \/ Verify(a) \/ Lock(a) \/ Succeed(a) \/ AskFactor(a)
  BY <1>4, <1>a, <1>b
     DEF ReserveNothing, Verify, Lock, Succeed, AskFactor, Goto, record, store, history, Wrong,
         LocksAt, Unlocked, Moved, Same, Fields
<1>5. CASE Clear(a) \/ OpenSession(a) \/ CheckCurrent(a) \/ Revoke(a) \/ SetStatus(a)
  BY <1>5, <1>a, <1>b
     DEF Clear, OpenSession, CheckCurrent, Revoke, SetStatus, Goto, record, history, store,
         SessionsLeft, Enabled, Moved, Same, Fields
<1>6. CASE \/ (\E t \in Link : InsertLink(a, t)) \/ CheckLink(a) \/ Consume(a)
           \/ OutOfBounds(a) \/ Cancel(a)
  BY <1>6, <1>a, <1>b
     DEF InsertLink, CheckLink, Consume, OutOfBounds, Cancel, record, history, Goto, store,
         StillUnused, Moved, Same, Fields
<1> QED BY <1>1, <1>2, <1>3, <1>4, <1>5, <1>6 DEF StepOf, Serve

LEMMA AnsweredHolds ==
  ASSUME Fields, NEW a \in Attempt, NEW how \in {"none", "accepted"}, Answer(a, how)
  PROVE  Held(a)'
<1>1. /\ pc'[a] = "idle" /\ op'[a] = "none" /\ guess'[a] = 0 /\ seen'[a] = 0 /\ weak'[a] = FALSE
      /\ number'[a] = 0 /\ old'[a] = {} /\ mine'[a] = NoLink /\ result'[a] = how
  BY Answering
<1>2. AttemptOK(a)'
  <2>1. pc'[a] \in Labels /\ op'[a] \in Ops
    BY <1>1 DEF Labels, Ops
  <2>2. /\ guess'[a] \in 0 .. MaxPassword /\ seen'[a] \in 0 .. MaxPassword
        /\ number'[a] \in 0 .. MaxCount
    <3>1. 0 \in 0 .. MaxPassword /\ 0 \in 0 .. MaxCount
      BY BoundsAssumption
    <3> QED BY <1>1, <3>1, Zenon
  <2>3. /\ weak'[a] \in BOOLEAN /\ old'[a] \in SUBSET Link /\ mine'[a] \in Link \cup {NoLink}
        /\ result'[a] \in {"none", "accepted"}
    BY <1>1, Zenon
  <2>4. pc'[a] \notin {"verify", "succeed", "factor"} /\ op'[a] # "reset"
    BY <1>1
  <2> QED BY ONLY <2>1, <2>2, <2>3, <2>4 DEF AttemptOK
<1>3. Place(a)'
  BY <1>1 DEF Place
<1>4. Carries(a)'
  <2>1. op'[a] \notin SigningIn /\ op'[a] \notin {"code", "password"}
    BY <1>1 DEF SigningIn
  <2>2. guess'[a] = 0 /\ old'[a] = {} /\ number'[a] = 0 /\ seen'[a] = 0
    BY <1>1
  <2> QED BY ONLY <2>1, <2>2 DEF Carries
<1> QED BY <1>2, <1>3, <1>4 DEF Held

LEMMA AttemptsHold ==
  ASSUME StoreOK, Fields, NEW a \in Attempt, Held(a), StepOf(a)
  PROVE  Held(a)'
<1>a. ASSUME NEW how \in {"none", "accepted"}, Answer(a, how) PROVE Held(a)'
  BY <1>a, AnsweredHolds
<1>1. CASE \/ Lock(a) \/ OpenSession(a) \/ (\E t \in Link : InsertLink(a, t))
           \/ OutOfBounds(a) \/ Cancel(a)
  <2>1. \E how \in {"none", "accepted"} : Answer(a, how)
    BY <1>1 DEF Lock, OpenSession, InsertLink, OutOfBounds, Cancel
  <2> QED BY <1>a, <2>1
<1> USE NamesAssumption, BoundsAssumption
        DEF Held, AttemptOK, Place, Carries, Labels, Ops, Passwords, SigningIn, Guessing,
            Setting
<1>2. CASE Arrive(a)
  BY <1>2, <1>a DEF Arrive, Start, Goto, record, store, Fields, StoreOK
<1>3. CASE ReadRecord(a)
  BY <1>3, <1>a DEF ReadRecord, Refuses, Goto, record, store, history, Fields, StoreOK
<1>4. CASE Reserve(a)
  BY <1>4, <1>a DEF Reserve, Counted, Exhausted, Goto, Fields, StoreOK
<1>5. CASE ReserveNothing(a)
  BY <1>5, <1>a DEF ReserveNothing, Goto, record, store, history, Fields, StoreOK
<1>6. CASE Verify(a)
  BY <1>6, <1>a DEF Verify, Wrong, LocksAt, Goto, record, store, history, Fields, StoreOK
<1>7. CASE Succeed(a)
  BY <1>7, <1>a DEF Succeed, Unlocked, Goto, Fields, StoreOK
<1>8. CASE AskFactor(a)
  BY <1>8, <1>a DEF AskFactor, Goto, record, history, Fields, StoreOK
<1>9. CASE Clear(a)
  BY <1>9, <1>a DEF Clear, Goto, Fields, StoreOK
<1>10. CASE CheckCurrent(a)
  BY <1>10, <1>a DEF CheckCurrent, Goto, record, store, history, Fields, StoreOK
<1>11. CASE StorePassword(a)
  BY <1>11, <1>a
     DEF StorePassword, Unlocked, Chosen, UnderWay, Goto, record, store, Fields, StoreOK
<1>12. CASE Revoke(a)
  BY <1>12, <1>a DEF Revoke, SessionsLeft, Goto, record, Fields, StoreOK
<1>13. CASE SetStatus(a)
  BY <1>13, <1>a DEF SetStatus, Enabled, Goto, Fields, StoreOK
<1>14. CASE FindUnused(a)
  BY <1>14, <1>a DEF FindUnused, Issuing, Goto, record, store, Fields, StoreOK
<1>15. CASE ExpireOld(a)
  BY <1>15, <1>a DEF ExpireOld, Spent, Goto, record, history, Fields, StoreOK
<1>16. CASE CheckLink(a)
  BY <1>16, <1>a DEF CheckLink, Goto, record, store, history, Fields, StoreOK
<1>17. CASE Consume(a)
  BY <1>17, <1>a DEF Consume, StillUnused, Goto, record, store, Fields, StoreOK
<1> QED BY <1>1, <1>2, <1>3, <1>4, <1>5, <1>6, <1>7, <1>8, <1>9, <1>10, <1>11, <1>12, <1>13,
         <1>14, <1>15, <1>16, <1>17 DEF StepOf, Serve

\* Who comes changes nothing yet.
LEMMA ArrivalLeaves ==
  ASSUME NEW a \in Attempt, Arrive(a)
  PROVE  /\ UNCHANGED <<store, checked, burst, retired, revived, used, crowd, cancels>>
         /\ \E how \in {"no", "inactive", "locked", "old"} : late' = [late EXCEPT ![a] = how]
<1>1. ASSUME NEW what, NEW p, NEW t, NEW label, Start(a, what, p, t, label)
      PROVE  /\ UNCHANGED <<store, checked, burst, retired, revived, used, crowd, cancels>>
             /\ \E how \in {"no", "inactive", "locked", "old"} : late' = [late EXCEPT ![a] = how]
  BY <1>1 DEF Start
<1> QED BY <1>1 DEF Arrive

LEMMA StoreStays ==
  ASSUME StoreOK, Fields, NEW a \in Attempt, Held(a), StepOf(a)
  PROVE  StoreOK'
<1> USE BoundsAssumption
        DEF StoreOK, Held, AttemptOK, Place, Carries, Passwords, SigningIn, Guessing, Setting
<1>1. CASE Arrive(a)
  <2>1. /\ UNCHANGED <<store, checked, burst, retired, revived, used, crowd, cancels>>
        /\ \E how \in {"no", "inactive", "locked", "old"} : late' = [late EXCEPT ![a] = how]
    BY <1>1, ArrivalLeaves
  <2> QED BY <2>1 DEF record, store
<1>2. CASE \/ ReadRecord(a) \/ ReserveNothing(a) \/ Verify(a) \/ CheckCurrent(a)
           \/ CheckLink(a) \/ OutOfBounds(a)
  BY <1>2
     DEF ReadRecord, ReserveNothing, Verify, CheckCurrent, CheckLink, OutOfBounds, record,
         store, history
<1>3. CASE Reserve(a)
  BY <1>3 DEF Reserve, Counted, Exhausted
<1>4. CASE Lock(a)
  <2>1. locked' \in BOOLEAN
    BY <1>4 DEF Lock
  <2>2. count' \in 0 .. MaxCount /\ checked' \in Nat
    BY <1>4 DEF Lock
  <2> QED BY <1>4, <2>1, <2>2 DEF Lock
<1>5. CASE Succeed(a)
  <2>1. locked' \in BOOLEAN /\ outdated' \in BOOLEAN
    BY <1>5 DEF Succeed
  <2>2. count' \in 0 .. MaxCount /\ checked' \in Nat /\ burst' \in Nat
    BY <1>5 DEF Succeed
  <2>3. password' \in Passwords
    BY <1>5 DEF Succeed
  <2>4. late' \in [Attempt -> {"no", "inactive", "locked", "old"}]
    BY <1>5 DEF Succeed, Unlocked
  <2> QED BY <1>5, <2>1, <2>2, <2>3, <2>4 DEF Succeed
<1>6. CASE AskFactor(a) \/ OpenSession(a)
  <2>1. UNCHANGED <<record, link, checked, burst, retired, used, crowd, late, cancels>>
    BY <1>6 DEF AskFactor, OpenSession, history
  <2>2. challenge' \subseteq Passwords /\ open' \subseteq Passwords /\ revived' \subseteq Passwords
    BY <1>6 DEF AskFactor, OpenSession, history
  <2> QED BY <2>1, <2>2 DEF record
<1>7. CASE Clear(a)
  BY <1>7 DEF Clear
<1>8. CASE StorePassword(a)
  <2>1. locked' \in BOOLEAN /\ outdated' \in BOOLEAN
    BY <1>8 DEF StorePassword
  <2>2. count' \in 0 .. MaxCount /\ checked' \in Nat /\ burst' \in Nat
    BY <1>8 DEF StorePassword
  <2>3. password' \in Passwords /\ newest' \in Passwords
    BY <1>8 DEF StorePassword, Chosen
  <2>5. revived' \in {revived, revived \cup {password}}
    BY <1>8 DEF StorePassword
  <2>4. late' \in [Attempt -> {"no", "inactive", "locked", "old"}]
    BY <1>8 DEF StorePassword, Unlocked
  <2> QED BY <1>8, <2>1, <2>2, <2>3, <2>4, <2>5 DEF StorePassword
<1>9. CASE Revoke(a)
  <2>1. open' \subseteq Passwords
    BY <1>9 DEF Revoke, SessionsLeft
  <2>2. retired' \in {retired, retired \cup ({seen[a]} \ {0})}
    BY <1>9 DEF Revoke
  <2>3. {seen[a]} \ {0} \subseteq Passwords
    OBVIOUS
  <2> QED BY <1>9, <2>1, <2>2, <2>3 DEF Revoke, record
<1>10. CASE SetStatus(a)
  BY <1>10 DEF SetStatus, Enabled
<1>11. CASE FindUnused(a)
  <2>1. crowd' \in BOOLEAN
    BY <1>11 DEF FindUnused
  <2> QED BY <1>11, <2>1 DEF FindUnused, store, record
<1>12. CASE ExpireOld(a)
  BY <1>12 DEF ExpireOld, Spent, record, history
<1>13. CASE Cancel(a)
  BY <1>13 DEF Cancel, record, store
<1>14. CASE \E t \in Link : InsertLink(a, t)
  BY <1>14 DEF InsertLink, record, history
<1>15. CASE Consume(a)
  <2>1. mine[a] \in Link
    BY <1>15 DEF Consume
  <2>2. link' \in [Link -> {"none", "unused", "used", "expired"}]
    BY <1>15, <2>1 DEF Consume
  <2>3. used' \in [Link -> Nat]
    BY <1>15, <2>1 DEF Consume
  <2> QED BY <1>15, <2>2, <2>3 DEF Consume, record
<1> QED BY <1>1, <1>2, <1>3, <1>4, <1>5, <1>6, <1>7, <1>8, <1>9, <1>10, <1>11, <1>12, <1>13,
         <1>14, <1>15 DEF StepOf, Serve

\* What moves no attempt.
LEMMA WorldStays ==
  ASSUME Typed, World
  PROVE  Typed' /\ Fields /\ StoreOK /\ UNCHANGED attempt
<1>1. Fields /\ StoreOK /\ \A a \in Attempt : AttemptOK(a)
  BY Parts DEF Typed
<1>2. UNCHANGED attempt
  BY DEF World, LockEnds, ChallengeEnds, LinkExpires
<1>3. Fields' /\ \A a \in Attempt : AttemptOK(a)' /\ Place(a)' /\ Carries(a)'
  BY <1>1, <1>2 DEF attempt, Fields, AttemptOK, Place, Carries, Typed
<1>4. StoreOK'
  <2>1. CASE LockEnds
    BY <1>1, <2>1 DEF LockEnds, Unlocked, StoreOK
  <2>2. CASE \E p \in Passwords : ChallengeEnds(p)
    BY <1>1, <2>2 DEF ChallengeEnds, StoreOK, record, history
  <2>3. CASE \E t \in Link : LinkExpires(t)
    BY <1>1, <2>3 DEF LinkExpires, StoreOK, record, history
  <2> QED BY <2>1, <2>2, <2>3 DEF World
<1>5. TypeOK'
  BY <1>3, <1>4, Whole
<1> QED BY <1>1, <1>2, <1>3, <1>5 DEF Typed

\* What the lemmas about one step may use.
LEMMA Stepping ==
  ASSUME Typed, NEW a \in Attempt, StepOf(a)
  PROVE  /\ StoreOK /\ Fields /\ \A b \in Attempt : Held(b)
         /\ Moved(a) /\ Held(a)' /\ StoreOK' /\ Typed'
<1>1. StoreOK /\ Fields /\ \A b \in Attempt : Held(b)
  BY Parts DEF Typed, Held
<1>2. Moved(a)
  BY <1>1, AttemptsMove
<1>3. Held(a)'
  BY <1>1, AttemptsHold
<1>4. StoreOK'
  BY <1>1, StoreStays
<1>5. ASSUME NEW b \in Attempt \ {a} PROVE Held(b)'
  BY <1>1, <1>2, <1>5 DEF Moved, Same, Held, AttemptOK, Place, Carries
<1>6. Fields' /\ \A b \in Attempt : AttemptOK(b)' /\ Place(b)' /\ Carries(b)'
  BY <1>2, <1>3, <1>5 DEF Moved, Held
<1>7. TypeOK'
  BY <1>4, <1>6, Whole
<1> QED BY <1>1, <1>2, <1>3, <1>4, <1>6, <1>7 DEF Typed

-----------------------------------------------------------------------------
(* The promises, one after the other.                                      *)

LEMMA GuessesStay ==
  ASSUME StoreOK, Guesses, NEW a \in Attempt, StepOf(a)
  PROVE  Guesses'
<1> USE BoundsAssumption DEF Guesses, StoreOK
<1>1. CASE Reserve(a)
  BY <1>1 DEF Reserve, Counted, Exhausted
<1>2. CASE Lock(a) \/ Clear(a)
  BY <1>2 DEF Lock, Clear
<1>3. CASE Succeed(a)
  BY <1>3 DEF Succeed
<1>4. CASE StorePassword(a)
  BY <1>4 DEF StorePassword, record, store
<1>5. CASE \/ Arrive(a) \/ ReadRecord(a) \/ ReserveNothing(a) \/ Verify(a) \/ AskFactor(a)
           \/ OpenSession(a) \/ CheckCurrent(a) \/ Revoke(a)
  BY <1>5
     DEF Arrive, ReadRecord, ReserveNothing, Verify, AskFactor, OpenSession, CheckCurrent,
         Revoke, Start, record, store, history
<1>6. CASE \/ SetStatus(a) \/ FindUnused(a) \/ ExpireOld(a)
           \/ (\E t \in Link : InsertLink(a, t)) \/ CheckLink(a) \/ Consume(a)
           \/ OutOfBounds(a) \/ Cancel(a)
  BY <1>6
     DEF SetStatus, FindUnused, ExpireOld, InsertLink, CheckLink, Consume, OutOfBounds, Cancel,
         record, store, history
<1> QED BY <1>1, <1>2, <1>3, <1>4, <1>5, <1>6 DEF StepOf, Serve

LEMMA LinksStay ==
  ASSUME StoreOK, UsedOnce, NEW a \in Attempt, Held(a), StepOf(a)
  PROVE  UsedOnce'
<1> USE DEF UsedOnce, StoreOK, Held, AttemptOK, Place
<1>1. CASE ExpireOld(a)
  BY <1>1 DEF ExpireOld, Spent, record, history
<1>2. CASE \E t \in Link : InsertLink(a, t)
  BY <1>2 DEF InsertLink, record, history
<1>3. CASE Consume(a)
  BY <1>3 DEF Consume, StillUnused, record, store
<1>4. CASE \/ Arrive(a) \/ ReadRecord(a) \/ Reserve(a) \/ ReserveNothing(a) \/ Verify(a)
           \/ Lock(a) \/ Succeed(a) \/ AskFactor(a) \/ Clear(a)
  BY <1>4
     DEF Arrive, ReadRecord, Reserve, ReserveNothing, Verify, Lock, Succeed, AskFactor, Clear,
         Start, record, store, history
<1>5. CASE \/ OpenSession(a) \/ CheckCurrent(a) \/ StorePassword(a) \/ Revoke(a)
           \/ SetStatus(a) \/ FindUnused(a) \/ CheckLink(a) \/ OutOfBounds(a) \/ Cancel(a)
  BY <1>5
     DEF OpenSession, CheckCurrent, StorePassword, Revoke, SetStatus, FindUnused, CheckLink,
         OutOfBounds, Cancel, record, history, store
<1> QED BY <1>1, <1>2, <1>3, <1>4, <1>5 DEF StepOf, Serve

LEMMA TurnedAwayStay ==
  ASSUME StoreOK, Fields, NEW a \in Attempt, Held(a), Moved(a), StepOf(a),
         NEW b \in Attempt, TurnedAway(b)
  PROVE  TurnedAway(b)'
<1>a. ASSUME NEW how, Answer(a, how) PROVE pc'[a] = "idle" /\ result'[a] = how
  BY <1>a, Answering
<1> USE DEF TurnedAway, Held, Place, StoreOK, Moved, Same, SigningIn, Guessing, Setting
<1>1. CASE Arrive(a)
  BY <1>1, <1>a DEF Arrive, Start, Goto, record, store, Fields
<1>2. CASE ReadRecord(a)
  BY <1>2, <1>a DEF ReadRecord, Refuses, Goto, record, store, history, Fields
<1>3. CASE Reserve(a) \/ ReserveNothing(a)
  BY <1>3, <1>a DEF Reserve, ReserveNothing, Goto, record, store, history, Fields
<1>4. CASE Verify(a)
  BY <1>4, <1>a DEF Verify, Wrong, Goto, record, store, history, Fields
<1>5. CASE Lock(a) \/ Clear(a)
  BY <1>5, <1>a DEF Lock, Clear, Goto, Fields
<1>6. CASE Succeed(a)
  BY <1>6, <1>a DEF Succeed, Unlocked, Goto, Fields
<1>7. CASE AskFactor(a) \/ OpenSession(a)
  BY <1>7, <1>a DEF AskFactor, OpenSession, Goto, record, history, Fields
<1>8. CASE CheckCurrent(a)
  BY <1>8, <1>a DEF CheckCurrent, Goto, record, store, history, Fields
<1>9. CASE StorePassword(a)
  BY <1>9, <1>a DEF StorePassword, Unlocked, Goto, record, store, Fields
<1>10. CASE Revoke(a)
  BY <1>10, <1>a DEF Revoke, Goto, record, Fields
<1>11. CASE SetStatus(a)
  BY <1>11, <1>a DEF SetStatus, Enabled, Goto, Fields
<1>12. CASE FindUnused(a) \/ ExpireOld(a)
  BY <1>12, <1>a DEF FindUnused, ExpireOld, Goto, record, store, history, Fields
<1>13. CASE (\E t \in Link : InsertLink(a, t)) \/ CheckLink(a) \/ Consume(a)
  BY <1>13, <1>a DEF InsertLink, CheckLink, Consume, record, history, Goto, store, Fields
<1>14. CASE OutOfBounds(a) \/ Cancel(a)
  BY <1>14, <1>a DEF OutOfBounds, Cancel, record, store, history, Fields
<1> QED BY <1>1, <1>2, <1>3, <1>4, <1>5, <1>6, <1>7, <1>8, <1>9, <1>10, <1>11, <1>12, <1>13,
         <1>14 DEF StepOf, Serve

LEMMA OneAtATimeStays ==
  ASSUME StoreOK, Fields, NEW a \in Attempt, \A b \in Attempt : Held(b), Moved(a), StepOf(a),
         OneAtATime
  PROVE  OneAtATime'
<1>a. ASSUME NEW how, Answer(a, how) PROVE pc'[a] = "idle"
  BY <1>a, Answering
<1>b. \A b \in Attempt \ {a} : (Issuing(b)' <=> Issuing(b)) /\ pc'[b] = pc[b] /\ old'[b] = old[b]
  BY DEF Moved, Same, Issuing
\* A step that adds no link, and leaves the attempt outside the issue of one.
<1>c. ASSUME pc'[a] \notin {"expire", "insert"}, crowd' = crowd,
             \A t \in Link : link'[t] = "unused" => link[t] = "unused"
      PROVE  OneAtATime'
  BY <1>b, <1>c DEF OneAtATime, Issuing, Held, Place
<1> USE DEF Issuing, Held, Place, StoreOK
<1>1. CASE FindUnused(a)
  <2>1. CASE status = "deleted"
    BY <1>1, <2>1, <1>a, <1>c DEF FindUnused, store
  <2>2. CASE status # "deleted"
    <3>1. /\ old' = [old EXCEPT ![a] = {t \in Link : link[t] = "unused"}] /\ link' = link
          /\ crowd' = (crowd \/ \E b \in Attempt : Issuing(b)) /\ pc'[a] = "expire"
      BY <1>1, <2>2 DEF FindUnused, Goto, Fields, store
    <3>2. old'[a] = {t \in Link : link[t] = "unused"}
      BY <3>1 DEF Fields
    <3>3. ~crowd' => ~crowd /\ \A b \in Attempt : ~Issuing(b)
      BY <3>1
    <3> QED BY <1>b, <3>1, <3>2, <3>3 DEF OneAtATime
  <2> QED BY <2>1, <2>2
<1>2. CASE ExpireOld(a)
  <2>1. CASE \E t \in old[a] : /\ link' = Spent(t)
                              /\ old' = [old EXCEPT ![a] = old[a] \ {t}]
                              /\ UNCHANGED pc
    <3>1. PICK t \in old[a] : link' = Spent(t) /\ old' = [old EXCEPT ![a] = old[a] \ {t}] /\ UNCHANGED pc
      BY <2>1
    <3>2. t \in Link /\ old'[a] = old[a] \ {t} /\ pc[a] = "expire" /\ pc'[a] = "expire"
      BY <1>2, <3>1 DEF ExpireOld, Fields, AttemptOK
    <3>3. link'[t] # "unused" /\ \A u \in Link \ {t} : link'[u] = link[u]
      BY <3>1, <3>2 DEF Spent
    <3>4. crowd' = crowd /\ op' = op
      BY <1>2 DEF ExpireOld, history
    <3> QED BY <1>b, <3>1, <3>2, <3>3, <3>4 DEF OneAtATime
  <2>2. CASE old[a] = {} /\ Goto(a, "insert") /\ UNCHANGED <<link, old>>
    <3>1. pc[a] = "expire" /\ pc'[a] = "insert" /\ crowd' = crowd /\ op' = op
      BY <1>2, <2>2 DEF ExpireOld, Goto, Fields, history
    <3> QED BY <1>b, <2>2, <3>1 DEF OneAtATime
  <2> QED BY <1>2, <2>1, <2>2 DEF ExpireOld
<1>3. CASE \E t \in Link : InsertLink(a, t)
  <2>1. PICK t \in Link : InsertLink(a, t)
    BY <1>3
  <2>3. \A b \in Attempt : pc[b] \in {"expire", "insert"} => Issuing(b)
    OBVIOUS
  <2>2. /\ pc[a] = "insert" /\ pc'[a] = "idle" /\ crowd' = crowd
        /\ link' = [link EXCEPT ![t] = "unused"]
    BY <1>a, <2>1 DEF InsertLink, history
  <2> QED BY <1>b, <2>2, <2>3 DEF OneAtATime
<1>4. CASE Arrive(a)
  BY <1>4, <1>a, <1>c DEF Arrive, Start, SigningIn, Goto, store, Fields
<1>5. CASE ReadRecord(a)
  BY <1>5, <1>a, <1>c DEF ReadRecord, SigningIn, Goto, store, history, Fields
<1>6. CASE Reserve(a) \/ ReserveNothing(a)
  BY <1>6, <1>a, <1>c DEF Reserve, ReserveNothing, Goto, store, history, Fields
<1>7. CASE Verify(a) \/ Lock(a)
  BY <1>7, <1>a, <1>c DEF Verify, Lock, Wrong, Goto, store, history, Fields
<1>8. CASE Succeed(a) \/ AskFactor(a)
  BY <1>8, <1>a, <1>c DEF Succeed, AskFactor, Goto, history, Fields
<1>9. CASE Clear(a) \/ OpenSession(a) \/ CheckCurrent(a)
  BY <1>9, <1>a, <1>c DEF Clear, OpenSession, CheckCurrent, Goto, history, store, Fields
<1>10. CASE StorePassword(a) \/ Revoke(a) \/ SetStatus(a)
  BY <1>10, <1>a, <1>c DEF StorePassword, Revoke, SetStatus, SigningIn, Goto, store, Fields
<1>11. CASE CheckLink(a)
  BY <1>11, <1>a, <1>c DEF CheckLink, Goto, store, history, Fields
<1>12. CASE Consume(a)
  BY <1>12, <1>a, <1>c DEF Consume, StillUnused, Goto, store, Fields
<1>13. CASE OutOfBounds(a) \/ Cancel(a)
  BY <1>13, <1>a, <1>c DEF OutOfBounds, Cancel, store, history, Fields
<1> QED BY <1>1, <1>2, <1>3, <1>4, <1>5, <1>6, <1>7, <1>8, <1>9, <1>10, <1>11, <1>12, <1>13 DEF StepOf, Serve

-----------------------------------------------------------------------------
(* Replaced passwords.                                                     *)

LEMMA NoneIsGone ==
  ASSUME StoreOK
  PROVE  0 \notin Gone
BY DEF StoreOK, Gone, Replaced, Passwords

\* Every step but the one that stores a new password leaves no more of them.
LEMMA GoneShrinks ==
  ASSUME NEW a \in Attempt, Moved(a), revived' = revived,
         Replacing(a)' => Replacing(a) /\ seen'[a] = seen[a],
         \/ retired' = retired
         \/ Replacing(a) /\ retired' = retired \cup ({seen[a]} \ {0})
  PROVE  Replaced' \subseteq Replaced /\ Gone' \subseteq Gone
<1>1. ASSUME NEW b \in Attempt, Replacing(b)' PROVE Replacing(b) /\ seen'[b] = seen[b]
  BY <1>1 DEF Moved, Same, Replacing
<1>2. {seen'[b] : b \in {c \in Attempt : Replacing(c)'}} \subseteq {seen[b] : b \in {c \in Attempt : Replacing(c)}}
  BY <1>1
<1>3. retired' \subseteq Replaced
  BY DEF Replaced
<1> QED BY <1>2, <1>3 DEF Replaced, Gone

LEMMA FewerGone ==
  ASSUME StoreOK, Fields, NEW a \in Attempt, Held(a), Moved(a), StepOf(a), ~StorePassword(a)
  PROVE  /\ newest' = newest /\ revived' = revived /\ retired \subseteq retired'
         /\ Replaced' \subseteq Replaced /\ Gone' \subseteq Gone
<1>a. ASSUME NEW how, Answer(a, how) PROVE pc'[a] = "idle"
  BY <1>a, Answering
<1>1. CASE Revoke(a)
  <2>1. pc'[a] \in {"idle", "status"} /\ pc[a] = "revoke"
    BY <1>1, <1>a DEF Revoke, Goto, Fields
  <2>2. revived' = revived /\ newest' = newest
    BY <1>1 DEF Revoke, record
  <2>3. \/ retired' = retired
        \/ Replacing(a) /\ retired' = retired \cup ({seen[a]} \ {0})
    BY <1>1 DEF Revoke, Replacing, Setting
  <2>4. ~Replacing(a)'
    BY <2>1 DEF Replacing
  <2> QED BY <2>2, <2>3, <2>4, GoneShrinks
<1>2. CASE ~Revoke(a)
  <2>1. retired' = retired /\ revived' = revived /\ newest' = newest
    <3>1. CASE Arrive(a)
      BY <3>1 DEF Arrive, Start, record, store
    <3>2. CASE \/ ReadRecord(a) \/ Reserve(a) \/ ReserveNothing(a) \/ Verify(a) \/ Lock(a)
               \/ Succeed(a) \/ AskFactor(a) \/ Clear(a) \/ OpenSession(a)
      BY <3>2
         DEF ReadRecord, Reserve, ReserveNothing, Verify, Lock, Succeed, AskFactor, Clear,
             OpenSession, record, store, history
    <3>3. CASE \/ CheckCurrent(a) \/ SetStatus(a) \/ FindUnused(a) \/ ExpireOld(a)
               \/ (\E t \in Link : InsertLink(a, t)) \/ CheckLink(a) \/ Consume(a)
               \/ OutOfBounds(a) \/ Cancel(a)
      BY <3>3
         DEF CheckCurrent, SetStatus, FindUnused, ExpireOld, InsertLink, CheckLink, Consume,
             OutOfBounds, Cancel, record, store, history
    <3> QED BY <1>2, <3>1, <3>2, <3>3 DEF StepOf, Serve
  <2>2. pc'[a] = "revoke" => op'[a] \in {"disable", "delete"}
    <3>1. CASE Arrive(a)
      BY <3>1, <1>a DEF Arrive, Start, Goto, Fields, Held, Place, Guessing, SigningIn
    <3>2. CASE ReadRecord(a)
      BY <3>2, <1>a DEF ReadRecord, Goto, Fields, Held, Place, Guessing, SigningIn
    <3>3. CASE Reserve(a)
      BY <3>3, <1>a DEF Reserve, Goto, Fields, Held, Place, Guessing, SigningIn
    <3>4. CASE ReserveNothing(a) \/ Verify(a) \/ Lock(a)
      BY <3>4, <1>a
         DEF ReserveNothing, Verify, Lock, Goto, Wrong, Fields, Held, Place, Guessing, SigningIn
    <3>5. CASE Succeed(a) \/ AskFactor(a) \/ Clear(a)
      BY <3>5, <1>a
         DEF Succeed, AskFactor, Clear, Goto, Fields, Held, Place, Guessing, SigningIn
    <3>6. CASE OpenSession(a) \/ CheckCurrent(a)
      BY <3>6, <1>a
         DEF OpenSession, CheckCurrent, Goto, Fields, Held, Place, Guessing, SigningIn
    <3>7. CASE SetStatus(a)
      BY <3>7, <1>a DEF SetStatus, Goto, Fields, Held, Place, Guessing, SigningIn
    <3>8. CASE FindUnused(a) \/ (\E t \in Link : InsertLink(a, t))
      BY <3>8, <1>a DEF FindUnused, InsertLink, Goto, Fields, Held, Place, Guessing, SigningIn
    <3>9. CASE ExpireOld(a)
      BY <3>9, <1>a DEF ExpireOld, Goto, Fields, Held, Place, Guessing, SigningIn
    <3>10. CASE CheckLink(a) \/ Consume(a) \/ OutOfBounds(a) \/ Cancel(a)
      BY <3>10, <1>a
         DEF CheckLink, Consume, OutOfBounds, Cancel, Goto, Fields, Held, Place, Guessing,
             SigningIn
    <3> QED BY <1>2, <3>1, <3>2, <3>3, <3>4, <3>5, <3>6, <3>7, <3>8, <3>9, <3>10 DEF StepOf, Serve
  <2>3. ~Replacing(a)'
    BY <2>2 DEF Replacing, Setting
  <2> QED BY <2>1, <2>3, GoneShrinks
<1> QED BY <1>1, <1>2

LEMMA PasswordsStay ==
  ASSUME StoreOK, StoreOK', NEW a \in Attempt, Held(a), Moved(a), StepOf(a), ~StorePassword(a),
         PasswordsKept, Clean(a),
         newest' = newest, revived' = revived, retired \subseteq retired',
         Replaced' \subseteq Replaced, Gone' \subseteq Gone
  PROVE  PasswordsKept'
<1>1. /\ \A p \in Replaced' : p < newest'
      /\ \A p \in Gone' : p \in Gone
  BY DEF PasswordsKept
<1>2. retired \subseteq Replaced /\ retired' \subseteq Replaced /\ retired \ revived \subseteq Gone
  BY DEF Replaced, Gone
<1>3. newest \notin Replaced /\ newest \in Nat
  BY DEF PasswordsKept, StoreOK, Passwords
<1> USE DEF PasswordsKept
<1>4. ASSUME UNCHANGED <<password, challenge, open, retired>> PROVE PasswordsKept'
  BY <1>1, <1>4
<1>5. CASE Succeed(a)
  <2>1. password' \in {password, guess[a]} /\ UNCHANGED <<challenge, open, retired>>
    BY <1>5 DEF Succeed
  <2>2. guess[a] = seen[a] /\ seen[a] <= newest /\ seen[a] \notin Gone
    BY <1>5 DEF Succeed, Held, Place, Carries, Clean, SigningIn
  <2> QED BY <1>1, <2>1, <2>2
<1>6. CASE AskFactor(a)
  <2>1. challenge' \subseteq challenge \cup {guess[a]} /\ UNCHANGED <<password, open, retired>>
    BY <1>6 DEF AskFactor, record, history
  <2>2. guess[a] \notin Gone
    BY <1>6 DEF AskFactor, Held, Place, Carries, Clean, SigningIn
  <2> QED BY <1>1, <2>1, <2>2
<1>7. CASE OpenSession(a)
  <2>1. /\ open' = open \cup {IF op[a] \in {"password", "code"} THEN guess[a] ELSE seen[a]}
        /\ UNCHANGED <<password, challenge, retired>>
    BY <1>7 DEF OpenSession, record, history
  <2>2. (IF op[a] \in {"password", "code"} THEN guess[a] ELSE seen[a]) \notin Gone
    BY <1>7 DEF OpenSession, Held, Place, Carries, Clean, SigningIn
  <2> QED BY <1>1, <1>2, <2>1, <2>2
<1>8. CASE Revoke(a)
  <2>1. open' \subseteq {newest} /\ UNCHANGED <<password, challenge>>
    BY <1>8 DEF Revoke, SessionsLeft, record
  <2>2. open' \cap retired' = {}
    BY <1>2, <1>3, <2>1
  <2> QED BY <1>1, <2>1, <2>2
<1>9. CASE Arrive(a)
  BY <1>9, <1>4 DEF Arrive, Start, record, store
<1>10. CASE \/ ReadRecord(a) \/ Reserve(a) \/ ReserveNothing(a) \/ Verify(a) \/ Lock(a)
            \/ Clear(a) \/ CheckCurrent(a) \/ SetStatus(a)
  BY <1>10, <1>4
     DEF ReadRecord, Reserve, ReserveNothing, Verify, Lock, Clear, CheckCurrent, SetStatus,
         record, store, history
<1>11. CASE \/ FindUnused(a) \/ ExpireOld(a) \/ (\E t \in Link : InsertLink(a, t))
            \/ CheckLink(a) \/ Consume(a) \/ OutOfBounds(a) \/ Cancel(a)
  BY <1>11, <1>4
     DEF FindUnused, ExpireOld, InsertLink, CheckLink, Consume, OutOfBounds, Cancel, record,
         store, history
<1> QED BY <1>5, <1>6, <1>7, <1>8, <1>9, <1>10, <1>11 DEF StepOf, Serve

LEMMA CleanStays ==
  ASSUME StoreOK, Fields, NEW a \in Attempt, Held(a), Held(a)', Moved(a), StepOf(a), ~StorePassword(a),
         PasswordsKept, Clean(a), newest' = newest, Gone' \subseteq Gone
  PROVE  Clean(a)'
<1>a. ASSUME NEW how, Answer(a, how) PROVE Clean(a)'
  <2>1. op'[a] = "none"
    BY <1>a, Answering
  <2> QED BY <2>1 DEF Clean, SigningIn
\* Whoever goes on keeps what it presented and has read.
<1>b. ASSUME pc[a] # "read", UNCHANGED <<op, guess, seen>> PROVE Clean(a)'
  BY <1>b DEF Clean
<1>1. CASE Arrive(a)
  <2>1. pc'[a] \in {"read", "status", "revoke", "find", "token"}
    BY <1>1 DEF Arrive, Start, Goto, Fields
  <2>2. pc'[a] # "read" => op'[a] \notin SigningIn
    BY <2>1 DEF Held, Place, SigningIn, Setting
  <2>3. op'[a] = "code" => guess'[a] \in challenge
    BY <1>1 DEF Arrive, Start, Fields
  <2> QED BY <2>2, <2>3 DEF Clean, PasswordsKept, SigningIn
<1>2. CASE ReadRecord(a)
  <2>1. CASE Refuses(op[a])
    BY <1>2, <1>a, <2>1 DEF ReadRecord
  <2>2. CASE ~Refuses(op[a])
    <3>1. seen'[a] = password /\ UNCHANGED <<op, guess>>
      BY <1>2, <2>2 DEF ReadRecord, Fields
    <3> QED BY <3>1 DEF Clean, PasswordsKept
  <2> QED BY <2>1, <2>2
<1>3. CASE CheckCurrent(a)
  <2>1. CASE UNCHANGED <<op, guess, seen>>
    BY <1>3, <2>1 DEF CheckCurrent, Clean, SigningIn
  <2> QED BY <1>3, <1>a, <2>1 DEF CheckCurrent
<1>4. CASE \/ Reserve(a) \/ ReserveNothing(a) \/ Verify(a) \/ Lock(a) \/ Succeed(a)
           \/ AskFactor(a)
  BY <1>4, <1>a, <1>b DEF Reserve, ReserveNothing, Verify, Lock, Succeed, AskFactor, Wrong
<1>5. CASE \/ Clear(a) \/ OpenSession(a) \/ Revoke(a) \/ SetStatus(a) \/ FindUnused(a)
           \/ ExpireOld(a)
  BY <1>5, <1>a, <1>b DEF Clear, OpenSession, Revoke, SetStatus, FindUnused, ExpireOld, Wrong
<1>6. CASE \/ (\E t \in Link : InsertLink(a, t)) \/ CheckLink(a) \/ Consume(a)
           \/ OutOfBounds(a) \/ Cancel(a)
  BY <1>6, <1>a, <1>b DEF InsertLink, CheckLink, Consume, OutOfBounds, Cancel, Wrong
<1> QED BY <1>1, <1>2, <1>3, <1>4, <1>5, <1>6 DEF StepOf, Serve

LEMMA BarredStay ==
  ASSUME StoreOK, Fields, NEW a \in Attempt, Held(a), Moved(a), StepOf(a), ~StorePassword(a),
         revived' = revived, retired \subseteq retired', Clean(a), NEW b \in Attempt, Barred(b)
  PROVE  Barred(b)'
<1>a. ASSUME NEW how, Answer(a, how) PROVE pc'[a] = "idle" /\ result'[a] = how
  BY <1>a, Answering
<1>b. retired \ revived \subseteq Gone
  BY DEF Gone, Replaced
<1> USE DEF Barred, Held, Place, Moved, Same, StoreOK, SigningIn, Guessing, Setting
<1>1. CASE Arrive(a)
  BY <1>1, <1>a DEF Arrive, Start, Goto, record, store, Fields
<1>2. CASE ReadRecord(a)
  BY <1>2, <1>a DEF ReadRecord, Goto, record, store, history, Fields
<1>3. CASE Reserve(a)
  BY <1>3, <1>a DEF Reserve, Goto, Fields
<1>4. CASE ReserveNothing(a)
  BY <1>4, <1>a DEF ReserveNothing, Goto, record, store, history, Fields
<1>5. CASE Verify(a)
  BY <1>5, <1>a, <1>b DEF Verify, Wrong, Goto, store, history, Clean, Fields
<1>6. CASE Lock(a)
  BY <1>6, <1>a DEF Lock, Fields
<1>7. CASE Succeed(a)
  BY <1>7, <1>a DEF Succeed, Unlocked, Goto, Fields
<1>8. CASE AskFactor(a)
  BY <1>8, <1>a DEF AskFactor, Goto, record, history, Fields
<1>9. CASE Clear(a)
  BY <1>9, <1>a DEF Clear, Goto, Fields
<1>10. CASE OpenSession(a)
  BY <1>10, <1>a DEF OpenSession, record, history, Fields
<1>11. CASE CheckCurrent(a)
  BY <1>11, <1>a DEF CheckCurrent, Goto, record, store, history, Fields
<1>12. CASE Revoke(a)
  BY <1>12, <1>a DEF Revoke, Goto, record, Fields
<1>13. CASE SetStatus(a)
  BY <1>13, <1>a DEF SetStatus, Enabled, Goto, Fields
<1>14. CASE FindUnused(a)
  BY <1>14, <1>a DEF FindUnused, Goto, record, store, Fields
<1>15. CASE ExpireOld(a)
  BY <1>15, <1>a DEF ExpireOld, Goto, record, history, Fields
<1>16. CASE \E t \in Link : InsertLink(a, t)
  BY <1>16, <1>a DEF InsertLink, record, history, Fields
<1>17. CASE CheckLink(a)
  BY <1>17, <1>a DEF CheckLink, Goto, record, store, history, Fields
<1>18. CASE Consume(a)
  BY <1>18, <1>a DEF Consume, Goto, record, store, Fields
<1>19. CASE OutOfBounds(a)
  BY <1>19, <1>a DEF OutOfBounds, record, store, history, Fields
<1>20. CASE Cancel(a)
  BY <1>20, <1>a DEF Cancel, record, store, Fields
<1> QED BY <1>1, <1>2, <1>3, <1>4, <1>5, <1>6, <1>7, <1>8, <1>9, <1>10, <1>11, <1>12, <1>13,
         <1>14, <1>15, <1>16, <1>17, <1>18, <1>19, <1>20 DEF StepOf, Serve

LEMMA OutlivedWhenReplaced ==
  ASSUME StoreOK, StoreOK', Fields, NEW a \in Attempt, \A b \in Attempt : Held(b), Moved(a),
         StorePassword(a), Outlived
  PROVE  Outlived'
<1>a. ASSUME NEW how, Answer(a, how)
      PROVE  pc'[a] = "idle" /\ op'[a] = "none" /\ result'[a] = how
  BY <1>a, Answering
<1>b. /\ pc[a] = "store" /\ op[a] \in Setting /\ seen[a] = 0
      /\ retired' = retired /\ challenge' = challenge /\ open' = open
  BY DEF StorePassword, Held, Place, Carries
<1>c. retired \subseteq Replaced /\ retired \ revived \subseteq Gone
  BY DEF Replaced, Gone
<1>1. CASE status = "deleted"
  <2>1. /\ UNCHANGED <<password, newest, revived, late>>
        /\ \/ Answer(a, "none")
           \/ pc'[a] = "revoke" /\ op' = op /\ guess' = guess /\ seen' = seen /\ result' = result
    BY <1>1 DEF StorePassword, Goto, Fields
  <2>2. ASSUME NEW b \in Attempt, Replacing(b)', seen'[b] # 0
        PROVE  Replacing(b) /\ seen'[b] = seen[b]
    <3>1. b # a
      BY <1>a, <1>b, <2>1, <2>2 DEF Replacing
    <3> QED BY <2>2, <3>1 DEF Moved, Same, Replacing
  <2>3. Replaced' \subseteq Replaced
    BY <1>b, <2>2 DEF Replaced
  <2>4. Gone' \subseteq Gone
    BY <2>1, <2>3 DEF Gone
  <2>5. PasswordsKept'
    BY <1>b, <2>1, <2>3, <2>4 DEF Outlived, PasswordsKept
  <2>6. ASSUME NEW b \in Attempt PROVE Clean(b)' /\ Barred(b)'
    <3>1. CASE b = a
      BY <1>a, <1>b, <2>1, <3>1 DEF Outlived, Clean, Barred, Setting, SigningIn
    <3>2. CASE b # a
      BY <1>b, <2>1, <2>4, <3>2 DEF Outlived, Moved, Same, Clean, Barred
    <3> QED BY <3>1, <3>2
  <2> QED BY <2>5, <2>6 DEF Outlived
<1>2. CASE status # "deleted"
  <2>1. /\ newest' = newest + 1 /\ password' = newest + 1
        /\ revived' = IF UnderWay(password) THEN revived \cup {password} ELSE revived
    BY <1>2 DEF StorePassword, Chosen
  <2>2. /\ pc'[a] = "revoke" /\ op' = op /\ guess' = guess /\ result' = result
        /\ seen'[a] = password
    BY <1>2 DEF StorePassword, Goto, Fields
  <2>3. ASSUME NEW b \in Attempt PROVE late'[b] = "old" => late[b] = "old"
    BY <1>2 DEF StorePassword, Unlocked, StoreOK
  <2>4. password <= newest /\ password \in Nat /\ newest \in Nat
    BY DEF Outlived, PasswordsKept, StoreOK, Passwords
  <2>5. Replaced' \subseteq Replaced \cup {password}
    <3>1. ASSUME NEW b \in Attempt, Replacing(b)'
          PROVE  seen'[b] = password \/ (Replacing(b) /\ seen'[b] = seen[b])
      BY <2>2, <3>1 DEF Moved, Same, Replacing
    <3> QED BY <1>b, <3>1 DEF Replaced
  <2>6. Gone' \subseteq Gone \cup {password} /\ (password \in Gone' => ~UnderWay(password))
    BY <2>1, <2>5 DEF Gone
  <2>7. PasswordsKept'
    <3>1. \A p \in Replaced' : p < newest + 1
      <4>1. \A p \in Replaced : p < newest /\ p \in Nat
        BY DEF Outlived, PasswordsKept, StoreOK, Passwords, Replaced, Held, AttemptOK
      <4> QED BY <2>4, <2>5, <4>1
    <3>2. newest + 1 \notin Gone'
      BY <2>4, <3>1 DEF Gone
    <3>3. challenge \cap Gone' = {}
      BY <2>6 DEF Outlived, PasswordsKept, UnderWay
    <3>4. open \cap retired \subseteq revived'
      BY <2>1 DEF Outlived, PasswordsKept
    <3> QED BY <1>b, <2>1, <2>4, <3>1, <3>2, <3>3, <3>4 DEF PasswordsKept
  <2>8. ASSUME NEW b \in Attempt PROVE Clean(b)'
    <3>1. CASE b = a
      BY <1>b, <2>2, <3>1 DEF Clean, Setting, SigningIn
    <3>2. CASE b # a
      <4>1. pc'[b] = pc[b] /\ op'[b] = op[b] /\ guess'[b] = guess[b] /\ seen'[b] = seen[b]
        BY <3>2 DEF Moved, Same
      <4>2. op[b] = "code" => guess[b] \notin Gone'
        BY <2>6 DEF Outlived, Clean, UnderWay, SigningIn
      <4>3. op[b] \in SigningIn /\ pc[b] # "read" => seen[b] \notin Gone' /\ seen[b] <= newest + 1
        <5>1. seen[b] \in Nat
          BY DEF Held, AttemptOK
        <5> QED BY <2>4, <2>6, <5>1 DEF Outlived, Clean, UnderWay
      <4> QED BY <2>1, <4>1, <4>2, <4>3 DEF Clean
    <3> QED BY <3>1, <3>2
  <2>9. ASSUME NEW b \in Attempt PROVE Barred(b)'
    <3>1. retired' \ revived' = retired \ revived
      BY <1>b, <1>c, <2>1 DEF Outlived, PasswordsKept
    <3>2. CASE b = a
      BY <1>b, <2>3, <3>2 DEF Outlived, Barred, Setting
    <3>3. CASE b # a
      BY <2>3, <3>1, <3>3 DEF Outlived, Barred, Moved, Same
    <3> QED BY <3>2, <3>3
  <2> QED BY <2>7, <2>8, <2>9 DEF Outlived
<1> QED BY <1>1, <1>2

LEMMA OutlivedStays ==
  ASSUME Typed, NEW a \in Attempt, StepOf(a), Outlived
  PROVE  Outlived'
<1>1. /\ StoreOK /\ Fields /\ \A b \in Attempt : Held(b)
      /\ Moved(a) /\ Held(a)' /\ StoreOK'
  BY Stepping
<1>2. CASE StorePassword(a)
  BY <1>1, <1>2, OutlivedWhenReplaced
<1>3. CASE ~StorePassword(a)
  <2>1. PasswordsKept /\ \A b \in Attempt : Clean(b) /\ Barred(b)
    BY DEF Outlived
  <2>2. /\ newest' = newest /\ revived' = revived /\ retired \subseteq retired'
        /\ Replaced' \subseteq Replaced /\ Gone' \subseteq Gone
    BY <1>1, <1>3, FewerGone
  <2>3. PasswordsKept'
    BY <1>1, <1>3, <2>1, <2>2, PasswordsStay
  <2>4. Clean(a)'
    BY <1>1, <1>3, <2>1, <2>2, CleanStays
  <2>5. ASSUME NEW b \in Attempt \ {a} PROVE Clean(b)'
    BY <1>1, <2>1, <2>2, <2>5 DEF Moved, Same, Clean
  <2>6. ASSUME NEW b \in Attempt PROVE Barred(b)'
    BY <1>1, <1>3, <2>1, <2>2, BarredStay
  <2> QED BY <2>3, <2>4, <2>5, <2>6 DEF Outlived
<1> QED BY <1>2, <1>3

-----------------------------------------------------------------------------
(* All together.                                                           *)

LEMMA InvInit == Init => Inv
<1> SUFFICES ASSUME Init PROVE Inv
  OBVIOUS
<1>1. TypeOK
  <2>1. /\ status \in {"active", "disabled", "deleted"} /\ count \in 0..MaxCount
        /\ password \in Passwords /\ newest \in Passwords
        /\ challenge \subseteq Passwords /\ open \subseteq Passwords
        /\ checked \in Nat /\ burst \in Nat /\ cancels \in 0..MaxCancels
        /\ retired \subseteq Passwords /\ revived \subseteq Passwords
    BY BoundsAssumption DEF Init, Passwords
  <2>2. locked \in BOOLEAN /\ crowd \in BOOLEAN
    BY DEF Init
  <2>3. outdated \in BOOLEAN
    BY NamesAssumption DEF Init
  <2>4. /\ link \in [Link -> {"none", "unused", "used", "expired"}]
        /\ pc \in [Attempt -> Labels] /\ op \in [Attempt -> Ops]
        /\ guess \in [Attempt -> 0..MaxPassword] /\ seen \in [Attempt -> 0..MaxPassword]
        /\ number \in [Attempt -> 0..MaxCount]
        /\ old \in [Attempt -> SUBSET Link] /\ mine \in [Attempt -> Link \cup {NoLink}]
        /\ result \in [Attempt -> {"none", "accepted"}]
        /\ used \in [Link -> Nat]
        /\ late \in [Attempt -> {"no", "inactive", "locked", "old"}]
    BY BoundsAssumption DEF Init, Labels, Ops
  <2>5. weak \in [Attempt -> BOOLEAN]
    BY DEF Init
  <2>6. \A a \in Attempt : pc[a] = "idle" /\ op[a] = "none"
    BY DEF Init
  <2> QED BY <2>1, <2>2, <2>3, <2>4, <2>5, <2>6 DEF TypeOK
<1>2. \A a \in Attempt : Place(a) /\ Carries(a) /\ TurnedAway(a)
  BY DEF Init, Place, Carries, TurnedAway, SigningIn
<1>3. Guesses /\ UsedOnce /\ OneAtATime
  BY BoundsAssumption DEF Init, Guesses, UsedOnce, OneAtATime, Issuing
<1>4. Replaced = {}
  BY DEF Init, Replaced, Replacing
<1>5. Outlived
  BY <1>4 DEF Init, Outlived, PasswordsKept, Clean, Barred, Gone, SigningIn
<1> QED BY <1>1, <1>2, <1>3, <1>5 DEF Inv, Typed

\* Time moves no attempt and leaves the passwords alone.
LEMMA WorldKeeps ==
  ASSUME Inv, World
  PROVE  Inv'
<1>1. Typed' /\ Fields /\ StoreOK /\ UNCHANGED attempt
  BY WorldStays DEF Inv
<1>2. UNCHANGED <<password, newest, open, retired, revived, crowd, used>> /\ challenge' \subseteq challenge
  BY DEF World, LockEnds, ChallengeEnds, LinkExpires, record, history, attempt
<1>3. Guesses'
  BY DEF World, LockEnds, ChallengeEnds, LinkExpires, record, history, Inv, Guesses
<1>4. \A t \in Link : \/ link'[t] = link[t]
                      \/ link[t] = "unused" /\ link'[t] = "expired"
  BY <1>1 DEF World, LockEnds, ChallengeEnds, LinkExpires, StoreOK
<1>5. UsedOnce' /\ OneAtATime'
  BY <1>1, <1>2, <1>4 DEF Inv, UsedOnce, OneAtATime, Issuing, attempt
<1>6. ASSUME NEW a \in Attempt
      PROVE  /\ late'[a] = late[a] \/ late'[a] = "no"
             /\ TurnedAway(a)'
  BY <1>1 DEF World, LockEnds, ChallengeEnds, LinkExpires, Unlocked, record, history, attempt,
              StoreOK, Inv, TurnedAway
<1>7. Outlived'
  <2>1. Replaced' = Replaced /\ Gone' = Gone
    BY <1>1, <1>2 DEF Replaced, Gone, Replacing, attempt
  <2> QED BY <1>1, <1>2, <1>6, <2>1 DEF Inv, Outlived, PasswordsKept, Clean, Barred, attempt
<1> QED BY <1>1, <1>3, <1>5, <1>6, <1>7 DEF Inv

LEMMA InvStays == Inv /\ [Next]_vars => Inv'
<1> SUFFICES ASSUME Inv, [Next]_vars PROVE Inv'
  OBVIOUS
<1>1. ASSUME NEW a \in Attempt, StepOf(a) PROVE Inv'
  <2>1. /\ StoreOK /\ Fields /\ \A b \in Attempt : Held(b)
        /\ Moved(a) /\ Typed'
    BY <1>1, Stepping DEF Inv
  <2>2. Guesses' /\ UsedOnce'
    BY <1>1, <2>1, GuessesStay, LinksStay DEF Inv
  <2>3. OneAtATime'
    BY <1>1, <2>1, OneAtATimeStays DEF Inv
  <2>4. Outlived'
    BY <1>1, OutlivedStays DEF Inv
  <2>5. ASSUME NEW b \in Attempt PROVE TurnedAway(b)'
    BY <1>1, <2>1, TurnedAwayStay DEF Inv
  <2> QED BY <2>1, <2>2, <2>3, <2>4, <2>5 DEF Inv
<1>2. CASE World
  BY <1>2, WorldKeeps
<1>3. CASE UNCHANGED vars
  <2> USE <1>3 DEF vars, store, record, attempt, history
  <2>1. Typed'
    BY DEF Inv, Typed, TypeOK, Place, Carries
  <2>2. Guesses' /\ UsedOnce' /\ OneAtATime' /\ \A a \in Attempt : TurnedAway(a)'
    BY DEF Inv, Guesses, UsedOnce, OneAtATime, Issuing, TurnedAway
  <2>3. Outlived'
    BY DEF Inv, Outlived, PasswordsKept, Clean, Barred, Gone, Replaced, Replacing
  <2> QED BY <2>1, <2>2, <2>3 DEF Inv
<1> QED BY <1>1, <1>2, <1>3 DEF Next, StepOf

LEMMA AlwaysInv == Spec => []Inv
BY InvInit, InvStays, PTL DEF Spec

\* Every variable keeps its type, whatever the attempts do to each other.
THEOREM TypeCorrect == Spec => []TypeOK
<1>1. Inv => TypeOK
  BY DEF Inv, Typed
<1> QED BY <1>1, AlwaysInv, PTL

\* Between two resets of the counter no more guesses are verified than are allowed: the counter
\* is raised before a guess is verified, and only a step that forgets the guesses lowers it.
THEOREM GuessesStayCounted == Spec => []GuessesAreCounted
<1>1. Inv => GuessesAreCounted
  BY DEF Inv, Guesses, GuessesAreCounted
<1> QED BY <1>1, AlwaysInv, PTL

\* Whoever comes in while the account is locked or suspended is let in by no interleaving,
\* unless that has changed when the account is read.
THEOREM StaysOutright == Spec => []RefusedOutright
<1>1. Inv => RefusedOutright
  BY DEF Inv, TurnedAway, RefusedOutright
<1> QED BY <1>1, AlwaysInv, PTL

\* A password that was replaced is of no use, to a sign-in or in a session, unless a sign-in
\* with it was under way.
THEOREM PasswordsStayReplaced == Spec => []PasswordsHold
<1>1. Inv => PasswordsHold
  BY DEF Inv, Typed, Outlived, PasswordsKept, Barred, PasswordsHold, OldPasswordRefused,
         SessionsEndWithPassword
<1> QED BY <1>1, AlwaysInv, PTL

\* A reset link sets one password, and of links that are requested one after the other only the
\* newest works.
THEOREM LinksStayGood == Spec => []LinksHold
<1>1. Inv => LinksHold
  BY DEF Inv, UsedOnce, OneAtATime, LinksHold, LinkWorksOnce, NewestLinkOnly
<1> QED BY <1>1, AlwaysInv, PTL
=============================================================================
