-------------------------------- MODULE Mfa --------------------------------
(***************************************************************************)
(* The second factor of one user (app/services/auth/mfa.py): enrolment,    *)
(* confirmation, verification, new recovery codes, removal.                *)
(*                                                                         *)
(* The factor is one database record.  Every request reads it and writes   *)
(* it later: codes are spent by conditional writes (on the last time step, *)
(* on the version of the list), everything else by unconditional ones.     *)
(* One step is one database call.  The password these requests also need   *)
(* is right.                                                               *)
(***************************************************************************)
EXTENDS Naturals, FiniteSets

CONSTANTS
  Request,    \* requests that deal with the factor
  Slot,       \* recovery codes of a list
  MaxStep,    \* bound on the clock, and on how far ahead a user's clock is
  MaxSecrets, \* bounds on the secrets and the lists of recovery codes generated
  MaxLists

ASSUME BoundsAssumption == MaxStep \in Nat \ {0} /\ MaxSecrets \in Nat /\ MaxLists \in Nat

VARIABLES
  factor,   \* the record
  now,      \* the current 30-second step
  secrets,  \* the secrets generated so far: the newest has this number
  lists,    \* the lists generated so far
  pc,       \* what each request does next
  op,       \* what it is for
  code,     \* the code it carries
  read,     \* the factor it has read
  asOf,     \* how many secrets and lists there were then
  used,     \* history: codes accepted
  reused,   \* history: codes accepted more than once
  crossed   \* history: a write went by a factor read before a newer secret or list

request == <<pc, op, code, read, asOf>>
history == <<used, reused, crossed>>
minted == <<secrets, lists>>
vars == <<factor, now, minted, request, history>>

NoFactor == [secret |-> 0, confirmed |-> FALSE, last |-> 0, list |-> 0, left |-> {}, version |-> 0]

Totp(s, t) == [kind |-> "totp", of |-> s, at |-> t]
Recovery(l, n) == [kind |-> "recovery", of |-> l, at |-> n]
NoCode == [kind |-> "none", of |-> 0, at |-> 0]

Init ==
  /\ factor = NoFactor
  /\ now = 1 /\ secrets = 0 /\ lists = 0
  /\ pc = [r \in Request |-> "idle"]
  /\ op = [r \in Request |-> "none"]
  /\ code = [r \in Request |-> NoCode]
  /\ read = [r \in Request |-> NoFactor]
  /\ asOf = [r \in Request |-> 0]
  /\ used = {} /\ reused = {}
  /\ crossed = FALSE

Goto(r, label) == pc' = [pc EXCEPT ![r] = label]

\* A request keeps only what it uses later.
Forget(r) ==
  /\ code' = [code EXCEPT ![r] = NoCode]
  /\ read' = [read EXCEPT ![r] = NoFactor]
  /\ asOf' = [asOf EXCEPT ![r] = 0]

\* The request answers.
Finish(r) ==
  /\ Goto(r, "idle")
  /\ op' = [op EXCEPT ![r] = "none"]
  /\ Forget(r)

Read(r) ==
  /\ read' = [read EXCEPT ![r] = factor]
  /\ asOf' = [asOf EXCEPT ![r] = secrets + lists]

\* The write that follows goes by what the request has read.
GoesByRead(r) == crossed' = (crossed \/ (factor # NoFactor /\ asOf[r] # secrets + lists))

NewSecret == secrets < MaxSecrets /\ secrets' = secrets + 1 /\ UNCHANGED lists
NewList == lists < MaxLists /\ lists' = lists + 1 /\ UNCHANGED secrets

-----------------------------------------------------------------------------
(* Requests.                                                               *)

\* The codes a user can have: those of an app that knows a secret, whose clock may be ahead,
\* and those handed out.
Codes ==
  {Totp(s, t) : s \in 1 .. secrets, t \in 1 .. MaxStep} \cup
  {Recovery(l, n) : l \in 1 .. lists, n \in Slot}

\* start_totp: not over a confirmed factor (is_enabled).
Start(r) ==
  /\ pc[r] = "idle" /\ ~factor.confirmed
  /\ Goto(r, "write")
  /\ op' = [op EXCEPT ![r] = "start"]
  /\ asOf' = [asOf EXCEPT ![r] = secrets + lists]
  /\ UNCHANGED <<factor, now, minted, code, read, history>>

\* A new secret, over the factor there is by now, or as a new record.
Enrol(r) ==
  /\ pc[r] = "write" /\ NewSecret
  /\ factor' = [NoFactor EXCEPT !.secret = secrets + 1]
  /\ GoesByRead(r)
  /\ Finish(r)
  /\ UNCHANGED <<now, used, reused>>

\* Faulty variant: a step may be accepted again.
AnyStep(f, c) == c.of = f.secret /\ c.at \in now - 1 .. now + 1

\* The code of a step at most one away, later than the last one accepted.
NewStep(f, c) == c.of = f.secret /\ c.at \in now - 1 .. now + 1 /\ c.at > f.last

\* Only verify looks at recovery codes.
Fits(f, for, c) ==
  \/ c.kind = "totp" /\ NewStep(f, c)
  \/ c.kind = "recovery" /\ for # "confirm" /\ c.of = f.list /\ c.at \in f.left

\* confirm_totp is for a factor that is not confirmed yet, verify for a confirmed one.  That
\* disable and regenerate_recovery_codes also ask is_enabled before adds no behaviour.
\* The code is compared with the factor as soon as that is read; a wrong one changes nothing.
Begin(r, for, c) ==
  /\ pc[r] = "idle"
  /\ factor # NoFactor /\ factor.confirmed = (for # "confirm") /\ Fits(factor, for, c)
  /\ Read(r)
  /\ Goto(r, "accept")
  /\ op' = [op EXCEPT ![r] = for]
  /\ code' = [code EXCEPT ![r] = c]
  /\ UNCHANGED <<factor, now, minted, history>>

-----------------------------------------------------------------------------
(* Codes are spent.                                                        *)

StepAsRead(f) == factor # NoFactor /\ factor.last = f.last

ListAsRead(f) == factor # NoFactor /\ factor.version = f.version

SpendStep(r) ==
  /\ code[r].kind = "totp"
  /\ StepAsRead(read[r])
  /\ factor' = [factor EXCEPT !.last = code[r].at]

\* The whole list is written back.
SpendRecovery(r) ==
  /\ code[r].kind = "recovery"
  /\ ListAsRead(read[r])
  /\ factor' = [factor EXCEPT !.list = read[r].list, !.left = read[r].left \ {code[r].at},
                              !.version = read[r].version + 1]

Accept(r) ==
  /\ pc[r] = "accept"
  /\ SpendStep(r) \/ SpendRecovery(r)
  /\ used' = used \cup {code[r]}
  /\ reused' = reused \cup (used \cap {code[r]})
  /\ GoesByRead(r)
  /\ CASE op[r] = "login" -> Finish(r)
       [] op[r] = "confirm" -> Goto(r, "turn_on") /\ UNCHANGED <<op, code, read, asOf>>
       [] op[r] = "disable" -> Goto(r, "delete") /\ Forget(r) /\ UNCHANGED op
       [] op[r] = "regenerate" -> Goto(r, "reread") /\ Forget(r) /\ UNCHANGED op
  /\ UNCHANGED <<now, minted>>

\* Any request may be refused here, and any be cut short between two calls.
GiveUp(r) ==
  /\ pc[r] # "idle"
  /\ Finish(r)
  /\ UNCHANGED <<factor, now, minted, history>>

-----------------------------------------------------------------------------
(* What a code was for.                                                    *)

\* A record that is gone is not created.
SwitchedOn(r) ==
  IF factor = NoFactor THEN NoFactor
  ELSE [factor EXCEPT !.confirmed = TRUE, !.list = lists + 1, !.left = Slot,
                      !.version = read[r].version + 1]

\* Confirmation, with the first recovery codes.
TurnOn(r) ==
  /\ pc[r] = "turn_on" /\ NewList
  /\ factor' = SwitchedOn(r)
  /\ GoesByRead(r)
  /\ Finish(r)
  /\ UNCHANGED <<now, used, reused>>

Delete(r) ==
  /\ pc[r] = "delete"
  /\ factor' = NoFactor
  /\ Finish(r)
  /\ UNCHANGED <<now, minted, history>>

\* New recovery codes: the version is read again, for it has changed if one was used.
Reread(r) ==
  /\ pc[r] = "reread"
  /\ Read(r) /\ Goto(r, "replace")
  /\ UNCHANGED <<factor, now, minted, op, code, history>>

Replaced(r) ==
  [factor EXCEPT !.list = lists + 1, !.left = Slot, !.version = read[r].version + 1]

ReplaceCodes(r) ==
  /\ pc[r] = "replace" /\ NewList
  /\ factor' = IF factor = NoFactor THEN NoFactor ELSE Replaced(r)
  /\ GoesByRead(r)
  /\ Finish(r)
  /\ UNCHANGED <<now, used, reused>>

\* An administrator resets it.
Reset ==
  /\ factor # NoFactor
  /\ factor' = NoFactor
  /\ UNCHANGED <<now, minted, request, history>>

Tick ==
  /\ now < MaxStep
  /\ now' = now + 1
  /\ UNCHANGED <<factor, minted, request, history>>

-----------------------------------------------------------------------------
Next ==
  \/ \E r \in Request :
       \/ Start(r) \/ Enrol(r)
       \/ \E for \in {"confirm", "login", "disable", "regenerate"}, c \in Codes : Begin(r, for, c)
       \/ Accept(r) \/ GiveUp(r) \/ TurnOn(r) \/ Delete(r) \/ Reread(r) \/ ReplaceCodes(r)
  \/ Reset \/ Tick

Spec == Init /\ [][Next]_vars

-----------------------------------------------------------------------------
(* What the second factor promises, as long as no write goes by a factor   *)
(* read before a newer secret or list.                                     *)

Labels == {"idle", "write", "accept", "turn_on", "delete", "reread", "replace"}
Ops == {"none", "start", "confirm", "login", "disable", "regenerate"}

Factors ==
  [secret : 0 .. secrets, confirmed : BOOLEAN, last : 0 .. MaxStep, list : 0 .. lists,
   left : SUBSET Slot, version : Nat]

\* Every variable stays in its range; a confirmed factor has a list of recovery codes, and
\* without a secret there is no factor.
TypeOK ==
  /\ factor \in Factors /\ now \in 1 .. MaxStep /\ secrets \in 0 .. MaxSecrets /\ lists \in 0 .. MaxLists
  /\ pc \in [Request -> Labels] /\ op \in [Request -> Ops]
  /\ code \in [Request -> Codes \cup {NoCode}]
  /\ read \in [Request -> Factors] /\ asOf \in [Request -> 0 .. secrets + lists]
  /\ used \subseteq Codes /\ reused \subseteq used /\ crossed \in BOOLEAN
  /\ factor.confirmed => factor.list # 0
  /\ factor.secret = 0 => factor = NoFactor

\* No code is accepted twice, however many requests carry it at once.
WorksOnce == ~crossed => reused = {}

\* What is on was proved to be in the user's app.
OnlyProven ==
  ~crossed /\ factor.confirmed => \E t \in 1 .. MaxStep : Totp(factor.secret, t) \in used

\* The recovery codes that work are of the newest list, and none of them was used.
NewestCodes ==
  ~crossed /\ factor.confirmed =>
    /\ factor.list = lists
    /\ \A n \in factor.left : Recovery(factor.list, n) \notin used

\* Between them: the codes that let a user in are theirs, of now, and unused.
CodesHold == TypeOK /\ WorksOnce /\ OnlyProven /\ NewestCodes

\* What was removed comes back by enrolment only, and is off then.
GoneStaysGone == [][factor = NoFactor => ~factor'.confirmed]_vars

-----------------------------------------------------------------------------
(* The same, whatever requests cross.                                      *)

\* "each code and recovery code works once (conditional writes)"
CodesWorkOnce == reused = {}

\* "Turn MFA on once the user proves their app works"
TurnedOnByProof ==
  factor.confirmed => \E t \in 1 .. MaxStep : Totp(factor.secret, t) \in used

\* "Create (or replace an unconfirmed) secret": what is on goes off by removal only.
OffByRemoval == [][factor.confirmed /\ ~factor'.confirmed => factor' = NoFactor]_vars

\* "Replace every recovery code (the old ones stop working)"
OldCodesStop == factor.confirmed => factor.list = lists
=============================================================================
