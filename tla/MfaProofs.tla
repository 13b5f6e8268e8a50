----------------------------- MODULE MfaProofs -----------------------------
(***************************************************************************)
(* What the second factor keeps for any number of requests, secrets and    *)
(* lists.  A new secret or list begins an era.  Within an era the factor   *)
(* changes by spending only: the last step grows, the version of the list  *)
(* grows, and the conditional writes of requests that have read it in this *)
(* era see whether they come too late.  Writes of requests that have read  *)
(* it in an earlier era are what "crossed" records.                        *)
(***************************************************************************)
EXTENDS Mfa, TLAPS

-----------------------------------------------------------------------------
(* Records.                                                                *)

AnyFactor ==
  [secret : Nat, confirmed : BOOLEAN, last : Nat, list : Nat, left : SUBSET Slot, version : Nat]

LEMMA StepWritten ==
  ASSUME NEW f \in AnyFactor, NEW t \in Nat
  PROVE  LET g == [f EXCEPT !.last = t] IN
           /\ g \in AnyFactor
           /\ g.secret = f.secret /\ g.confirmed = f.confirmed /\ g.last = t
           /\ g.list = f.list /\ g.left = f.left /\ g.version = f.version
  BY DEF AnyFactor

\* A factor in terms of its fields.
LEMMA FactorFields ==
  ASSUME NEW f
  PROVE  f \in Factors <=>
           /\ f \in AnyFactor
           /\ f.secret \in 0 .. secrets /\ f.last \in 0 .. MaxStep /\ f.list \in 0 .. lists
  BY DEF Factors, AnyFactor

LEMMA NoFactorFields ==
  /\ NoFactor \in AnyFactor
  /\ NoFactor.secret = 0 /\ NoFactor.confirmed = FALSE /\ NoFactor.last = 0
  /\ NoFactor.list = 0 /\ NoFactor.left = {} /\ NoFactor.version = 0
  BY DEF NoFactor, AnyFactor

LEMMA NewFactor ==
  ASSUME NEW s \in Nat
  PROVE  LET g == [NoFactor EXCEPT !.secret = s] IN
           /\ g \in AnyFactor
           /\ g.secret = s /\ g.confirmed = FALSE /\ g.last = 0
           /\ g.list = 0 /\ g.left = {}
  BY DEF NoFactor, AnyFactor

\* Codes name what they were made from.
LEMMA CodesApart ==
  /\ \A s, t, u, v : Totp(s, t) = Totp(u, v) => s = u /\ t = v
  /\ \A l, n, k, m : Recovery(l, n) = Recovery(k, m) => l = k /\ n = m
  /\ \A s, t, l, n : Totp(s, t) # Recovery(l, n)
  /\ \A s, t : Totp(s, t).kind = "totp" /\ Totp(s, t).of = s /\ Totp(s, t).at = t
  /\ \A l, n : Recovery(l, n).kind = "recovery" /\ Recovery(l, n).of = l /\ Recovery(l, n).at = n
  BY DEF Totp, Recovery

LEMMA CodeKinds ==
  /\ \A c \in Codes : \/ \E s \in 1 .. secrets, t \in 1 .. MaxStep : c = Totp(s, t)
                      \/ \E l \in 1 .. lists, n \in Slot : c = Recovery(l, n)
  /\ \A s \in 1 .. secrets, t \in 1 .. MaxStep : Totp(s, t) \in Codes
  /\ \A l \in 1 .. lists, n \in Slot : Recovery(l, n) \in Codes
  BY DEF Codes

-----------------------------------------------------------------------------
(* The invariant.                                                          *)

Fresh(r) == asOf[r] = secrets + lists

\* The factor there is has the newest secret.
Present == factor # NoFactor => factor.secret = secrets /\ secrets # 0

\* A code about to be spent is one of the factor that was read, and not spent there.
InReach(r) ==
  /\ op[r] \notin {"none", "start"}
  /\ \/ \E t \in 1 .. MaxStep : code[r] = Totp(read[r].secret, t) /\ t > read[r].last
     \/ /\ op[r] # "confirm" /\ read[r].list # 0
        /\ \E n \in read[r].left : code[r] = Recovery(read[r].list, n)
  /\ Fresh(r) => read[r].secret = secrets

InHand == \A r \in Request : pc[r] = "accept" => InReach(r)

\* Whoever is about to turn it on has proved the newest secret.
Shown ==
  \A r \in Request : pc[r] = "turn_on" /\ Fresh(r) =>
    \E t \in 1 .. MaxStep : Totp(secrets, t) \in used

StepsSpent ==
  factor # NoFactor => \A t \in 1 .. MaxStep : Totp(secrets, t) \in used => t <= factor.last

ListNewest == factor.list # 0 => factor.list = lists

LeftUnused == \A n \in factor.left : Recovery(factor.list, n) \notin used

VersionsGrow ==
  \A r \in Request : pc[r] = "accept" /\ Fresh(r) /\ factor # NoFactor =>
    /\ read[r].version <= factor.version
    /\ read[r].version = factor.version => read[r].list = factor.list /\ read[r].left = factor.left

Uncrossed ==
  ~crossed => reused = {} /\ StepsSpent /\ ListNewest /\ LeftUnused /\ VersionsGrow

Inv == TypeOK /\ Present /\ InHand /\ Shown /\ Uncrossed /\ OnlyProven

LEMMA InvInit == Init => Inv
<1> SUFFICES ASSUME Init PROVE Inv
  OBVIOUS
<1>1. TypeOK
  <2>1. NoFactor \in Factors
    BY NoFactorFields, FactorFields, BoundsAssumption DEF Init
  <2>2. /\ now \in 1 .. MaxStep /\ secrets \in 0 .. MaxSecrets /\ lists \in 0 .. MaxLists
        /\ 0 \in 0 .. secrets + lists
    BY BoundsAssumption DEF Init
  <2>3. /\ pc \in [Request -> Labels] /\ op \in [Request -> Ops]
        /\ code \in [Request -> Codes \cup {NoCode}]
        /\ read \in [Request -> Factors] /\ asOf \in [Request -> 0 .. secrets + lists]
    BY <2>1, <2>2 DEF Init, Labels, Ops
  <2> QED BY <2>1, <2>2, <2>3, NoFactorFields DEF Init, TypeOK
<1> QED BY <1>1, NoFactorFields
        DEF Init, Inv, Present, InHand, Shown, Uncrossed, StepsSpent, ListNewest, LeftUnused,
            VersionsGrow, OnlyProven

-----------------------------------------------------------------------------
(* Steps that leave the factor alone or remove it.                         *)

LEMMA SumsGrow ==
  ASSUME NEW a \in Nat, NEW b \in Nat, NEW c \in Nat, NEW d \in Nat, a <= c, b <= d
  PROVE  0 .. a + b \subseteq 0 .. c + d
  OBVIOUS

LEMMA SumsPassed ==
  ASSUME NEW a \in Nat, NEW b \in Nat, NEW c \in Nat, NEW d \in Nat, a + b < c + d,
         NEW x \in 0 .. a + b
  PROVE  x # c + d
  OBVIOUS

\* Ranges only grow.
LEMMA RangesGrow ==
  ASSUME TypeOK, secrets' \in Nat, lists' \in Nat, secrets <= secrets', lists <= lists'
  PROVE  /\ \A f \in Factors : f \in Factors'
         /\ \A c \in Codes : c \in Codes'
         /\ 0 .. secrets + lists \subseteq 0 .. secrets' + lists'
<1>1. ASSUME NEW f \in Factors PROVE f \in Factors'
  BY <1>1 DEF Factors, TypeOK
<1>2. ASSUME NEW c \in Codes PROVE c \in Codes'
  <2>1. 1 .. secrets \subseteq 1 .. secrets' /\ 1 .. lists \subseteq 1 .. lists'
    BY DEF TypeOK
  <2>2. CASE \E s \in 1 .. secrets, t \in 1 .. MaxStep : c = Totp(s, t)
    BY <2>1, <2>2 DEF Codes, Totp
  <2>3. CASE \E l \in 1 .. lists, n \in Slot : c = Recovery(l, n)
    BY <2>1, <2>3 DEF Codes, Recovery
  <2> QED BY <1>2, <2>2, <2>3, CodeKinds
<1>3. 0 .. secrets + lists \subseteq 0 .. secrets' + lists'
  <2>1. secrets \in Nat /\ lists \in Nat
    BY BoundsAssumption DEF TypeOK
  <2> QED BY <2>1, SumsGrow
<1> QED BY <1>1, <1>2, <1>3

\* The factor stays or is removed, and no request comes to spend or turn on anything.
LEMMA QuietKeeps ==
  ASSUME Inv, factor' = factor \/ factor' = NoFactor,
         UNCHANGED <<minted, history>>, now' \in 1 .. MaxStep,
         pc' \in [Request -> Labels], op' \in [Request -> Ops],
         code' \in [Request -> Codes \cup {NoCode}], read' \in [Request -> Factors],
         asOf' \in [Request -> 0 .. secrets + lists],
         \A q \in Request : pc'[q] \in {"accept", "turn_on"} =>
           /\ pc'[q] = pc[q] /\ op'[q] = op[q] /\ code'[q] = code[q]
           /\ read'[q] = read[q] /\ asOf'[q] = asOf[q]
  PROVE  Inv'
<1>1. UNCHANGED <<secrets, lists, used, reused, crossed>>
  BY DEF minted, history
<1>2. TypeOK'
  <2>1. Factors' = Factors /\ Codes' = Codes
    BY <1>1 DEF Factors, Codes
  <2>2. NoFactor \in Factors
    BY NoFactorFields, FactorFields, BoundsAssumption DEF Inv, TypeOK
  <2> QED BY <1>1, <2>1, <2>2, NoFactorFields DEF Inv, TypeOK
<1>3. \A q \in Request : pc'[q] \in {"accept", "turn_on"} =>
        /\ pc'[q] = pc[q] /\ op'[q] = op[q] /\ code'[q] = code[q]
        /\ read'[q] = read[q] /\ (Fresh(q)' <=> Fresh(q))
  BY <1>1 DEF Fresh
<1>4. Present' /\ Shown' /\ OnlyProven'
  BY <1>1, <1>3, NoFactorFields DEF Inv, Present, Shown, OnlyProven, Totp
<1>5. InHand'
  <2> SUFFICES ASSUME NEW q \in Request, (pc[q])' = "accept" PROVE InReach(q)'
    BY DEF InHand
  <2>1. /\ pc[q] = "accept" /\ op'[q] = op[q] /\ code'[q] = code[q] /\ read'[q] = read[q]
        /\ (Fresh(q)' <=> Fresh(q))
    BY <1>3
  <2>2. InReach(q)
    BY <2>1 DEF Inv, InHand
  <2>3. /\ op'[q] \notin {"none", "start"}
        /\ Fresh(q)' => read'[q].secret = secrets'
    BY <1>1, <2>1, <2>2 DEF InReach
  <2>4. \/ \E t \in 1 .. MaxStep : code'[q] = Totp(read'[q].secret, t) /\ t > read'[q].last
        \/ /\ op'[q] # "confirm" /\ read'[q].list # 0
           /\ \E n \in read'[q].left : code'[q] = Recovery(read'[q].list, n)
    BY <2>1, <2>2 DEF InReach
  <2> QED BY <2>3, <2>4 DEF InReach, Totp, Recovery
<1>6. Uncrossed'
  BY <1>1, <1>3, NoFactorFields
     DEF Inv, Uncrossed, StepsSpent, ListNewest, LeftUnused, VersionsGrow, Totp, Recovery
<1> QED BY <1>2, <1>4, <1>5, <1>6 DEF Inv

LEMMA ForgetTyped ==
  ASSUME TypeOK, NEW r \in Request, Forget(r)
  PROVE  /\ code' \in [Request -> Codes \cup {NoCode}] /\ read' \in [Request -> Factors]
         /\ asOf' \in [Request -> 0 .. secrets + lists] /\ asOf'[r] = 0
         /\ \A q \in Request \ {r} : code'[q] = code[q] /\ read'[q] = read[q] /\ asOf'[q] = asOf[q]
<1>1. NoFactor \in Factors
  BY NoFactorFields, FactorFields, BoundsAssumption DEF TypeOK
<1>2. 0 \in 0 .. secrets + lists
  BY DEF TypeOK
<1> QED BY <1>1, <1>2 DEF Forget, TypeOK

LEMMA QuietSteps ==
  ASSUME Inv, NEW r \in Request, Start(r) \/ GiveUp(r) \/ Reread(r) \/ Delete(r)
  PROVE  Inv'
<1>1. CASE Start(r)
  <2>1. secrets + lists \in 0 .. secrets + lists
    BY DEF Inv, TypeOK
  <2> QED BY <1>1, <2>1, QuietKeeps DEF Start, Goto, Inv, TypeOK, Labels, Ops
<1>2. CASE GiveUp(r)
  BY <1>2, ForgetTyped, QuietKeeps DEF GiveUp, Finish, Goto, Inv, TypeOK, Labels, Ops
<1>3. CASE Reread(r)
  <2>1. secrets + lists \in 0 .. secrets + lists
    BY DEF Inv, TypeOK
  <2> QED BY <1>3, <2>1, QuietKeeps DEF Reread, Read, Goto, Inv, TypeOK, Labels
<1>4. CASE Delete(r)
  BY <1>4, ForgetTyped, QuietKeeps DEF Delete, Finish, Goto, Inv, TypeOK, Labels, Ops
<1> QED BY <1>1, <1>2, <1>3, <1>4

LEMMA OutsideKeeps ==
  ASSUME Inv, Reset \/ Tick \/ UNCHANGED vars
  PROVE  Inv'
<1>1. UNCHANGED <<minted, history, pc, op, code, read, asOf>> /\ (factor' = factor \/ factor' = NoFactor)
  BY DEF Reset, Tick, vars, request
<1>2. now' \in 1 .. MaxStep
  BY BoundsAssumption DEF Reset, Tick, vars, Inv, TypeOK
<1> QED BY <1>1, <1>2, QuietKeeps DEF Inv, TypeOK

-----------------------------------------------------------------------------
(* Steps that begin an era.                                                *)

\* What is left to show when a secret or a list was generated: whatever was read before is of
\* an earlier era.
LEMMA EraBegins ==
  ASSUME Inv, secrets' \in 0 .. MaxSecrets, lists' \in 0 .. MaxLists,
         secrets <= secrets', lists <= lists', secrets + lists < secrets' + lists',
         NEW r \in Request, Goto(r, "idle"), op' = [op EXCEPT ![r] = "none"], Forget(r),
         UNCHANGED <<now, used, reused>>, crossed' \in BOOLEAN, crossed => crossed',
         factor' \in Factors',
         factor'.confirmed => factor'.list # 0,
         factor'.secret = 0 => factor' = NoFactor
  PROVE  /\ TypeOK' /\ InHand' /\ Shown'
         /\ ~crossed' => reused' = {} /\ VersionsGrow'
<1>1. /\ \A f \in Factors : f \in Factors'
      /\ \A c \in Codes : c \in Codes'
      /\ 0 .. secrets + lists \subseteq 0 .. secrets' + lists'
  BY RangesGrow, BoundsAssumption DEF Inv
<1>2. /\ code' \in [Request -> Codes \cup {NoCode}] /\ read' \in [Request -> Factors]
      /\ asOf' \in [Request -> 0 .. secrets + lists]
      /\ \A q \in Request \ {r} : code'[q] = code[q] /\ read'[q] = read[q] /\ asOf'[q] = asOf[q]
  BY ForgetTyped DEF Inv
<1>3. /\ code' \in [Request -> Codes' \cup {NoCode}] /\ read' \in [Request -> Factors']
      /\ asOf' \in [Request -> 0 .. secrets' + lists']
  BY <1>1, <1>2
<1>4. pc' \in [Request -> Labels] /\ op' \in [Request -> Ops]
  BY DEF Inv, TypeOK, Goto, Labels, Ops
<1>5. TypeOK'
  BY <1>1, <1>3, <1>4 DEF Inv, TypeOK, NoCode
<1>6. \A q \in Request : ~Fresh(q)'
  <2>1. secrets \in Nat /\ lists \in Nat /\ secrets' \in Nat /\ lists' \in Nat
    BY BoundsAssumption DEF Inv, TypeOK
  <2>2. \A q \in Request : asOf'[q] \in 0 .. secrets + lists
    BY <1>2
  <2>3. \A q \in Request : asOf'[q] # secrets' + lists'
    BY <2>1, <2>2, SumsPassed
  <2> QED BY <2>3 DEF Fresh
<1>7. \A q \in Request : pc'[q] = "accept" =>
        pc[q] = "accept" /\ op'[q] = op[q] /\ code'[q] = code[q] /\ read'[q] = read[q]
  BY <1>2 DEF Goto, Inv, TypeOK
<1>8. InHand'
  <2> SUFFICES ASSUME NEW q \in Request, (pc[q])' = "accept" PROVE InReach(q)'
    BY DEF InHand
  <2>1. ~Fresh(q)' /\ pc[q] = "accept" /\ UNCHANGED <<op[q], code[q], read[q]>>
    BY <1>6, <1>7
  <2>2. InReach(q)
    BY <2>1 DEF Inv, InHand
  <2> QED BY <2>1, <2>2 DEF InReach, Totp, Recovery
<1>9. Shown' /\ VersionsGrow'
  BY <1>6 DEF Shown, VersionsGrow
<1> QED BY <1>5, <1>8, <1>9 DEF Inv, Uncrossed

\* Nobody has used a code of a secret or a list that was not there.
LEMMA NotYetUsed ==
  ASSUME TypeOK
  PROVE  /\ \A t : Totp(secrets + 1, t) \notin used
         /\ \A n : Recovery(lists + 1, n) \notin used
<1>1. secrets \in Nat /\ lists \in Nat
  BY BoundsAssumption DEF TypeOK
<1> QED BY <1>1, CodeKinds, CodesApart DEF TypeOK

LEMMA EnrolKeeps ==
  ASSUME Inv, NEW r \in Request, Enrol(r)
  PROVE  Inv'
<1>1. /\ secrets' = secrets + 1 /\ lists' = lists /\ secrets < MaxSecrets
      /\ UNCHANGED <<now, used, reused>>
      /\ secrets \in Nat /\ lists \in Nat
  BY BoundsAssumption DEF Enrol, NewSecret, Inv, TypeOK
<1>2. /\ factor' \in AnyFactor
      /\ factor'.secret = secrets' /\ ~factor'.confirmed /\ factor'.last = 0
      /\ factor'.list = 0 /\ factor'.left = {}
  <2>1. factor' = [NoFactor EXCEPT !.secret = secrets + 1]
    BY DEF Enrol
  <2>2. secrets + 1 \in Nat
    BY <1>1
  <2> QED BY <1>1, <2>1, <2>2, NewFactor
<1>3. factor' \in Factors'
  BY <1>1, <1>2, BoundsAssumption DEF Factors, AnyFactor
<1>4. crossed' \in BOOLEAN /\ (crossed => crossed')
  BY DEF Enrol, GoesByRead, Inv, TypeOK
<1>5. TypeOK' /\ InHand' /\ Shown' /\ (~crossed' => reused' = {} /\ VersionsGrow')
  <2>1. /\ secrets' \in 0 .. MaxSecrets /\ lists' \in 0 .. MaxLists
        /\ secrets <= secrets' /\ lists <= lists' /\ secrets + lists < secrets' + lists'
        /\ factor'.secret # 0
    BY <1>1, <1>2, BoundsAssumption DEF Inv, TypeOK
  <2>2. Goto(r, "idle") /\ op' = [op EXCEPT ![r] = "none"] /\ Forget(r)
    BY DEF Enrol, Finish
  <2> QED BY <1>1, <1>2, <1>3, <1>4, <2>1, <2>2, EraBegins
<1>6. Present' /\ OnlyProven' /\ ListNewest' /\ LeftUnused'
  BY <1>1, <1>2 DEF Present, OnlyProven, ListNewest, LeftUnused
<1>7. StepsSpent'
  BY <1>1, NotYetUsed DEF Inv, StepsSpent, Totp
<1> QED BY <1>5, <1>6, <1>7 DEF Inv, Uncrossed

\* A list of recovery codes is handed out, by confirmation or on request.
LEMMA ListGivenOut ==
  ASSUME Inv, NEW r \in Request, NEW v \in Nat, NEW on \in BOOLEAN,
         NewList, GoesByRead(r), Finish(r), UNCHANGED <<now, used, reused>>,
         factor' = IF factor = NoFactor THEN NoFactor
                   ELSE IF on THEN [factor EXCEPT !.confirmed = TRUE, !.list = lists + 1, !.left = Slot,
                                                  !.version = v]
                   ELSE [factor EXCEPT !.list = lists + 1, !.left = Slot, !.version = v],
         on => pc[r] = "turn_on"
  PROVE  Inv'
<1>1. /\ secrets' = secrets /\ lists' = lists + 1 /\ lists < MaxLists
      /\ UNCHANGED <<now, used, reused>>
      /\ secrets \in Nat /\ lists \in Nat /\ lists + 1 \in Nat
  BY BoundsAssumption DEF NewList, Inv, TypeOK
<1>2. factor \in AnyFactor /\ factor.secret \in 0 .. secrets /\ factor.last \in 0 .. MaxStep
  BY FactorFields DEF Inv, TypeOK
<1>3. factor # NoFactor =>
        /\ factor' \in AnyFactor /\ factor'.list = lists + 1 /\ factor'.left = Slot
        /\ factor'.secret = factor.secret /\ factor'.last = factor.last
        /\ factor'.confirmed <=> (on \/ factor.confirmed)
  <2> SUFFICES ASSUME factor # NoFactor
               PROVE  /\ factor' \in AnyFactor /\ factor'.list = lists + 1 /\ factor'.left = Slot
                      /\ factor'.secret = factor.secret /\ factor'.last = factor.last
                      /\ factor'.confirmed <=> (on \/ factor.confirmed)
    OBVIOUS
  <2>1. CASE on
    <3> DEFINE g == [factor EXCEPT !.confirmed = TRUE, !.list = lists + 1, !.left = Slot, !.version = v]
    <3>1. factor' = g
      BY <2>1
    <3>2. /\ g \in AnyFactor
          /\ g.secret = factor.secret /\ g.confirmed = TRUE /\ g.last = factor.last
          /\ g.list = lists + 1 /\ g.left = Slot
      BY <1>1, <1>2 DEF AnyFactor
    <3> HIDE DEF g
    <3> QED BY <2>1, <3>1, <3>2
  <2>2. CASE ~on
    <3> DEFINE g == [factor EXCEPT !.list = lists + 1, !.left = Slot, !.version = v]
    <3>1. factor' = g
      BY <2>2
    <3>2. /\ g \in AnyFactor
          /\ g.secret = factor.secret /\ g.confirmed = factor.confirmed /\ g.last = factor.last
          /\ g.list = lists + 1 /\ g.left = Slot
      BY <1>1, <1>2 DEF AnyFactor
    <3> HIDE DEF g
    <3> QED BY <2>2, <3>1, <3>2
  <2> QED BY <2>1, <2>2
<1>4. factor = NoFactor => factor' = NoFactor
  OBVIOUS
<1>5. /\ factor' \in Factors'
      /\ factor'.confirmed => factor'.list # 0
      /\ factor'.secret = 0 => factor' = NoFactor
  <2>1. CASE factor = NoFactor
    BY <1>1, <1>4, <2>1, NoFactorFields, BoundsAssumption DEF Factors, AnyFactor
  <2>2. CASE factor # NoFactor
    <3>1. factor'.secret \in 0 .. secrets' /\ factor'.last \in 0 .. MaxStep /\ factor'.list \in 0 .. lists'
      BY <1>1, <1>2, <1>3, <2>2
    <3>2. factor' \in Factors'
      BY <1>3, <2>2, <3>1 DEF Factors, AnyFactor
    <3>3. factor'.list # 0 /\ factor'.secret # 0
      BY <1>1, <1>3, <2>2 DEF Inv, TypeOK
    <3> QED BY <3>2, <3>3
  <2> QED BY <2>1, <2>2
<1>6. crossed' \in BOOLEAN /\ (crossed => crossed')
  BY DEF GoesByRead, Inv, TypeOK
<1>7. ~crossed' /\ factor # NoFactor => ~crossed /\ Fresh(r)
  BY DEF GoesByRead, Fresh
<1>8. TypeOK' /\ InHand' /\ Shown' /\ (~crossed' => reused' = {} /\ VersionsGrow')
  <2>1. /\ secrets' \in 0 .. MaxSecrets /\ lists' \in 0 .. MaxLists
        /\ secrets <= secrets' /\ lists <= lists' /\ secrets + lists < secrets' + lists'
    BY <1>1, BoundsAssumption DEF Inv, TypeOK
  <2>2. Goto(r, "idle") /\ op' = [op EXCEPT ![r] = "none"] /\ Forget(r)
    BY DEF Finish
  <2> QED BY <1>1, <1>5, <1>6, <2>1, <2>2, EraBegins
<1>9. Present'
  BY <1>1, <1>3, <1>4 DEF Inv, Present
<1>10. ListNewest' /\ LeftUnused'
  <2>1. CASE factor = NoFactor
    BY <1>4, <2>1, NoFactorFields DEF ListNewest, LeftUnused
  <2>2. CASE factor # NoFactor
    <3>1. \A n : Recovery(lists + 1, n) \notin used
      BY NotYetUsed DEF Inv
    <3> QED BY <1>1, <1>3, <2>2, <3>1 DEF ListNewest, LeftUnused, Recovery
  <2> QED BY <2>1, <2>2
<1>11. ~crossed' => StepsSpent'
  <2> SUFFICES ASSUME ~crossed', factor' # NoFactor PROVE StepsSpent'
    BY DEF StepsSpent
  <2>1. factor # NoFactor /\ StepsSpent
    BY <1>4, <1>7 DEF Inv, Uncrossed
  <2> QED BY <1>1, <1>3, <2>1 DEF StepsSpent, Totp
<1>12. OnlyProven'
  <2> SUFFICES ASSUME ~crossed', factor'.confirmed
               PROVE  \E t \in 1 .. MaxStep : Totp(factor'.secret, t) \in used'
    BY DEF OnlyProven, Totp
  <2>1. factor # NoFactor /\ ~crossed /\ Fresh(r)
    BY <1>4, <1>7, NoFactorFields
  <2>2. factor'.secret = factor.secret /\ used' = used
    BY <1>1, <1>3, <2>1
  <2>3. CASE on
    <3>1. factor.secret = secrets /\ \E t \in 1 .. MaxStep : Totp(secrets, t) \in used
      BY <2>1, <2>3 DEF Inv, Shown, Present
    <3> QED BY <2>2, <3>1
  <2>4. CASE ~on
    <3>1. factor.confirmed
      BY <1>3, <2>1, <2>4
    <3> QED BY <2>1, <2>2, <3>1 DEF Inv, OnlyProven
  <2> QED BY <2>3, <2>4
<1> QED BY <1>8, <1>9, <1>10, <1>11, <1>12 DEF Inv, Uncrossed

LEMMA ListSteps ==
  ASSUME Inv, NEW r \in Request, TurnOn(r) \/ ReplaceCodes(r)
  PROVE  Inv'
<1>1. read[r].version + 1 \in Nat
  BY FactorFields DEF Inv, TypeOK, AnyFactor
<1>2. CASE TurnOn(r)
  BY <1>1, <1>2, ListGivenOut DEF TurnOn, SwitchedOn
<1>3. CASE ReplaceCodes(r)
  BY <1>1, <1>3, ListGivenOut DEF ReplaceCodes, Replaced
<1> QED BY <1>2, <1>3

-----------------------------------------------------------------------------
(* Steps within an era.                                                    *)

LEMMA BeginKeeps ==
  ASSUME Inv, NEW r \in Request, NEW for \in Ops \ {"none", "start"}, NEW c \in Codes, Begin(r, for, c)
  PROVE  Inv'
<1>1. UNCHANGED <<factor, now, secrets, lists, used, reused, crossed>>
  BY DEF Begin, minted, history
<1>2. /\ secrets \in Nat /\ lists \in Nat /\ secrets + lists \in 0 .. secrets + lists
      /\ factor \in Factors /\ factor # NoFactor /\ factor.secret = secrets
  BY BoundsAssumption DEF Begin, Inv, TypeOK, Present
<1>3. /\ pc'[r] = "accept" /\ op'[r] = for /\ code'[r] = c /\ read'[r] = factor
      /\ asOf'[r] = secrets + lists
      /\ \A q \in Request \ {r} : /\ pc'[q] = pc[q] /\ op'[q] = op[q] /\ code'[q] = code[q]
                                  /\ read'[q] = read[q] /\ asOf'[q] = asOf[q]
  BY DEF Begin, Goto, Read, Inv, TypeOK
<1>4. /\ pc' \in [Request -> Labels] /\ op' \in [Request -> Ops]
      /\ code' \in [Request -> Codes \cup {NoCode}] /\ read' \in [Request -> Factors]
      /\ asOf' \in [Request -> 0 .. secrets + lists]
  BY <1>2 DEF Begin, Goto, Read, Inv, TypeOK, Labels
<1>5. TypeOK'
  <2>1. Factors' = Factors /\ Codes' = Codes
    BY <1>1 DEF Factors, Codes
  <2> QED BY <1>1, <1>4, <2>1 DEF Inv, TypeOK
<1>6. \A q \in Request \ {r} : Fresh(q)' <=> Fresh(q)
  BY <1>1, <1>3 DEF Fresh
<1>7. Present' /\ OnlyProven' /\ Shown'
  BY <1>1, <1>3, <1>6 DEF Inv, Present, OnlyProven, Shown, Totp
<1>8. InHand'
  <2> SUFFICES ASSUME NEW q \in Request, (pc[q])' = "accept" PROVE InReach(q)'
    BY DEF InHand
  <2>1. CASE q # r
    <3>1. /\ pc[q] = "accept" /\ UNCHANGED <<op[q], code[q], read[q]>> /\ (Fresh(q)' <=> Fresh(q))
      BY <1>3, <1>6, <2>1
    <3>2. InReach(q)
      BY <3>1 DEF Inv, InHand
    <3> QED BY <1>1, <3>1, <3>2 DEF InReach, Totp, Recovery
  <2>2. CASE q = r
    <3>1. read'[q].secret = secrets' /\ op'[q] \notin {"none", "start"}
      BY <1>1, <1>2, <1>3, <2>2
    <3>2. CASE \E s \in 1 .. secrets, t \in 1 .. MaxStep : c = Totp(s, t)
      <4>1. PICK s \in 1 .. secrets, t \in 1 .. MaxStep : c = Totp(s, t)
        BY <3>2
      <4>2. c.kind = "totp" /\ c.of = s /\ c.at = t
        BY <4>1, CodesApart
      <4>3. s = factor.secret /\ t > factor.last
        BY <4>2 DEF Begin, Fits, NewStep
      <4>4. code'[q] = Totp(read'[q].secret, t) /\ t > read'[q].last
        BY <1>3, <2>2, <4>1, <4>3
      <4> QED BY <3>1, <4>4 DEF InReach, Totp
    <3>3. CASE \E l \in 1 .. lists, n \in Slot : c = Recovery(l, n)
      <4>1. PICK l \in 1 .. lists, n \in Slot : c = Recovery(l, n)
        BY <3>3
      <4>2. c.kind = "recovery" /\ c.of = l /\ c.at = n
        BY <4>1, CodesApart
      <4>3. for # "confirm" /\ l = factor.list /\ n \in factor.left /\ l # 0
        BY <1>2, <4>2 DEF Begin, Fits
      <4>4. /\ op'[q] # "confirm" /\ read'[q].list # 0 /\ n \in read'[q].left
            /\ code'[q] = Recovery(read'[q].list, n)
        BY <1>3, <2>2, <4>1, <4>3
      <4> QED BY <3>1, <4>4 DEF InReach, Recovery
    <3> QED BY <3>2, <3>3, CodeKinds
  <2> QED BY <2>1, <2>2
<1>9. ~crossed => VersionsGrow'
  <2> SUFFICES ASSUME ~crossed, NEW q \in Request, (pc[q])' = "accept", Fresh(q)', factor # NoFactor
               PROVE  /\ read'[q].version <= factor'.version
                      /\ read'[q].version = factor'.version =>
                           read'[q].list = factor'.list /\ read'[q].left = factor'.left
    BY <1>1 DEF VersionsGrow
  <2>1. CASE q = r
    BY <1>1, <1>2, <1>3, <2>1, FactorFields DEF AnyFactor
  <2>2. CASE q # r
    BY <1>1, <1>3, <1>6, <2>2 DEF Inv, Uncrossed, VersionsGrow
  <2> QED BY <2>1, <2>2
<1>10. Uncrossed'
  BY <1>1, <1>9 DEF Inv, Uncrossed, StepsSpent, ListNewest, LeftUnused, Totp, Recovery
<1> QED BY <1>5, <1>7, <1>8, <1>10 DEF Inv

\* What accepting a code does to requests: only a confirmed step leads to turning it on.
LEMMA AcceptRequests ==
  ASSUME Inv, NEW r \in Request, Accept(r)
  PROVE  /\ pc' \in [Request -> Labels] /\ op' \in [Request -> Ops]
         /\ code' \in [Request -> Codes \cup {NoCode}] /\ read' \in [Request -> Factors]
         /\ asOf' \in [Request -> 0 .. secrets + lists]
         /\ pc'[r] # "accept"
         /\ pc'[r] = "turn_on" => op[r] = "confirm" /\ asOf'[r] = asOf[r]
         /\ \A q \in Request \ {r} : /\ pc'[q] = pc[q] /\ op'[q] = op[q] /\ code'[q] = code[q]
                                    /\ read'[q] = read[q] /\ asOf'[q] = asOf[q]
<1> USE DEF Inv
<1>1. op[r] \in Ops \ {"none", "start"}
  BY DEF Accept, TypeOK, InHand, InReach
<1>2. CASE op[r] = "login"
  BY <1>2, ForgetTyped DEF Accept, Finish, Goto, TypeOK, Labels, Ops
<1>3. CASE op[r] = "confirm"
  BY <1>3 DEF Accept, Goto, TypeOK, Labels, Ops
<1>4. CASE op[r] = "disable"
  BY <1>4, ForgetTyped DEF Accept, Goto, TypeOK, Labels, Ops
<1>5. CASE op[r] = "regenerate"
  BY <1>5, ForgetTyped DEF Accept, Goto, TypeOK, Labels, Ops
<1> QED BY <1>1, <1>2, <1>3, <1>4, <1>5 DEF Ops

\* What it does to the factor.
SpentStep(r, t) ==
  /\ code[r] = Totp(read[r].secret, t) /\ t > factor.last /\ factor'.last = t
  /\ factor'.list = factor.list /\ factor'.left = factor.left /\ factor'.version = factor.version

SpentRecovery(r, n) ==
  /\ op[r] # "confirm" /\ code[r] = Recovery(read[r].list, n) /\ read[r].list # 0
  /\ read[r].version = factor.version /\ factor'.last = factor.last
  /\ factor'.list = read[r].list /\ factor'.left = read[r].left \ {n}
  /\ factor'.version = factor.version + 1

LEMMA AcceptFactor ==
  ASSUME Inv, NEW r \in Request, Accept(r)
  PROVE  /\ factor # NoFactor /\ factor' \in Factors
         /\ factor'.secret = factor.secret /\ factor'.confirmed = factor.confirmed
         /\ factor'.confirmed => factor'.list # 0
         /\ code[r] \in Codes
         /\ \/ \E t \in 1 .. MaxStep : SpentStep(r, t)
            \/ \E n \in read[r].left : SpentRecovery(r, n)
<1>1. InReach(r)
  BY DEF Accept, Inv, InHand
<1>2. /\ factor \in AnyFactor
      /\ factor.secret \in 0 .. secrets /\ factor.last \in 0 .. MaxStep /\ factor.list \in 0 .. lists
      /\ read[r] \in AnyFactor /\ read[r].list \in 0 .. lists
      /\ code[r] \in Codes \cup {NoCode}
  BY FactorFields DEF Inv, TypeOK
<1>3. CASE SpendStep(r)
  <2>1. code[r].kind = "totp"
    BY <1>3 DEF SpendStep
  <2>2. PICK t \in 1 .. MaxStep : code[r] = Totp(read[r].secret, t) /\ t > read[r].last
    BY <1>1, <2>1, CodesApart DEF InReach
  <2>3. code[r].at = t
    BY <2>2, CodesApart
  <2>4. /\ factor # NoFactor /\ factor.last = read[r].last
        /\ factor' = [factor EXCEPT !.last = t]
    BY <1>3, <2>3 DEF SpendStep, StepAsRead
  <2>5. t \in Nat /\ t \in 0 .. MaxStep
    BY BoundsAssumption
  <2>6. /\ factor' \in AnyFactor /\ factor'.last = t
        /\ factor'.secret = factor.secret /\ factor'.confirmed = factor.confirmed
        /\ factor'.list = factor.list /\ factor'.left = factor.left /\ factor'.version = factor.version
    BY <1>2, <2>4, <2>5, StepWritten
  <2>7. factor' \in Factors
    BY <1>2, <2>5, <2>6 DEF Factors, AnyFactor
  <2>8. code[r] \in Codes
    BY <1>2, <2>1 DEF NoCode
  <2>9. SpentStep(r, t)
    BY <2>2, <2>4, <2>6 DEF SpentStep
  <2> QED BY <2>4, <2>6, <2>7, <2>8, <2>9 DEF Inv, TypeOK
<1>4. CASE SpendRecovery(r)
  <2>1. code[r].kind = "recovery"
    BY <1>4 DEF SpendRecovery
  <2>2. /\ op[r] # "confirm" /\ read[r].list # 0
        /\ \E n \in read[r].left : code[r] = Recovery(read[r].list, n)
    BY <1>1, <2>1, CodesApart DEF InReach
  <2>3. PICK n \in read[r].left : code[r] = Recovery(read[r].list, n)
    BY <2>2
  <2>4. code[r].at = n
    BY <2>3, CodesApart
  <2>5. /\ factor # NoFactor /\ factor.version = read[r].version
        /\ factor' = [factor EXCEPT !.list = read[r].list, !.left = read[r].left \ {n},
                                    !.version = read[r].version + 1]
    BY <1>4, <2>4 DEF SpendRecovery, ListAsRead
  <2>6. /\ factor' \in AnyFactor /\ factor'.last = factor.last
        /\ factor'.secret = factor.secret /\ factor'.confirmed = factor.confirmed
        /\ factor'.list = read[r].list /\ factor'.left = read[r].left \ {n}
        /\ factor'.version = factor.version + 1
    <3>1. read[r].list \in Nat /\ read[r].left \ {n} \in SUBSET Slot /\ read[r].version + 1 \in Nat
      BY <1>2 DEF AnyFactor
    <3> DEFINE l == read[r].list
               S == read[r].left \ {n}
               v == read[r].version + 1
               g == [factor EXCEPT !.list = l, !.left = S, !.version = v]
    <3>2. v = factor.version + 1 /\ factor' = g
      BY <2>5
    <3> HIDE DEF l, S, v
    <3>3. /\ g \in AnyFactor /\ g.secret = factor.secret /\ g.confirmed = factor.confirmed
          /\ g.last = factor.last /\ g.list = l /\ g.left = S /\ g.version = v
      <4>1. l \in Nat /\ S \in SUBSET Slot /\ v \in Nat
        BY <3>1 DEF l, S, v
      <4> QED BY <1>2, <4>1 DEF AnyFactor
    <3> HIDE DEF g
    <3> QED BY <3>2, <3>3 DEF l, S
  <2>7. factor' \in Factors
    BY <1>2, <2>6 DEF Factors, AnyFactor
  <2>8. code[r] \in Codes
    BY <1>2, <2>1 DEF NoCode
  <2>9. SpentRecovery(r, n)
    BY <2>2, <2>3, <2>5, <2>6 DEF SpentRecovery
  <2> QED BY <2>2, <2>5, <2>6, <2>7, <2>8, <2>9
<1> QED BY <1>3, <1>4 DEF Accept

\* Whoever has read the factor in this era sees by it whether a code is new.
LEMMA AcceptKeeps ==
  ASSUME Inv, NEW r \in Request, Accept(r)
  PROVE  Inv'
<1>1. /\ UNCHANGED <<now, secrets, lists>>
      /\ used' = used \cup {code[r]} /\ reused' = reused \cup (used \cap {code[r]})
      /\ InReach(r) /\ pc[r] = "accept"
  BY DEF Accept, minted, Inv, InHand
<1>2. /\ factor # NoFactor /\ factor.secret = secrets /\ secrets # 0
      /\ factor' \in Factors
      /\ factor'.secret = factor.secret /\ factor'.confirmed = factor.confirmed
      /\ factor'.confirmed => factor'.list # 0
      /\ code[r] \in Codes
  BY AcceptFactor DEF Inv, Present
<1>3. /\ crossed' \in BOOLEAN
      /\ ~crossed' => ~crossed /\ Fresh(r)
  BY <1>2 DEF Accept, GoesByRead, Fresh, Inv, TypeOK
<1>4. /\ pc' \in [Request -> Labels] /\ op' \in [Request -> Ops]
      /\ code' \in [Request -> Codes \cup {NoCode}] /\ read' \in [Request -> Factors]
      /\ asOf' \in [Request -> 0 .. secrets + lists]
      /\ pc'[r] # "accept"
      /\ pc'[r] = "turn_on" => op[r] = "confirm" /\ asOf'[r] = asOf[r]
      /\ \A q \in Request \ {r} : /\ pc'[q] = pc[q] /\ op'[q] = op[q] /\ code'[q] = code[q]
                                  /\ read'[q] = read[q] /\ asOf'[q] = asOf[q]
  BY AcceptRequests
<1>5. TypeOK'
  <2>1. Factors' = Factors /\ Codes' = Codes
    BY <1>1 DEF Factors, Codes
  <2> QED BY <1>1, <1>2, <1>3, <1>4, <2>1 DEF Inv, TypeOK
<1>6. \A q \in Request \ {r} : Fresh(q)' <=> Fresh(q)
  BY <1>1, <1>4 DEF Fresh
<1>7. Present'
  BY <1>1, <1>2 DEF Present
<1>8. InHand'
  <2> SUFFICES ASSUME NEW q \in Request, (pc[q])' = "accept" PROVE InReach(q)'
    BY DEF InHand
  <2>1. /\ pc[q] = "accept" /\ UNCHANGED <<op[q], code[q], read[q]>> /\ (Fresh(q)' <=> Fresh(q))
    BY <1>4, <1>6
  <2>2. InReach(q)
    BY <2>1 DEF Inv, InHand
  <2> QED BY <1>1, <2>1, <2>2 DEF InReach, Totp, Recovery
<1>9. Shown'
  <2> SUFFICES ASSUME NEW q \in Request, (pc[q])' = "turn_on", Fresh(q)'
               PROVE  \E t \in 1 .. MaxStep : Totp(secrets, t) \in used'
    BY <1>1 DEF Shown, Totp
  <2>1. CASE q = r
    <3>1. op[r] = "confirm" /\ Fresh(r)
      BY <1>1, <1>4, <2>1 DEF Fresh
    <3>2. PICK t \in 1 .. MaxStep : code[r] = Totp(read[r].secret, t)
      BY <1>1, <3>1 DEF InReach
    <3>3. read[r].secret = secrets
      BY <1>1, <3>1 DEF InReach
    <3> QED BY <1>1, <3>2, <3>3
  <2>2. CASE q # r
    BY <1>1, <1>4, <1>6, <2>2 DEF Inv, Shown
  <2> QED BY <2>1, <2>2
<1>10. OnlyProven'
  BY <1>1, <1>2, <1>3 DEF Inv, OnlyProven, Totp
<1>11. Uncrossed'
  <2> SUFFICES ASSUME ~crossed'
               PROVE  (reused = {} /\ StepsSpent /\ ListNewest /\ LeftUnused /\ VersionsGrow)'
    BY DEF Uncrossed
  <2>1. /\ Fresh(r) /\ reused = {} /\ StepsSpent /\ ListNewest /\ LeftUnused /\ VersionsGrow
        /\ read[r].secret = secrets
    BY <1>1, <1>3 DEF Inv, Uncrossed, InReach
  <2>2. /\ factor \in AnyFactor /\ factor' \in AnyFactor
        /\ \A q \in Request : read[q] \in AnyFactor
    BY <1>2, FactorFields DEF Inv, TypeOK
  <2>3. CASE \E t \in 1 .. MaxStep : SpentStep(r, t)
    <3>1. PICK t \in 1 .. MaxStep : SpentStep(r, t)
      BY <2>3
    <3>2. /\ code[r] = Totp(secrets, t) /\ t > factor.last /\ factor'.last = t
          /\ factor'.list = factor.list /\ factor'.left = factor.left
          /\ factor'.version = factor.version
      BY <2>1, <3>1 DEF SpentStep
    <3>3. t \in Nat /\ factor.last \in Nat
      BY <2>2, BoundsAssumption DEF AnyFactor
    <3>4. code[r] \notin used
      BY <1>2, <2>1, <3>2, <3>3 DEF StepsSpent
    <3>5. reused' = {}
      BY <1>1, <2>1, <3>4
    <3>6. StepsSpent'
      <4> SUFFICES ASSUME NEW u \in 1 .. MaxStep, Totp(secrets, u) \in used' PROVE u <= t
        BY <1>1, <3>2 DEF StepsSpent, Totp
      <4>1. CASE Totp(secrets, u) = code[r]
        BY <3>2, <3>3, <4>1, CodesApart
      <4>2. CASE Totp(secrets, u) \in used
        BY <1>2, <2>1, <3>2, <3>3, <4>2 DEF StepsSpent
      <4> QED BY <1>1, <4>1, <4>2
    <3>7. ListNewest' /\ LeftUnused'
      <4>1. \A l, n : Recovery(l, n) \in used' => Recovery(l, n) \in used
        BY <1>1, <3>2, CodesApart
      <4> QED BY <1>1, <2>1, <3>2, <4>1 DEF ListNewest, LeftUnused, Recovery
    <3>8. VersionsGrow'
      BY <1>2, <1>4, <1>6, <2>1, <3>2 DEF VersionsGrow
    <3> QED BY <3>5, <3>6, <3>7, <3>8
  <2>4. CASE \E n \in read[r].left : SpentRecovery(r, n)
    <3>1. PICK n \in read[r].left : SpentRecovery(r, n)
      BY <2>4
    <3>2. read[r].list = factor.list /\ read[r].left = factor.left
      BY <1>1, <1>2, <2>1, <3>1 DEF SpentRecovery, VersionsGrow
    <3>3. /\ code[r] = Recovery(factor.list, n) /\ n \in factor.left
          /\ factor'.last = factor.last /\ factor'.list = factor.list
          /\ factor'.left = factor.left \ {n} /\ factor'.version = factor.version + 1
      BY <3>1, <3>2 DEF SpentRecovery
    <3>4. code[r] \notin used
      BY <2>1, <3>3 DEF LeftUnused
    <3>5. reused' = {}
      BY <1>1, <2>1, <3>4
    <3>6. StepsSpent'
      <4>1. \A t : Totp(secrets, t) \in used' => Totp(secrets, t) \in used
        BY <1>1, <3>3, CodesApart
      <4> QED BY <1>1, <1>2, <2>1, <3>3, <4>1 DEF StepsSpent, Totp
    <3>7. ListNewest'
      BY <1>1, <2>1, <3>3 DEF ListNewest
    <3>8. LeftUnused'
      <4> SUFFICES ASSUME NEW m \in factor.left \ {n} PROVE Recovery(factor.list, m) \notin used'
        BY <3>3 DEF LeftUnused, Recovery
      <4>1. Recovery(factor.list, m) # code[r]
        BY <3>3, CodesApart
      <4> QED BY <1>1, <2>1, <4>1 DEF LeftUnused
    <3>9. VersionsGrow'
      <4> SUFFICES ASSUME NEW q \in Request, (pc[q])' = "accept", Fresh(q)'
                   PROVE  /\ read'[q].version <= factor'.version
                          /\ read'[q].version # factor'.version
        BY DEF VersionsGrow
      <4>1. q # r /\ pc[q] = "accept" /\ Fresh(q) /\ read'[q] = read[q]
        BY <1>4, <1>6
      <4>2. read[q].version <= factor.version
        BY <1>2, <2>1, <4>1 DEF VersionsGrow
      <4>3. read[q].version \in Nat /\ factor.version \in Nat
        BY <2>2 DEF AnyFactor
      <4> QED BY <3>3, <4>1, <4>2, <4>3
    <3> QED BY <3>5, <3>6, <3>7, <3>8, <3>9
  <2> QED BY <2>3, <2>4, AcceptFactor
<1> QED BY <1>5, <1>7, <1>8, <1>9, <1>10, <1>11 DEF Inv

-----------------------------------------------------------------------------
(* Theorems.                                                               *)

LEMMA InvStep == Inv /\ [Next]_vars => Inv'
<1> SUFFICES ASSUME Inv, [Next]_vars PROVE Inv'
  OBVIOUS
<1>1. ASSUME NEW r \in Request, Start(r) \/ GiveUp(r) \/ Reread(r) \/ Delete(r) PROVE Inv'
  BY <1>1, QuietSteps
<1>2. ASSUME NEW r \in Request, Enrol(r) PROVE Inv'
  BY <1>2, EnrolKeeps
<1>3. ASSUME NEW r \in Request, TurnOn(r) \/ ReplaceCodes(r) PROVE Inv'
  BY <1>3, ListSteps
<1>4. ASSUME NEW r \in Request, NEW for \in {"confirm", "login", "disable", "regenerate"},
             NEW c \in Codes, Begin(r, for, c)
      PROVE  Inv'
  <2>1. for \in Ops \ {"none", "start"}
    BY DEF Ops
  <2> QED BY <1>4, <2>1, BeginKeeps
<1>5. ASSUME NEW r \in Request, Accept(r) PROVE Inv'
  BY <1>5, AcceptKeeps
<1>6. CASE Reset \/ Tick \/ UNCHANGED vars
  BY <1>6, OutsideKeeps
<1> QED BY <1>1, <1>2, <1>3, <1>4, <1>5, <1>6 DEF Next

\* The invariant holds in every reachable state.
THEOREM InvHolds == Spec => []Inv
<1> QED BY InvInit, InvStep, PTL DEF Spec

\* Every variable stays in its range, a confirmed factor has recovery codes, and without a
\* secret there is no factor (mfa.py:98-236).
THEOREM TypeCorrect == Spec => []TypeOK
<1>1. Inv => TypeOK
  BY DEF Inv
<1> QED BY <1>1, InvHolds, PTL

\* However many requests carry a code at once, it is accepted once, by the conditional writes
\* on the last step and on the version (mfa.py:206-228), as long as no write goes by a factor
\* read before a newer secret or list.
THEOREM AcceptedOnce == Spec => []WorksOnce
<1>1. Inv => WorksOnce
  BY DEF Inv, Uncrossed, WorksOnce
<1> QED BY <1>1, InvHolds, PTL

\* Under the same condition only a secret that was proved to be in the user's app is on
\* (confirm_totp, mfa.py:130-148).
THEOREM OnIsProven == Spec => []OnlyProven
<1>1. Inv => OnlyProven
  BY DEF Inv
<1> QED BY <1>1, InvHolds, PTL

\* Under the same condition the recovery codes that work are of the newest list and unused
\* (mfa.py:137-177, 214-228).
THEOREM CodesAreNewest == Spec => []NewestCodes
<1>1. Inv => NewestCodes
  BY DEF Inv, TypeOK, Uncrossed, ListNewest, LeftUnused, NewestCodes
<1> QED BY <1>1, InvHolds, PTL

\* A factor that was removed comes back by enrolment only, whoever writes late
\* (the updates of mfa.py:137-177 and 207-228 do not create records).
THEOREM RemovedStaysRemoved == Spec => GoneStaysGone
<1> DEFINE Gone == factor = NoFactor => ~factor'.confirmed
<1>1. Inv /\ [Next]_vars => [Gone]_vars
  <2> SUFFICES ASSUME Inv, Next, factor = NoFactor PROVE ~factor'.confirmed
    OBVIOUS
  <2>1. ASSUME NEW r \in Request, Enrol(r) PROVE ~factor'.confirmed
    BY <2>1 DEF Enrol, NoFactor
  <2>2. ASSUME NEW r \in Request, Accept(r) PROVE FALSE
    BY <2>2, AcceptFactor
  <2>3. ASSUME NEW r \in Request, TurnOn(r) \/ ReplaceCodes(r) PROVE factor' = NoFactor
    BY <2>3 DEF TurnOn, SwitchedOn, ReplaceCodes
  <2>4. ~NoFactor.confirmed
    BY NoFactorFields
  <2> QED BY <2>1, <2>2, <2>3, <2>4 DEF Next, Start, Begin, GiveUp, Delete, Reread, Reset, Tick
<1>2. Spec => [][Gone]_vars
  BY <1>1, InvHolds, PTL DEF Spec
<1> QED BY <1>2 DEF GoneStaysGone

\* Codes work once, what is on was proved, and the codes are the newest (mfa.py:104-236).
THEOREM CodesStay == Spec => []CodesHold
<1>1. TypeOK /\ WorksOnce /\ OnlyProven /\ NewestCodes => CodesHold
  BY DEF CodesHold
<1> QED BY <1>1, TypeCorrect, AcceptedOnce, OnIsProven, CodesAreNewest, PTL
=============================================================================
