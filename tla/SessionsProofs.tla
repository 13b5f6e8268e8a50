--------------------------- MODULE SessionsProofs ---------------------------
(***************************************************************************)
(* Proofs about Sessions, for any number of sessions, requests, tokens,    *)
(* outages and cancellations.                                              *)
(***************************************************************************)
EXTENDS Sessions, TLAPS

-----------------------------------------------------------------------------
(* Types.                                                                  *)

LEMMA RecordsClosed ==
  ASSUME NEW record \in Record, NEW copy \in Record, NEW t \in 0 .. MaxToken,
         clock \in 0 .. MaxClock
  PROVE  /\ Born \in Record /\ Nothing \in Record /\ Revoked(record) \in Record
         /\ Rotated(record, copy, t) \in Record
  BY BoundsAssumption DEF Record, Born, Nothing, Revoked, Rotated

LEMMA RecordGone ==
  ASSUME NEW record \in Record
  PROVE  [record EXCEPT !.state = "gone"] \in Record
  BY DEF Record

LEMMA InitTyped == Init => TypeOK
  <1>. SUFFICES ASSUME Init PROVE TypeOK
    OBVIOUS
  <1>1. Born \in Record /\ Nothing \in Record
    BY BoundsAssumption DEF Record, Born, Nothing
  <1>. QED
    BY <1>1, BoundsAssumption, NamesAssumption
    DEF Init, TypeOK, NoCopy, Labels, Ops, Ending, Results

LEMMA AnswerTyped ==
  ASSUME TypeOK, NEW r \in Request, NEW how \in Results, Answer(r, how)
  PROVE  /\ pc' \in [Request -> Labels] /\ op' \in [Request -> Ops]
         /\ sid' \in [Request -> Session \cup {NoSession}]
         /\ tok' \in [Request -> 0 .. MaxToken] /\ mine' \in [Request -> 0 .. MaxToken]
         /\ seen' \in [Request -> Record]
         /\ live' \in [Request -> SUBSET Session] /\ todo' \in [Request -> SUBSET Session]
         /\ result' \in [Request -> Results]
         /\ \A q \in Request :
              pc'[q] \in {"get", "read", "fill", "got", "user", "rotate", "revoke"}
                => sid'[q] \in Session
  <1>1. Nothing \in Record
    BY BoundsAssumption DEF Record, Nothing
  <1>. QED
    BY <1>1, BoundsAssumption DEF Answer, Goto, TypeOK, Labels, Ops

LEMMA StartTyped ==
  ASSUME TypeOK, NEW r \in Request, Serving(r)
  PROVE  TypeOK'
  <1>1. ASSUME NEW what \in Ops, NEW s \in Session \cup {NoSession},
               NEW t \in 0 .. MaxToken, NEW label \in Labels,
               label \in {"get", "revoke"} => s \in Session,
               label \notin {"read", "fill", "got", "user", "rotate"},
               Start(r, what, s, t, label)
        PROVE  TypeOK'
    <2>1. late' \in [Request -> {"no", "ended", "raced", "suspended", "replay"}]
      BY <1>1 DEF Start, TypeOK
    <2>2. \A q \in Request :
            pc'[q] \in {"get", "read", "fill", "got", "user", "rotate", "revoke"}
              => sid'[q] \in Session
      BY <1>1 DEF Start, Goto, TypeOK
    <2>. QED
      BY <1>1, <2>1, <2>2 DEF Start, Goto, TypeOK, store, Results
  <1>2. \A s \in Session : Presentable(s) \subseteq 0 .. MaxToken
    BY BoundsAssumption DEF Presentable, TypeOK, Verified
  <1>. QED
    BY <1>1, <1>2, BoundsAssumption DEF Serving, Labels, Ops, Ending

LEMMA ServeTyped ==
  ASSUME TypeOK, NEW r \in Request, Serve(r)
  PROVE  TypeOK'
  <1>0. /\ Nothing \in Record /\ Born \in Record
        /\ \A record \in Record : Revoked(record) \in Record
        /\ \A record, copy \in Record : \A t \in 0 .. MaxToken :
             Rotated(record, copy, t) \in Record
    BY RecordsClosed, BoundsAssumption DEF TypeOK, Record, Nothing
  <1>1. ASSUME NEW S \in SUBSET Session, NEW change \in [Session -> Record], Write(S, change)
        PROVE  db' \in [Session -> Record] /\ raced' \subseteq Session
    BY <1>1 DEF Write, TypeOK
  <1>2. \A how \in Results : Answer(r, how) =>
          /\ pc' \in [Request -> Labels] /\ op' \in [Request -> Ops]
          /\ sid' \in [Request -> Session \cup {NoSession}]
          /\ tok' \in [Request -> 0 .. MaxToken] /\ mine' \in [Request -> 0 .. MaxToken]
          /\ seen' \in [Request -> Record]
          /\ live' \in [Request -> SUBSET Session] /\ todo' \in [Request -> SUBSET Session]
          /\ result' \in [Request -> Results]
          /\ \A q \in Request :
               pc'[q] \in {"get", "read", "fill", "got", "user", "rotate", "revoke"}
                 => sid'[q] \in Session
    BY AnswerTyped
  <1>3. CASE Get(r)
    <2>1. seen' \in [Request -> Record] /\ pc' \in [Request -> Labels]
      BY <1>3 DEF Get, Goto, TypeOK, Labels
    <2>2. UNCHANGED <<op, sid, tok, mine, live, todo, result>> /\ UNCHANGED store
          /\ UNCHANGED history
      BY <1>3 DEF Get
    <2>3. \A q \in Request : pc'[q] \in {"get", "read", "fill", "got", "user", "rotate", "revoke"}
            => sid'[q] \in Session
      BY <1>3, <2>2 DEF Get, Goto, TypeOK
    <2>. QED
      BY <2>1, <2>2, <2>3 DEF TypeOK, store, history
  <1>4. CASE Read(r)
    <2>1. seen' \in [Request -> Record] /\ pc' \in [Request -> Labels]
      BY <1>4 DEF Read, Goto, TypeOK, Labels
    <2>2. UNCHANGED <<op, sid, tok, mine, live, todo, result>> /\ UNCHANGED store
          /\ UNCHANGED history
      BY <1>4 DEF Read
    <2>3. \A q \in Request : pc'[q] \in {"get", "read", "fill", "got", "user", "rotate", "revoke"}
            => sid'[q] \in Session
      BY <1>4, <2>2 DEF Read, Goto, TypeOK
    <2>. QED
      BY <2>1, <2>2, <2>3 DEF TypeOK, store, history
  <1>5. CASE Fill(r)
    <2>1. cache' \in [Session -> Record] /\ pc' \in [Request -> Labels]
      BY <1>5 DEF Fill, Goto, TypeOK, Labels
    <2>2. UNCHANGED <<db, up, signed, clock, account, jar, op, sid, tok, seen, mine, live, todo, result>>
          /\ UNCHANGED history
      BY <1>5 DEF Fill
    <2>3. \A q \in Request : pc'[q] \in {"get", "read", "fill", "got", "user", "rotate", "revoke"}
            => sid'[q] \in Session
      BY <1>5, <2>2 DEF Fill, Goto, TypeOK
    <2>. QED
      BY <2>1, <2>2, <2>3 DEF TypeOK, history
  <1>6. CASE Admit(r)
    BY <1>6, <1>2 DEF Admit, TypeOK, Results, store, history
  <1>7. CASE SilentRefresh(r)
    <2>1. pc' \in [Request -> Labels] /\ op' \in [Request -> Ops]
      BY <1>7 DEF SilentRefresh, Goto, TypeOK, Labels, Ops
    <2>2. sid[r] \in Session
      BY <1>7 DEF SilentRefresh, TypeOK
    <2>3. tok' \in [Request -> 0 .. MaxToken]
      BY <1>7, <2>2 DEF SilentRefresh, TypeOK
    <2>4. UNCHANGED <<sid, seen, mine, live, todo, result>> /\ UNCHANGED store /\ UNCHANGED history
      BY <1>7 DEF SilentRefresh
    <2>5. \A q \in Request : pc'[q] \in {"get", "read", "fill", "got", "user", "rotate", "revoke"}
            => sid'[q] \in Session
      BY <1>7, <2>2, <2>4 DEF SilentRefresh, Goto, TypeOK
    <2>. QED
      BY <2>1, <2>3, <2>4, <2>5 DEF TypeOK, store, history
  <1>8. CASE RefuseRefresh(r)
    BY <1>8, <1>2 DEF RefuseRefresh, TypeOK, Results, store, history
  <1>9. CASE CheckToken(r)
    <2>1. pc' \in [Request -> Labels] /\ op' \in [Request -> Ops]
      <3>1. \/ op' = op \/ op' = [op EXCEPT ![r] = "reuse"]
        BY <1>9 DEF CheckToken
      <3>2. pc' = [pc EXCEPT ![r] = "user"] \/ pc' = [pc EXCEPT ![r] = "revoke"]
        BY <1>9 DEF CheckToken, Goto
      <3>. QED
        BY <3>1, <3>2 DEF TypeOK, Labels, Ops, Ending
    <2>2. UNCHANGED <<sid, tok, seen, mine, live, todo, result>> /\ UNCHANGED store
          /\ UNCHANGED history
      BY <1>9 DEF CheckToken
    <2>3. sid[r] \in Session
      BY <1>9 DEF CheckToken, TypeOK
    <2>4. \A q \in Request : pc'[q] \in {"get", "read", "fill", "got", "user", "rotate", "revoke"}
            => sid'[q] \in Session
      BY <1>9, <2>2, <2>3 DEF CheckToken, Goto, TypeOK
    <2>. QED
      BY <2>1, <2>2, <2>4 DEF TypeOK, store, history
  <1>10. CASE CheckAccount(r)
    BY <1>10 DEF CheckAccount, Goto, TypeOK, Labels, Ops, Ending, store, history
  <1>11. CASE Rotate(r)
    <2>. DEFINE s == sid[r]
                t == signed[s] + 1
                hit == {s} \ {x \in Session : ~Stored(x)}
                change == [x \in Session |-> Rotated(db[x], seen[r], t)]
    <2>1. s \in Session /\ t \in 0 .. MaxToken
      BY <1>11, BoundsAssumption DEF Rotate, TypeOK, Issue, NextToken
    <2>2. hit \in SUBSET Session /\ change \in [Session -> Record]
      BY <2>1, <1>0 DEF TypeOK
    <2>3. Write(hit, change)
      BY <1>11 DEF Rotate, Issue, NextToken
    <2>4. db' \in [Session -> Record] /\ raced' \subseteq Session
      BY <1>1, <2>2, <2>3
    <2>5. todo' \in [Request -> SUBSET Session] /\ mine' \in [Request -> 0 .. MaxToken]
      BY <1>11, <2>1, <2>2 DEF Rotate, TypeOK, Issue, NextToken
    <2>. HIDE DEF hit, change
    <2>. QED
      BY <1>11, <2>1, <2>4, <2>5 DEF Rotate, Goto, TypeOK, Labels, Issue, NextToken
  <1>12. CASE Suspend(r)
    BY <1>12 DEF Suspend, Goto, TypeOK, Labels, history
  <1>13. CASE Enable(r)
    <2>1. late' \in [Request -> {"no", "ended", "raced", "suspended", "replay"}]
      BY <1>13 DEF Enable, TypeOK
    <2>. QED
      BY <1>13, <1>2, <2>1 DEF Enable, TypeOK, Results
  <1>14. CASE NoSuchAccount(r)
    BY <1>14, <1>2 DEF NoSuchAccount, TypeOK, Results, store, history
  <1>15. CASE Revoke(r)
    <2>. DEFINE hit == {sid[r]} \ {x \in Session : ~Stored(x)}
                change == [x \in Session |-> Revoked(db[x])]
    <2>1. hit \in SUBSET Session /\ change \in [Session -> Record]
      BY <1>15, <1>0 DEF Revoke, TypeOK
    <2>2. db' \in [Session -> Record] /\ raced' \subseteq Session
      BY <1>15, <1>1, <2>1 DEF Revoke
    <2>3. live' \in [Request -> SUBSET Session] /\ todo' \in [Request -> SUBSET Session]
      BY <1>15, <2>1 DEF Revoke, TypeOK
    <2>. HIDE DEF hit, change
    <2>. QED
      BY <1>15, <2>2, <2>3 DEF Revoke, Goto, TypeOK, Labels
  <1>16. CASE List(r)
    BY <1>16 DEF List, Goto, TypeOK, Labels, store, history
  <1>17. CASE RevokeAll(r)
    <2>. DEFINE hit == {s \in live[r] : Stored(s)}
                change == [x \in Session |-> Revoked(db[x])]
    <2>1. hit \in SUBSET Session /\ change \in [Session -> Record]
      BY <1>17, <1>0 DEF RevokeAll, TypeOK
    <2>2. db' \in [Session -> Record] /\ raced' \subseteq Session
      BY <1>17, <1>1, <2>1 DEF RevokeAll
    <2>. HIDE DEF hit, change
    <2>. QED
      BY <1>17, <2>2 DEF RevokeAll, Goto, TypeOK, Labels
  <1>18. CASE Drop(r)
    <2>1. cache' \in [Session -> Record]
      <3>1. PICK s \in todo[r] : cache' = cache \/ cache' = WithoutCopy(s)
        BY <1>18 DEF Drop
      <3>. QED
        BY <1>0, <3>1 DEF TypeOK, WithoutCopy, NoCopy
    <2>2. todo' \in [Request -> SUBSET Session] /\ raced' \subseteq Session
      BY <1>18 DEF Drop, TypeOK, Forgotten, Missed
    <2>3. UNCHANGED <<db, up, signed, clock, account, jar,
                      pc, op, sid, tok, seen, mine, live, result, ended, late, spent>>
      BY <1>18 DEF Drop
    <2>. QED
      BY <2>1, <2>2, <2>3 DEF TypeOK
  <1>19. CASE Reply(r)
    <2>1. jar' \in [Session -> 0 .. MaxToken] /\ ended' \subseteq Session
      BY <1>19 DEF Reply, TypeOK
    <2>. QED
      BY <1>19, <1>2, <2>1 DEF Reply, TypeOK, Results
  <1>20. CASE CheckLogin(r)
    BY <1>20, <1>2 DEF CheckLogin, Goto, TypeOK, Labels, Results, store, history
  <1>21. ASSUME NEW s \in Session, OpenSession(r, s)
         PROVE  TypeOK'
    <2>. DEFINE change == [x \in Session |-> Born]
    <2>1. change \in [Session -> Record] /\ {s} \in SUBSET Session
      BY <1>0
    <2>2. db' \in [Session -> Record] /\ raced' \subseteq Session
      BY <1>21, <1>1, <2>1 DEF OpenSession, Issue
    <2>3. /\ signed' \in [Session -> 0 .. MaxToken] /\ mine' \in [Request -> 0 .. MaxToken]
          /\ todo' \in [Request -> SUBSET Session] /\ pc' \in [Request -> Labels]
          /\ sid' \in [Request -> Session \cup {NoSession}]
      BY <1>21, BoundsAssumption DEF OpenSession, Goto, TypeOK, Labels, Issue
    <2>4. \A q \in Request :
            pc'[q] \in {"get", "read", "fill", "got", "user", "rotate", "revoke"}
              => sid'[q] \in Session
      BY <1>21 DEF OpenSession, Goto, TypeOK, Issue
    <2>5. UNCHANGED <<cache, up, clock, account, jar, op, tok, seen, live, result,
                      ended, late, spent>>
      BY <1>21 DEF OpenSession, Issue
    <2>. HIDE DEF change
    <2>. QED
      BY <2>2, <2>3, <2>4, <2>5 DEF TypeOK
  <1>. QED
    BY <1>3, <1>4, <1>5, <1>6, <1>7, <1>8, <1>9, <1>10, <1>11, <1>12, <1>13, <1>14,
       <1>15, <1>16, <1>17, <1>18, <1>19, <1>20, <1>21 DEF Serve

LEMMA StepTyped == TypeOK /\ [Next]_vars => TypeOK'
  <1>. SUFFICES ASSUME TypeOK, [Next]_vars PROVE TypeOK'
    OBVIOUS
  <1>0. Nothing \in Record
    BY BoundsAssumption DEF Record, Nothing
  <1>1. ASSUME NEW r \in Request, Cancel(r) PROVE TypeOK'
    <2>1. Answer(r, "none") /\ "none" \in Results /\ UNCHANGED <<store, ended, late>>
      BY <1>1 DEF Cancel, Results
    <2>2. raced' \subseteq Session
      BY <1>1 DEF Cancel, Missed, TypeOK
    <2>3. spent' \in [outage : 0 .. MaxOutages, cancel : 0 .. MaxCancels]
      BY <1>1, BoundsAssumption DEF Cancel, TypeOK
    <2>. HIDE DEF Answer
    <2>. QED
      BY <2>1, <2>2, <2>3, AnswerTyped DEF TypeOK, store
  <1>2. CASE World
    <2>1. ASSUME NEW s \in Session, CacheExpires(s) PROVE TypeOK'
      BY <2>1, <1>0 DEF CacheExpires, TypeOK, WithoutCopy, NoCopy, Forgotten, request
    <2>2. ASSUME NEW s \in Session, SessionExpires(s) PROVE TypeOK'
      <3>1. [db[s] EXCEPT !.state = "gone"] \in Record
        <4>1. db[s] \in Record
          BY DEF TypeOK
        <4>. QED
          BY <4>1, RecordGone
      <3>2. db' = [db EXCEPT ![s] = [db[s] EXCEPT !.state = "gone"]]
        BY <2>2 DEF SessionExpires
      <3>3. db' \in [Session -> Record]
        BY <3>1, <3>2 DEF TypeOK
      <3>. QED
        BY <2>2, <3>3 DEF SessionExpires, TypeOK, request, history
    <2>3. CASE CacheFails
      <3>1. spent.outage \in 0 .. MaxOutages /\ spent.outage < MaxOutages
        BY <2>3 DEF CacheFails, TypeOK
      <3>2. spent' \in [outage : 0 .. MaxOutages, cancel : 0 .. MaxCancels]
        BY <2>3, <3>1, BoundsAssumption DEF CacheFails, TypeOK
      <3>. QED
        BY <2>3, <3>2 DEF CacheFails, TypeOK, request
    <2>4. CASE CacheHeals
      BY <2>4 DEF CacheHeals, TypeOK, request, history
    <2>5. CASE GraceEnds
      BY <2>5, BoundsAssumption DEF GraceEnds, TypeOK, request, history
    <2>. QED
      BY <1>2, <2>1, <2>2, <2>3, <2>4, <2>5 DEF World
  <1>3. CASE UNCHANGED vars
    BY <1>3 DEF vars, store, request, history, TypeOK
  <1>. QED
    BY <1>1, <1>2, <1>3, StartTyped, ServeTyped DEF Next

\* Whatever clients ask for and whatever fails, every variable keeps to its range.
THEOREM TypeCorrect == Spec => []TypeOK
  BY InitTyped, StepTyped, PTL DEF Spec

-----------------------------------------------------------------------------
(* The inductive invariant.                                                *)

\* A session that will never be live again.
Over(s) == db[s].state \in {"revoked", "gone"}

CopyLive(s) == cache[s].state = "live" /\ db[s].state # "gone"

\* A record on its way to the cache is current, unless a write met it in flight.
FillsAreCurrent ==
  \A r \in Request : pc[r] = "fill" =>
    db[sid[r]].state = "gone" \/ seen[r] = db[sid[r]] \/ sid[r] \in raced

\* What a request lists it revokes, and what it has revoked stays so.
ListedAreRevoked ==
  \A r \in Request :
    /\ pc[r] \notin {"revoke_all", "drop"} => live[r] = {}
    /\ pc[r] = "revoke_all" => \A s \in live[r] : db[s].state # "none"
    /\ pc[r] = "drop" => \A s \in live[r] : Over(s)

EndedAreOver == \A s \in ended : Over(s)

\* Once a revoking request has dropped the copy, only a race brings a live one back.
DroppedStayDropped ==
  /\ \A s \in ended : CopyLive(s) => s \in raced
  /\ \A r \in Request : pc[r] = "drop" =>
       \A s \in live[r] \ todo[r] : CopyLive(s) => s \in raced

StoreInv ==
  /\ FillsAreCurrent /\ CachedIsCurrent /\ ListedAreRevoked
  /\ EndedAreOver /\ DroppedStayDropped

-----------------------------------------------------------------------------
(* What the steps have in common.                                          *)

\* Only request r moves.
OnlyMoves(r) ==
  \A q \in Request \ {r} :
    /\ pc'[q] = pc[q] /\ sid'[q] = sid[q] /\ seen'[q] = seen[q]
    /\ live'[q] = live[q] /\ todo'[q] = todo[q]

\* A step that writes neither store.
Quiet(r) ==
  /\ UNCHANGED <<db, cache, raced, ended>> /\ OnlyMoves(r)
  /\ pc'[r] = "fill" => seen'[r] = db[sid'[r]]
  /\ pc'[r] \notin {"revoke_all", "drop"} => live'[r] = {}
  /\ pc'[r] = "revoke_all" => \A s \in live'[r] : db[s].state # "none"
  /\ pc'[r] = "drop" => live'[r] = {}

\* A step that writes the database and has the copies still to drop.
Writes(r) ==
  /\ UNCHANGED <<cache, ended>> /\ OnlyMoves(r)
  /\ pc'[r] = "drop"
  /\ raced \subseteq raced'
  /\ \A s \in Session :
       /\ db'[s] = db[s] \/ (s \in todo'[r] /\ (Filling(s) => s \in raced'))
       /\ db[s].state = "gone" => db'[s] = db[s]
       /\ Over(s) => Over(s)'
       /\ db[s].state # "none" => db'[s].state # "none"
  /\ \A s \in live'[r] : Over(s)' /\ s \in todo'[r]

LEMMA AnswerMoves ==
  ASSUME TypeOK, NEW r \in Request, NEW how \in Results, Answer(r, how)
  PROVE  /\ OnlyMoves(r) /\ pc'[r] = "idle" /\ live'[r] = {} /\ todo'[r] = {}
         /\ sid'[r] = NoSession /\ op'[r] = "none" /\ result'[r] = how
         /\ \A q \in Request \ {r} : op'[q] = op[q] /\ result'[q] = result[q]
  BY DEF Answer, Goto, OnlyMoves, TypeOK

LEMMA StartMoves ==
  ASSUME TypeOK, StoreInv, NEW r \in Request, Serving(r)
  PROVE  Quiet(r)
  <1>1. ASSUME NEW what, NEW s, NEW t, NEW label \in {"get", "revoke", "list", "status", "account"},
               Start(r, what, s, t, label)
        PROVE  Quiet(r)
    BY <1>1 DEF Start, Goto, Quiet, OnlyMoves, TypeOK, store, StoreInv, ListedAreRevoked
  <1>. QED
    BY <1>1 DEF Serving

QuietServe(r) ==
  \/ Get(r) \/ Read(r) \/ Admit(r) \/ SilentRefresh(r)
  \/ RefuseRefresh(r) \/ CheckToken(r) \/ CheckAccount(r)
  \/ Suspend(r) \/ Enable(r) \/ NoSuchAccount(r) \/ List(r) \/ CheckLogin(r)

WritingServe(r) ==
  \/ Rotate(r) \/ Revoke(r) \/ RevokeAll(r) \/ \E s \in Session : OpenSession(r, s)

LEMMA QuietMoves ==
  ASSUME TypeOK, StoreInv, NEW r \in Request, QuietServe(r)
  PROVE  Quiet(r)
  <1>. USE DEF Quiet
  <1>1. CASE Get(r)
    BY <1>1 DEF Get, Goto, OnlyMoves, TypeOK, store, history, StoreInv, ListedAreRevoked
  <1>2. CASE Read(r)
    BY <1>2 DEF Read, Goto, OnlyMoves, TypeOK, store, history, StoreInv, ListedAreRevoked
  <1>3. CASE Admit(r)
    BY <1>3, AnswerMoves DEF Admit, Results, store, history
  <1>4. CASE SilentRefresh(r)
    BY <1>4 DEF SilentRefresh, Goto, OnlyMoves, TypeOK, store, history, StoreInv, ListedAreRevoked
  <1>5. CASE RefuseRefresh(r)
    BY <1>5, AnswerMoves DEF RefuseRefresh, Results, store, history
  <1>6. CASE CheckToken(r)
    BY <1>6 DEF CheckToken, Goto, OnlyMoves, TypeOK, store, history, StoreInv, ListedAreRevoked
  <1>7. CASE CheckAccount(r)
    BY <1>7 DEF CheckAccount, Goto, OnlyMoves, TypeOK, store, history, StoreInv, ListedAreRevoked
  <1>8. CASE Suspend(r)
    BY <1>8 DEF Suspend, Goto, OnlyMoves, TypeOK, history, StoreInv, ListedAreRevoked
  <1>9. CASE Enable(r)
    BY <1>9, AnswerMoves DEF Enable, Results
  <1>10. CASE NoSuchAccount(r)
    BY <1>10, AnswerMoves DEF NoSuchAccount, Results, store, history
  <1>11. CASE List(r)
    BY <1>11 DEF List, Goto, OnlyMoves, TypeOK, store, history
  <1>12. CASE CheckLogin(r)
    <2>1. CASE account = "active"
      BY <1>12, <2>1 DEF CheckLogin, Goto, OnlyMoves, TypeOK, store, history, StoreInv, ListedAreRevoked
    <2>2. CASE account # "active"
      BY <1>12, <2>2, AnswerMoves DEF CheckLogin, Results, store, history
    <2>. QED
      BY <2>1, <2>2
  <1>. QED
    BY <1>1, <1>2, <1>3, <1>4, <1>5, <1>6, <1>7, <1>8, <1>9, <1>10, <1>11, <1>12
    DEF QuietServe

LEMMA WritingMoves ==
  ASSUME TypeOK, StoreInv, NEW r \in Request, WritingServe(r)
  PROVE  Writes(r)
  <1>1. CASE Rotate(r)
    <2>1. sid[r] \in Session /\ live[r] = {} /\ live'[r] = {}
      BY <1>1 DEF Rotate, TypeOK, StoreInv, ListedAreRevoked, Issue, NextToken
    <2>2. \A s \in Session :
            db'[s] = IF s = sid[r] /\ Stored(s)
                     THEN Rotated(db[s], seen[r], signed[sid[r]] + 1) ELSE db[s]
      BY <1>1 DEF Rotate, Write, Issue, NextToken
    <2>3. todo'[r] = {sid[r]} \ {x \in Session : ~Stored(x)}
      BY <1>1 DEF Rotate, TypeOK, Issue, NextToken
    <2>4. /\ raced \subseteq raced'
          /\ Stored(sid[r]) /\ Filling(sid[r]) => sid[r] \in raced'
      BY <1>1, <2>1 DEF Rotate, Write, Issue, NextToken
    <2>5. OnlyMoves(r) /\ pc'[r] = "drop" /\ UNCHANGED <<cache, ended>>
      BY <1>1 DEF Rotate, Goto, OnlyMoves, TypeOK, Issue, NextToken
    <2>6. \A s \in Session : db'[s].state = db[s].state
      <3>1. \A record, copy, t : Rotated(record, copy, t).state = record.state
        BY DEF Rotated
      <3>. QED
        BY <2>2, <3>1
    <2>7. \A s \in Session : /\ Over(s) => Over(s)'
                            /\ db[s].state = "gone" => db'[s] = db[s]
      BY <2>2, <2>6 DEF Over, Stored
    <2>8. \A s \in Session : db'[s] = db[s] \/ (s \in todo'[r] /\ (Filling(s) => s \in raced'))
      BY <2>1, <2>2, <2>3, <2>4
    <2>. QED
      BY <2>1, <2>4, <2>5, <2>6, <2>7, <2>8 DEF Writes, Over
  <1>2. CASE Revoke(r)
    <2>1. sid[r] \in Session
      BY <1>2 DEF Revoke, TypeOK
    <2>2. \A s \in Session :
            db'[s] = IF s = sid[r] /\ Stored(s) THEN Revoked(db[s]) ELSE db[s]
      BY <1>2 DEF Revoke, Write
    <2>3. /\ live'[r] = {sid[r]} \ {x \in Session : ~Stored(x)}
          /\ todo'[r] = live'[r]
      BY <1>2 DEF Revoke, TypeOK
    <2>4. /\ raced \subseteq raced'
          /\ Stored(sid[r]) /\ Filling(sid[r]) => sid[r] \in raced'
      BY <1>2, <2>1 DEF Revoke, Write
    <2>5. OnlyMoves(r) /\ pc'[r] = "drop" /\ UNCHANGED <<cache, ended>>
      BY <1>2 DEF Revoke, Goto, OnlyMoves, TypeOK
    <2>6. \A s \in Session : Revoked(db[s]).state = "revoked"
      BY DEF Revoked, TypeOK, Record
    <2>. QED
      BY <2>1, <2>2, <2>3, <2>4, <2>5, <2>6 DEF Writes, Stored, Over
  <1>3. CASE RevokeAll(r)
    <2>1. live[r] \subseteq Session /\ live'[r] = live[r] /\ todo'[r] = live[r]
      BY <1>3 DEF RevokeAll, TypeOK
    <2>2. \A s \in Session :
            db'[s] = IF s \in live[r] /\ Stored(s) THEN Revoked(db[s]) ELSE db[s]
      BY <1>3, <2>1 DEF RevokeAll, Write
    <2>3. /\ raced \subseteq raced'
          /\ \A s \in live[r] : Stored(s) /\ Filling(s) => s \in raced'
      BY <1>3 DEF RevokeAll, Write
    <2>4. OnlyMoves(r) /\ pc'[r] = "drop" /\ UNCHANGED <<cache, ended>>
      BY <1>3 DEF RevokeAll, Goto, OnlyMoves, TypeOK
    <2>5. \A s \in live[r] : db[s].state \in {"live", "revoked", "gone"}
      BY <1>3, <2>1 DEF RevokeAll, StoreInv, ListedAreRevoked, TypeOK, Record
    <2>6. \A s \in Session : Revoked(db[s]).state = "revoked"
      BY DEF Revoked, TypeOK, Record
    <2>. QED
      BY <2>1, <2>2, <2>3, <2>4, <2>5, <2>6 DEF Writes, Stored, Over
  <1>4. ASSUME NEW x \in Session, OpenSession(r, x)
        PROVE  Writes(r)
    <2>1. live'[r] = {} /\ todo'[r] = {x} /\ db[x].state = "none"
      BY <1>4 DEF OpenSession, TypeOK, StoreInv, ListedAreRevoked, Issue
    <2>2. \A s \in Session : db'[s] = IF s = x THEN Born ELSE db[s]
      BY <1>4 DEF OpenSession, Write, Issue
    <2>3. raced \subseteq raced' /\ (Filling(x) => x \in raced')
      BY <1>4 DEF OpenSession, Write, Issue
    <2>4. OnlyMoves(r) /\ pc'[r] = "drop" /\ UNCHANGED <<cache, ended>>
      BY <1>4 DEF OpenSession, Goto, OnlyMoves, TypeOK, Issue
    <2>5. \A s \in Session : db[s].state # "none" => db'[s] = db[s]
      BY <2>1, <2>2
    <2>6. db'[x].state = "live"
      BY <2>2 DEF Born
    <2>7. \A s \in Session : Over(s) => Over(s)'
      BY <2>5 DEF Over
    <2>. QED
      BY <2>1, <2>2, <2>3, <2>4, <2>5, <2>6, <2>7 DEF Writes
  <1>. QED
    BY <1>1, <1>2, <1>3, <1>4 DEF WritingServe

-----------------------------------------------------------------------------
(* StoreInv is inductive.                                                  *)

LEMMA InitStore == Init => StoreInv
  BY DEF Init, StoreInv, FillsAreCurrent, CachedIsCurrent, ListedAreRevoked, EndedAreOver,
         DroppedStayDropped, NoCopy

\* Steps that write neither store.
LEMMA QuietKeeps ==
  ASSUME TypeOK, TypeOK', StoreInv, NEW r \in Request, Quiet(r),
         pc[r] = "drop" => todo[r] = {}
  PROVE  StoreInv'
  <1>1. FillsAreCurrent'
    BY DEF Quiet, OnlyMoves, StoreInv, FillsAreCurrent
  <1>2. \A s \in Session : Dropping(s) => Dropping(s)'
    BY DEF Quiet, OnlyMoves, Dropping
  <1>3. CachedIsCurrent'
    BY <1>2 DEF Quiet, StoreInv, CachedIsCurrent
  <1>4. ListedAreRevoked'
    BY DEF Quiet, OnlyMoves, StoreInv, ListedAreRevoked, Over
  <1>5. EndedAreOver'
    BY DEF Quiet, StoreInv, EndedAreOver, Over
  <1>6. DroppedStayDropped'
    BY DEF Quiet, OnlyMoves, StoreInv, DroppedStayDropped, CopyLive
  <1>. QED
    BY <1>1, <1>3, <1>4, <1>5, <1>6 DEF StoreInv

LEMMA WritesKeep ==
  ASSUME TypeOK, TypeOK', StoreInv, NEW r \in Request, Writes(r), pc[r] # "drop", pc[r] # "fill"
  PROVE  StoreInv'
  <1>1. FillsAreCurrent'
    <2>. SUFFICES ASSUME NEW q \in Request, pc'[q] = "fill"
                  PROVE  db'[sid'[q]].state = "gone" \/ seen'[q] = db'[sid'[q]] \/ sid'[q] \in raced'
      BY DEF FillsAreCurrent
    <2>1. q # r /\ pc[q] = "fill" /\ sid'[q] = sid[q] /\ seen'[q] = seen[q]
      BY DEF Writes, OnlyMoves
    <2>2. sid[q] \in Session /\ Filling(sid[q])
      BY <2>1 DEF TypeOK, Filling
    <2>. QED
      BY <2>1, <2>2 DEF Writes, StoreInv, FillsAreCurrent
  <1>2. \A s \in Session : Dropping(s) => Dropping(s)'
    BY DEF Writes, OnlyMoves, Dropping
  <1>3. \A s \in Session : db'[s] # db[s] => Dropping(s)'
    BY DEF Writes, Dropping
  <1>4. CachedIsCurrent'
    BY <1>2, <1>3 DEF Writes, StoreInv, CachedIsCurrent
  <1>5. ListedAreRevoked'
    <2>1. \A q \in Request : live[q] \subseteq Session
      BY DEF TypeOK
    <2>. QED
      BY <2>1 DEF Writes, OnlyMoves, StoreInv, ListedAreRevoked
  <1>6. EndedAreOver'
    BY DEF Writes, StoreInv, EndedAreOver, TypeOK
  <1>7. \A s \in Session : Over(s) /\ CopyLive(s)' => CopyLive(s)
    BY DEF Writes, Over, CopyLive
  <1>8. DroppedStayDropped'
    <2>1. \A s \in ended : s \in Session /\ Over(s)
      BY DEF StoreInv, EndedAreOver, TypeOK
    <2>2. \A q \in Request : pc[q] = "drop" => \A s \in live[q] : s \in Session /\ Over(s)
      BY DEF StoreInv, ListedAreRevoked, TypeOK
    <2>. QED
      BY <1>7, <2>1, <2>2 DEF Writes, OnlyMoves, StoreInv, DroppedStayDropped
  <1>. QED
    BY <1>1, <1>4, <1>5, <1>6, <1>8 DEF StoreInv

LEMMA FillKeeps ==
  ASSUME TypeOK, TypeOK', StoreInv, NEW r \in Request, Fill(r)
  PROVE  StoreInv'
  <1>. DEFINE s == sid[r]
  <1>0. s \in Session /\ pc[r] = "fill" /\ live[r] = {}
    BY DEF Fill, TypeOK, StoreInv, ListedAreRevoked
  <1>1. /\ \A x \in Session : cache'[x] = cache[x] \/ (x = s /\ cache'[x] = seen[r])
        /\ UNCHANGED <<db, raced, ended, sid, seen, live, todo>>
        /\ pc'[r] = "got" /\ \A q \in Request \ {r} : pc'[q] = pc[q]
    BY DEF Fill, Goto, TypeOK, history
  <1>2. db[s].state = "gone" \/ seen[r] = db[s] \/ s \in raced
    BY <1>0 DEF StoreInv, FillsAreCurrent
  <1>3. FillsAreCurrent' /\ ListedAreRevoked' /\ EndedAreOver'
    BY <1>0, <1>1 DEF StoreInv, FillsAreCurrent, ListedAreRevoked, EndedAreOver, Over
  <1>4. \A x \in Session : Dropping(x) => Dropping(x)'
    BY <1>0, <1>1 DEF Dropping
  <1>5. CachedIsCurrent'
    BY <1>1, <1>2, <1>4 DEF StoreInv, CachedIsCurrent
  <1>6. \A x \in Session : Over(x) /\ CopyLive(x)' => CopyLive(x) \/ x \in raced
    BY <1>1, <1>2 DEF Over, CopyLive
  <1>7. DroppedStayDropped'
    <2>1. \A x \in ended : x \in Session /\ Over(x)
      BY DEF StoreInv, EndedAreOver, TypeOK
    <2>2. \A q \in Request : pc[q] = "drop" => \A x \in live[q] : x \in Session /\ Over(x)
      BY DEF StoreInv, ListedAreRevoked, TypeOK
    <2>. QED
      BY <1>0, <1>1, <1>6, <2>1, <2>2 DEF StoreInv, DroppedStayDropped
  <1>. QED
    BY <1>3, <1>5, <1>7 DEF StoreInv

\* A copy is dropped, or left where it should have gone.
LEMMA DropKeeps ==
  ASSUME TypeOK, TypeOK', StoreInv, NEW r \in Request, Drop(r)
  PROVE  StoreInv'
  <1>1. PICK s \in todo[r] :
          /\ todo' = [todo EXCEPT ![r] = todo[r] \ {s}]
          /\ IF up THEN cache' = WithoutCopy(s) /\ raced' = Forgotten(s)
                   ELSE UNCHANGED cache /\ raced' = Missed({s})
    BY DEF Drop
  <1>2. pc[r] = "drop" /\ s \in Session /\ UNCHANGED <<db, ended, pc, sid, seen, live>>
    BY DEF Drop, TypeOK
  <1>3. /\ \A x \in Session \ {s} : cache'[x] = cache[x] /\ (x \in raced' <=> x \in raced)
        /\ cache'[s] = NoCopy \/ s \in raced'
        /\ Filling(s) /\ s \in raced => s \in raced'
    BY <1>1, <1>2 DEF WithoutCopy, Forgotten, Missed, TypeOK
  <1>4. FillsAreCurrent'
    <2>1. \A q \in Request : pc[q] = "fill" => sid[q] \in Session /\ Filling(sid[q])
      BY DEF TypeOK, Filling
    <2>. QED
      BY <1>2, <1>3, <2>1 DEF StoreInv, FillsAreCurrent
  <1>5. \A x \in Session \ {s} : Dropping(x) => Dropping(x)'
    BY <1>1, <1>2 DEF Dropping, TypeOK
  <1>6. CachedIsCurrent'
    BY <1>2, <1>3, <1>5 DEF StoreInv, CachedIsCurrent
  <1>7. ListedAreRevoked' /\ EndedAreOver'
    BY <1>2 DEF StoreInv, ListedAreRevoked, EndedAreOver, Over
  <1>8. DroppedStayDropped'
    <2>1. \A x \in Session : x # s => (CopyLive(x)' <=> CopyLive(x))
      BY <1>2, <1>3 DEF CopyLive
    <2>2. CopyLive(s)' => s \in raced'
      BY <1>3 DEF CopyLive, NoCopy, Nothing
    <2>3. \A q \in Request : live[q] \subseteq Session /\ (q # r => todo'[q] = todo[q])
      BY <1>1 DEF TypeOK
    <2>4. todo'[r] = todo[r] \ {s}
      BY <1>1 DEF TypeOK
    <2>5. ended \subseteq Session
      BY DEF TypeOK
    <2>. QED
      BY <1>2, <1>3, <2>1, <2>2, <2>3, <2>4, <2>5 DEF StoreInv, DroppedStayDropped
  <1>. QED
    BY <1>4, <1>6, <1>7, <1>8 DEF StoreInv

LEMMA ReplyKeeps ==
  ASSUME TypeOK, TypeOK', StoreInv, NEW r \in Request, Reply(r)
  PROVE  StoreInv'
  <1>1. /\ UNCHANGED <<db, cache, raced>> /\ pc[r] = "drop" /\ todo[r] = {}
        /\ ended' \subseteq ended \cup live[r]
        /\ OnlyMoves(r) /\ pc'[r] = "idle" /\ live'[r] = {}
    BY AnswerMoves DEF Reply, Results
  <1>2. FillsAreCurrent'
    BY <1>1 DEF OnlyMoves, StoreInv, FillsAreCurrent
  <1>3. \A s \in Session : Dropping(s) => Dropping(s)'
    BY <1>1 DEF OnlyMoves, Dropping
  <1>4. CachedIsCurrent'
    BY <1>1, <1>3 DEF StoreInv, CachedIsCurrent
  <1>5. ListedAreRevoked'
    BY <1>1 DEF OnlyMoves, StoreInv, ListedAreRevoked, Over
  <1>6. EndedAreOver'
    BY <1>1 DEF StoreInv, EndedAreOver, ListedAreRevoked, Over
  <1>7. DroppedStayDropped'
    BY <1>1 DEF OnlyMoves, StoreInv, DroppedStayDropped, CopyLive
  <1>. QED
    BY <1>2, <1>4, <1>5, <1>6, <1>7 DEF StoreInv

LEMMA CancelKeeps ==
  ASSUME TypeOK, TypeOK', StoreInv, NEW r \in Request, Cancel(r)
  PROVE  StoreInv'
  <1>1. /\ UNCHANGED <<db, cache, ended>>
        /\ raced \subseteq raced'
        /\ pc[r] = "drop" => \A s \in todo[r] : cache[s] = NoCopy \/ s \in raced'
        /\ OnlyMoves(r) /\ pc'[r] = "idle" /\ live'[r] = {}
    BY AnswerMoves DEF Cancel, Results, store, Missed
  <1>2. FillsAreCurrent'
    BY <1>1 DEF OnlyMoves, StoreInv, FillsAreCurrent
  <1>3. \A s \in Session : Dropping(s) => Dropping(s)' \/ cache[s] = NoCopy \/ s \in raced'
    BY <1>1 DEF OnlyMoves, Dropping
  <1>4. CachedIsCurrent'
    BY <1>1, <1>3 DEF StoreInv, CachedIsCurrent
  <1>5. ListedAreRevoked'
    BY <1>1 DEF OnlyMoves, StoreInv, ListedAreRevoked, Over
  <1>6. EndedAreOver'
    BY <1>1 DEF StoreInv, EndedAreOver, Over
  <1>7. DroppedStayDropped'
    BY <1>1 DEF OnlyMoves, StoreInv, DroppedStayDropped, CopyLive
  <1>. QED
    BY <1>2, <1>4, <1>5, <1>6, <1>7 DEF StoreInv

LEMMA WorldKeeps ==
  ASSUME TypeOK, TypeOK', StoreInv, World
  PROVE  StoreInv'
  <1>1. ASSUME NEW s \in Session, CacheExpires(s) PROVE StoreInv'
    <2>1. /\ UNCHANGED <<db, ended, pc, sid, seen, live, todo>>
          /\ \A x \in Session \ {s} : cache'[x] = cache[x] /\ (x \in raced' <=> x \in raced)
          /\ cache'[s] = NoCopy
          /\ Filling(s) /\ s \in raced => s \in raced'
      BY <1>1 DEF CacheExpires, request, WithoutCopy, Forgotten, TypeOK
    <2>2. FillsAreCurrent'
      <3>1. \A q \in Request : pc[q] = "fill" => sid[q] \in Session /\ Filling(sid[q])
        BY DEF TypeOK, Filling
      <3>. QED
        BY <2>1, <3>1 DEF StoreInv, FillsAreCurrent
    <2>3. \A x \in Session : Dropping(x) => Dropping(x)'
      BY <2>1 DEF Dropping
    <2>4. CachedIsCurrent'
      BY <2>1, <2>3 DEF StoreInv, CachedIsCurrent
    <2>5. ListedAreRevoked' /\ EndedAreOver'
      BY <2>1 DEF StoreInv, ListedAreRevoked, EndedAreOver, Over
    <2>6. \A x \in Session : CopyLive(x)' => x # s /\ CopyLive(x)
      BY <2>1 DEF CopyLive, NoCopy, Nothing
    <2>7. DroppedStayDropped'
      BY <2>1, <2>6 DEF StoreInv, DroppedStayDropped, TypeOK
    <2>. QED
      BY <2>2, <2>4, <2>5, <2>7 DEF StoreInv
  <1>2. ASSUME NEW s \in Session, SessionExpires(s) PROVE StoreInv'
    <2>1. /\ UNCHANGED <<cache, raced, ended, pc, sid, seen, live, todo>>
          /\ \A x \in Session \ {s} : db'[x] = db[x]
          /\ db'[s].state = "gone"
      BY <1>2 DEF SessionExpires, request, history, TypeOK, Record
    <2>2. FillsAreCurrent'
      BY <2>1 DEF StoreInv, FillsAreCurrent, TypeOK
    <2>3. \A x \in Session : Dropping(x) => Dropping(x)'
      BY <2>1 DEF Dropping
    <2>4. CachedIsCurrent'
      BY <2>1, <2>3 DEF StoreInv, CachedIsCurrent
    <2>5. \A x \in Session :
            /\ Over(x) => Over(x)'
            /\ db[x].state # "none" => db'[x].state # "none"
            /\ CopyLive(x)' => CopyLive(x)
      BY <2>1 DEF Over, CopyLive
    <2>6. ListedAreRevoked'
      BY <2>1, <2>5 DEF StoreInv, ListedAreRevoked, TypeOK, Over
    <2>7. EndedAreOver' /\ DroppedStayDropped'
      BY <2>1, <2>5 DEF StoreInv, EndedAreOver, DroppedStayDropped, TypeOK, Over, CopyLive
    <2>. QED
      BY <2>2, <2>4, <2>6, <2>7 DEF StoreInv
  <1>3. ASSUME UNCHANGED <<db, cache, raced, ended, pc, sid, seen, live, todo>>
        PROVE  StoreInv'
    BY <1>3 DEF StoreInv, FillsAreCurrent, CachedIsCurrent, ListedAreRevoked, EndedAreOver,
                DroppedStayDropped, Dropping, Over, CopyLive
  <1>. QED
    BY <1>1, <1>2, <1>3 DEF World, CacheFails, CacheHeals, GraceEnds, request, history

LEMMA StoreStep == TypeOK /\ StoreInv /\ [Next]_vars => StoreInv'
  <1>. SUFFICES ASSUME TypeOK, StoreInv, [Next]_vars PROVE StoreInv'
    OBVIOUS
  <1>0. TypeOK'
    BY StepTyped
  <1>1. ASSUME NEW r \in Request, Serving(r) PROVE StoreInv'
    <2>1. pc[r] # "drop"
      BY <1>1 DEF Serving, Start
    <2>. QED
      BY <1>0, <1>1, <2>1, StartMoves, QuietKeeps
  <1>2. ASSUME NEW r \in Request, QuietServe(r) PROVE StoreInv'
    <2>1. pc[r] # "drop"
      BY <1>2 DEF QuietServe, Get, Read, Admit, SilentRefresh, RefuseRefresh, CheckToken,
                  CheckAccount, Suspend, Enable, NoSuchAccount, List, CheckLogin
    <2>. QED
      BY <1>0, <1>2, <2>1, QuietMoves, QuietKeeps
  <1>3. ASSUME NEW r \in Request, WritingServe(r) PROVE StoreInv'
    <2>1. pc[r] # "drop" /\ pc[r] # "fill"
      BY <1>3 DEF WritingServe, Rotate, Revoke, RevokeAll, OpenSession, Issue, NextToken
    <2>. QED
      BY <1>0, <1>3, <2>1, WritingMoves, WritesKeep
  <1>4. ASSUME NEW r \in Request, Serve(r) PROVE StoreInv'
    <2>1. \/ QuietServe(r) \/ WritingServe(r) \/ Fill(r) \/ Drop(r) \/ Reply(r)
      BY <1>4 DEF Serve, QuietServe, WritingServe
    <2>. QED
      BY <1>0, <1>2, <1>3, <2>1, FillKeeps, DropKeeps, ReplyKeeps
  <1>5. CASE UNCHANGED vars
    BY <1>5 DEF vars, store, request, history, StoreInv, FillsAreCurrent, CachedIsCurrent,
                ListedAreRevoked, EndedAreOver, DroppedStayDropped, Dropping, Over, CopyLive
  <1>. QED
    BY <1>0, <1>1, <1>4, <1>5, CancelKeeps, WorldKeeps DEF Next

\* Through every interleaving, outage and cancellation the cached copy of a session is
\* the stored record, unless its drop is pending or a write met an open window.
THEOREM CopiesAreCurrent == Spec => []CachedIsCurrent
  <1>1. Init => TypeOK /\ StoreInv
    BY InitTyped, InitStore
  <1>2. TypeOK /\ StoreInv /\ [Next]_vars => (TypeOK /\ StoreInv)'
    BY StepTyped, StoreStep
  <1>3. TypeOK /\ StoreInv => CachedIsCurrent
    BY DEF StoreInv
  <1>. QED
    BY <1>1, <1>2, <1>3, PTL DEF Spec

\* A revocation that was answered is never undone in the database, whatever rotations
\* computed from older copies are written afterwards.
THEOREM RevocationsLast == Spec => []EndedInStore
  <1>1. Init => TypeOK /\ StoreInv
    BY InitTyped, InitStore
  <1>2. TypeOK /\ StoreInv /\ [Next]_vars => (TypeOK /\ StoreInv)'
    BY StepTyped, StoreStep
  <1>3. TypeOK /\ StoreInv => EndedInStore
    BY DEF StoreInv, EndedAreOver, Over, EndedInStore
  <1>. QED
    BY <1>1, <1>2, <1>3, PTL DEF Spec

-----------------------------------------------------------------------------
(* Requests that come in late.                                             *)

\* No copy of the session says it is live, and none that does is on its way.
Dead(s) ==
  db[s].state = "gone" \/ (/\ cache[s].state # "live"
                           /\ \A q \in Request :
                                pc[q] = "fill" /\ sid[q] = s => seen[q].state # "live")

Asking(r) == pc[r] # "idle" /\ op[r] \in {"call", "refresh"}

\* A request that asks in vain.
Hopeless(r) ==
  /\ Over(sid[r]) /\ Dead(sid[r])
  /\ pc[r] \in {"get", "read", "fill", "got"}
  /\ pc[r] = "got" => ~Active(sid[r], seen[r])

LateAfterEnd ==
  \A r \in Request : late[r] = "ended" =>
    /\ result[r] \notin {"accepted", "rotated"}
    /\ Asking(r) => Hopeless(r)

LateAfterSuspension ==
  \A r \in Request :
    /\ pc[r] \in {"revoke", "list", "revoke_all", "account", "create"} => op[r] # "refresh"
    /\ late[r] = "suspended" =>
         /\ account # "active" /\ result[r] # "rotated" /\ pc[r] # "rotate"
         /\ pc[r] = "drop" => op[r] # "refresh"

GoneStays(s) == db[s].state = "gone" => db'[s].state = "gone"

\* Sessions that are over and dead stay so, whoever moves.
LEMMA DeadStays ==
  ASSUME TypeOK, TypeOK', StoreInv, [Next]_vars, NEW s \in Session, Over(s), Dead(s)
  PROVE  Over(s)' /\ Dead(s)' /\ GoneStays(s)
  <1>1. ASSUME NEW r \in Request, Quiet(r) PROVE Over(s)' /\ Dead(s)' /\ GoneStays(s)
    BY <1>1 DEF Quiet, OnlyMoves, Over, Dead, GoneStays
  <1>2. ASSUME NEW r \in Request, Writes(r) PROVE Over(s)' /\ Dead(s)' /\ GoneStays(s)
    <2>1. Over(s)' /\ GoneStays(s)
      BY <1>2 DEF Writes, Over, GoneStays
    <2>. QED
      BY <1>2, <2>1 DEF Writes, OnlyMoves, Dead, Over
  <1>3. ASSUME NEW r \in Request, Fill(r) PROVE Over(s)' /\ Dead(s)' /\ GoneStays(s)
    <2>1. /\ cache'[s] = cache[s] \/ (s = sid[r] /\ cache'[s] = seen[r])
          /\ UNCHANGED <<db, sid, seen>> /\ pc[r] = "fill"
          /\ \A q \in Request : pc'[q] = "fill" => pc[q] = "fill"
      BY <1>3 DEF Fill, Goto, TypeOK
    <2>. QED
      BY <2>1 DEF Dead, Over, GoneStays
  <1>4. ASSUME NEW r \in Request, Drop(r) \/ Reply(r) \/ Cancel(r) PROVE Over(s)' /\ Dead(s)' /\ GoneStays(s)
    <2>1. /\ UNCHANGED db
          /\ cache'[s] = cache[s] \/ cache'[s] = NoCopy
          /\ \A q \in Request : pc'[q] = "fill" =>
               pc[q] = "fill" /\ sid'[q] = sid[q] /\ seen'[q] = seen[q]
      <3>1. CASE Drop(r)
        BY <3>1 DEF Drop, WithoutCopy, TypeOK
      <3>2. CASE Reply(r) \/ Cancel(r)
        BY <3>2, AnswerMoves DEF Reply, Cancel, Results, OnlyMoves, store
      <3>. QED
        BY <1>4, <3>1, <3>2
    <2>. QED
      BY <2>1 DEF Dead, Over, GoneStays, NoCopy, Nothing
  <1>5. CASE World
    <2>1. /\ db'[s] = db[s] \/ db'[s].state = "gone"
          /\ cache'[s] = cache[s] \/ cache'[s] = NoCopy
          /\ UNCHANGED <<pc, sid, seen>>
      BY <1>5 DEF World, CacheExpires, SessionExpires, CacheFails, CacheHeals, GraceEnds,
                  WithoutCopy, TypeOK, Record, request
    <2>. QED
      BY <2>1 DEF Dead, Over, GoneStays, NoCopy, Nothing
  <1>6. CASE UNCHANGED vars
    BY <1>6 DEF vars, store, request, Over, Dead, GoneStays
  <1>7. ASSUME NEW r \in Request, Serve(r) PROVE Over(s)' /\ Dead(s)' /\ GoneStays(s)
    BY <1>1, <1>2, <1>3, <1>4, <1>7, QuietMoves, WritingMoves
    DEF Serve, QuietServe, WritingServe
  <1>. QED
    BY <1>1, <1>4, <1>5, <1>6, <1>7, StartMoves DEF Next

LEMMA InitLate == Init => LateAfterEnd /\ LateAfterSuspension
  BY DEF Init, LateAfterEnd, LateAfterSuspension, Asking

\* A request that stays where it is stays as hopeless as it was.
LEMMA HopelessWaits ==
  ASSUME TypeOK, TypeOK', StoreInv, [Next]_vars, NEW r \in Request, Hopeless(r),
         UNCHANGED <<pc[r], sid[r], seen[r]>>
  PROVE  Hopeless(r)'
  <1>1. PICK s \in Session : s = sid[r]
    BY DEF Hopeless, TypeOK
  <1>2. Over(s)' /\ Dead(s)' /\ GoneStays(s)
    BY <1>1, DeadStays DEF Hopeless
  <1>3. Over(sid[r])' /\ Dead(sid[r])'
    BY <1>1, <1>2 DEF Over, Dead
  <1>4. pc'[r] = "got" => ~Active(sid[r], seen[r])'
    BY <1>1, <1>2 DEF Hopeless, Active, GoneStays
  <1>. QED
    BY <1>3, <1>4 DEF Hopeless

\* What the step of one request leaves alone of another's.
Untouched(r) ==
  /\ UNCHANGED <<pc[r], op[r], sid[r], seen[r], result[r]>>
  /\ late'[r] = late[r] \/ (late[r] = "suspended" /\ late'[r] = "no" /\ account' = "active")
  /\ late[r] = "suspended" /\ late'[r] = "suspended" /\ account # "active"
       => account' # "active"

LEMMA OthersUntouched ==
  ASSUME TypeOK, NEW q \in Request, NEW r \in Request, q # r,
         Serving(q) \/ Serve(q) \/ Cancel(q)
  PROVE  Untouched(r)
  <1>. USE DEF Untouched
  <1>0. \A how \in Results : Answer(q, how) =>
          UNCHANGED <<pc[r], op[r], sid[r], seen[r], result[r]>>
    BY DEF Answer, Goto, TypeOK
  <1>1. CASE Serving(q)
    BY <1>1 DEF Serving, Start, Goto, TypeOK, store
  <1>2. CASE Cancel(q)
    BY <1>0, <1>2 DEF Cancel, Results, store
  <1>3. CASE Get(q) \/ Read(q) \/ Fill(q) \/ SilentRefresh(q) \/ CheckToken(q) \/ CheckAccount(q)
    BY <1>3 DEF Get, Read, Fill, SilentRefresh, CheckToken, CheckAccount, Goto, TypeOK, store, history
  <1>4. CASE Admit(q) \/ RefuseRefresh(q) \/ NoSuchAccount(q)
    BY <1>0, <1>4 DEF Admit, RefuseRefresh, NoSuchAccount, Results, store, history
  <1>5. CASE Rotate(q) \/ Revoke(q) \/ RevokeAll(q) \/ List(q) \/ Drop(q)
    BY <1>5 DEF Rotate, Revoke, RevokeAll, List, Drop, Goto, TypeOK, store, history, Issue, NextToken
  <1>6. CASE Suspend(q)
    BY <1>6 DEF Suspend, Goto, TypeOK, history
  <1>7. CASE Enable(q)
    BY <1>0, <1>7 DEF Enable, Results, TypeOK
  <1>8. CASE Reply(q)
    BY <1>0, <1>8 DEF Reply, Results
  <1>9. CASE CheckLogin(q)
    BY <1>0, <1>9 DEF CheckLogin, Goto, Results, TypeOK, store, history
  <1>10. ASSUME NEW s \in Session, OpenSession(q, s) PROVE Untouched(r)
    BY <1>10 DEF OpenSession, Goto, TypeOK, Issue
  <1>. QED
    BY <1>1, <1>2, <1>3, <1>4, <1>5, <1>6, <1>7, <1>8, <1>9, <1>10 DEF Serve

\* A request that comes in for a session that was ended outside the windows.
LEMMA EndedIsDead ==
  ASSUME TypeOK, StoreInv, NEW s \in Session, s \in ended, s \notin raced
  PROVE  Over(s) /\ Dead(s)
  <1>1. Over(s)
    BY DEF StoreInv, EndedAreOver
  <1>2. ~CopyLive(s)
    BY DEF StoreInv, DroppedStayDropped
  <1>3. \A q \in Request : pc[q] = "fill" /\ sid[q] = s =>
          db[s].state = "gone" \/ seen[q].state # "live"
    BY <1>1 DEF StoreInv, FillsAreCurrent, Over
  <1>. QED
    BY <1>1, <1>2, <1>3 DEF Dead, CopyLive

LEMMA OwnEndStep ==
  ASSUME TypeOK, TypeOK', StoreInv, LateAfterEnd, [Next]_vars, NEW r \in Request,
         Serving(r) \/ Serve(r) \/ Cancel(r), late'[r] = "ended"
  PROVE  result'[r] \notin {"accepted", "rotated"} /\ (Asking(r)' => Hopeless(r)')
  <1>. DEFINE Goal == result'[r] \notin {"accepted", "rotated"} /\ (Asking(r)' => Hopeless(r)')
  <1>1. ASSUME NEW how \in Results \ {"accepted", "rotated"}, Answer(r, how)
        PROVE  Goal
    BY <1>1, AnswerMoves DEF Asking
  <1>2. CASE Serving(r)
    <2>a. PICK s \in Session \cup {NoSession} : \E what, t, label :
            /\ Start(r, what, s, t, label)
            /\ label # "fill"
            /\ what \in {"call", "refresh"} => label = "get"
      BY <1>2 DEF Serving
    <2>1. PICK what, t, label :
            /\ Start(r, what, s, t, label)
            /\ label # "fill"
            /\ what \in {"call", "refresh"} => label = "get"
      BY <2>a
    <2>2. /\ s \in ended /\ s \notin raced /\ UNCHANGED store
          /\ result'[r] = "none" /\ sid'[r] = s
          /\ (Asking(r)' => pc'[r] = "get")
          /\ \A q \in Request : pc'[q] = "fill" =>
                pc[q] = "fill" /\ sid'[q] = sid[q] /\ seen'[q] = seen[q]
      <3>1. late'[r] = IF s \in ended THEN IF s \in raced THEN "raced" ELSE "ended"
              ELSE IF what = "refresh" /\ account # "active" THEN "suspended"
              ELSE IF what = "refresh" /\ Stored(s) /\ ~Current(db[s], t) THEN "replay"
              ELSE "no"
        BY <2>1 DEF Start, TypeOK
      <3>2. s \in ended /\ s \notin raced
        BY <3>1
      <3>3. result'[r] = "none" /\ sid'[r] = s /\ UNCHANGED store
        BY <2>1 DEF Start, TypeOK
      <3>4. op'[r] = what /\ pc'[r] = label
        BY <2>1 DEF Start, Goto, TypeOK
      <3>5. Asking(r)' => pc'[r] = "get"
        BY <2>1, <3>4 DEF Asking
      <3>6. ASSUME NEW q \in Request, pc'[q] = "fill"
            PROVE  pc[q] = "fill" /\ sid'[q] = sid[q] /\ seen'[q] = seen[q]
        BY <2>1, <3>4, <3>6 DEF Start, Goto, TypeOK
      <3>. QED
        BY <3>2, <3>3, <3>5, <3>6
    <2>3. s \in Session
      BY <2>2 DEF TypeOK
    <2>4. Over(s) /\ Dead(s)
      BY <2>2, <2>3, EndedIsDead
    <2>5. Over(sid[r])' /\ Dead(sid[r])'
      BY <2>2, <2>4 DEF Over, Dead, store
    <2>. QED
      BY <2>2, <2>5 DEF Hopeless
  <1>3. CASE Cancel(r)
    BY <1>1, <1>3 DEF Cancel, Results
  <1>4. CASE Serve(r)
    <2>1. late[r] = "ended"
      <3>1. CASE Get(r) \/ Read(r) \/ Fill(r) \/ Admit(r) \/ SilentRefresh(r)
        BY <3>1 DEF Get, Read, Fill, Admit, SilentRefresh, history, TypeOK, Issue
      <3>2. CASE RefuseRefresh(r) \/ CheckToken(r) \/ CheckAccount(r) \/ Rotate(r)
        BY <3>2 DEF RefuseRefresh, CheckToken, CheckAccount, Rotate, history, TypeOK, Issue, NextToken
      <3>3. CASE Suspend(r) \/ Enable(r) \/ NoSuchAccount(r) \/ Revoke(r) \/ List(r)
        BY <3>3 DEF Suspend, Enable, NoSuchAccount, Revoke, List, history, TypeOK
      <3>4. CASE \/ RevokeAll(r) \/ Drop(r) \/ Reply(r) \/ CheckLogin(r)
                 \/ \E s \in Session : OpenSession(r, s)
        BY <3>4 DEF RevokeAll, Drop, Reply, CheckLogin, OpenSession, history, TypeOK, Issue
      <3>. QED
        BY <1>4, <3>1, <3>2, <3>3, <3>4 DEF Serve
    <2>2. result[r] \notin {"accepted", "rotated"} /\ (Asking(r) => Hopeless(r))
      BY <2>1 DEF LateAfterEnd
    <2>3. ASSUME Asking(r)
          PROVE  /\ Over(sid[r]) /\ Dead(sid[r]) /\ sid[r] \in Session
                 /\ \A s \in Session : s = sid[r] => Over(s)' /\ Dead(s)' /\ GoneStays(s)
      BY <2>2, <2>3, DeadStays DEF Hopeless, TypeOK
    <2>4. CASE Get(r)
      <3>1. /\ UNCHANGED <<db, cache, op, sid, result>>
            /\ pc'[r] \in {"got", "read"}
            /\ pc'[r] = "got" => seen'[r] = cache[sid[r]]
        BY <2>4 DEF Get, Goto, TypeOK, store
      <3>2. Asking(r)' => Asking(r)
        BY <2>4, <3>1 DEF Asking, Get
      <3>3. ASSUME Asking(r) PROVE Hopeless(r)'
        <4>1. Over(sid[r])' /\ Dead(sid[r])'
          BY <2>3, <3>1, <3>3 DEF Over, Dead
        <4>2. pc'[r] = "got" => ~Active(sid[r], seen[r])'
          BY <2>3, <3>1, <3>3 DEF Active, Dead
        <4>. QED
          BY <3>1, <4>1, <4>2 DEF Hopeless
      <3>. QED
        BY <2>2, <3>1, <3>2, <3>3
    <2>5. CASE Read(r)
      <3>1. /\ UNCHANGED <<db, op, sid, result>>
            /\ pc'[r] \in {"got", "fill"} /\ seen'[r] = db[sid[r]]
        BY <2>5 DEF Read, Goto, TypeOK, store
      <3>2. Asking(r)' => Asking(r)
        BY <2>5, <3>1 DEF Asking, Read
      <3>3. ASSUME Asking(r) PROVE Hopeless(r)'
        <4>1. Over(sid[r])' /\ Dead(sid[r])'
          BY <2>3, <3>1, <3>3 DEF Over, Dead
        <4>2. ~Active(sid[r], seen[r])'
          BY <2>3, <3>1, <3>3 DEF Active, Over
        <4>. QED
          BY <3>1, <4>1, <4>2 DEF Hopeless
      <3>. QED
        BY <2>2, <3>1, <3>2, <3>3
    <2>6. CASE Fill(r)
      <3>1. /\ UNCHANGED <<db, op, sid, seen, result>> /\ pc[r] = "fill" /\ pc'[r] = "got"
        BY <2>6 DEF Fill, Goto, TypeOK
      <3>2. Asking(r)' => Asking(r)
        BY <3>1 DEF Asking
      <3>3. ASSUME Asking(r) PROVE Hopeless(r)'
        <4>1. Over(sid[r])' /\ Dead(sid[r])'
          BY <2>3, <3>1, <3>3 DEF Over, Dead
        <4>2. ~Active(sid[r], seen[r])'
          BY <2>3, <3>1, <3>3 DEF Active, Dead
        <4>. QED
          BY <3>1, <4>1, <4>2 DEF Hopeless
      <3>. QED
        BY <2>2, <3>1, <3>2, <3>3
    <2>7. CASE Admit(r)
      <3>1. Asking(r) /\ pc[r] = "got"
        BY <2>7 DEF Admit, Asking
      <3>2. Answer(r, "none")
        BY <2>2, <2>7, <3>1 DEF Admit, Hopeless
      <3>. QED
        BY <1>1, <3>2 DEF Results
    <2>8. CASE SilentRefresh(r)
      <3>1. /\ UNCHANGED <<db, cache, sid, result>> /\ pc'[r] = "get" /\ Asking(r)
        BY <2>8 DEF SilentRefresh, Goto, TypeOK, store, Asking
      <3>2. Over(sid[r])' /\ Dead(sid[r])'
        BY <2>3, <3>1 DEF Over, Dead
      <3>. QED
        BY <2>2, <3>1, <3>2 DEF Hopeless
    <2>9. CASE RefuseRefresh(r) \/ NoSuchAccount(r) \/ Enable(r)
      BY <1>1, <2>9 DEF RefuseRefresh, NoSuchAccount, Enable, Results
    <2>10. CASE CheckToken(r)
      <3>1. Asking(r) /\ pc[r] = "got" /\ Active(sid[r], seen[r])
        BY <2>10 DEF CheckToken, Asking
      <3>. QED
        BY <2>2, <3>1 DEF Hopeless
    <2>11. CASE \/ CheckAccount(r) \/ Rotate(r) \/ Suspend(r) \/ Revoke(r) \/ List(r)
                \/ RevokeAll(r) \/ Drop(r) \/ \E s \in Session : OpenSession(r, s)
      <3>1. ~Asking(r)
        BY <2>2, <2>11 DEF Hopeless, CheckAccount, Rotate, Suspend, Revoke, List, RevokeAll, Drop,
           OpenSession, Issue, NextToken
      <3>2. pc[r] # "idle" /\ result' = result /\ (op'[r] = op[r] \/ op'[r] = "suspended")
        BY <2>11 DEF CheckAccount, Rotate, Suspend, Revoke, List, RevokeAll, Drop, OpenSession, TypeOK, Issue, NextToken
      <3>. QED
        BY <2>2, <3>1, <3>2 DEF Asking
    <2>12. CASE Reply(r)
      <3>1. op[r] # "refresh"
        BY <2>2, <2>12 DEF Reply, Asking, Hopeless
      <3>2. \E how \in {"none", "reuse"} : Answer(r, how)
        BY <2>12, <3>1 DEF Reply
      <3>. QED
        BY <1>1, <3>2 DEF Results
    <2>13. CASE CheckLogin(r)
      <3>1. ~Asking(r)
        BY <2>2, <2>13 DEF Hopeless, CheckLogin
      <3>2. CASE account = "active"
        BY <2>2, <2>13, <3>1, <3>2 DEF CheckLogin, Asking
      <3>3. CASE account # "active"
        BY <1>1, <2>13, <3>3 DEF CheckLogin, Results
      <3>. QED
        BY <3>2, <3>3
    <2>. QED
      BY <1>4, <2>4, <2>5, <2>6, <2>7, <2>8, <2>9, <2>10, <2>11, <2>12, <2>13 DEF Serve
  <1>. QED
    BY <1>2, <1>3, <1>4

LEMMA EndStep ==
  ASSUME TypeOK, TypeOK', StoreInv, LateAfterEnd, [Next]_vars
  PROVE  LateAfterEnd'
  <1>. SUFFICES ASSUME NEW r \in Request, late'[r] = "ended"
                PROVE  result'[r] \notin {"accepted", "rotated"} /\ (Asking(r)' => Hopeless(r)')
    BY DEF LateAfterEnd
  <1>1. ASSUME UNCHANGED <<pc[r], op[r], sid[r], seen[r], result[r]>>, late[r] = "ended"
        PROVE  result'[r] \notin {"accepted", "rotated"} /\ (Asking(r)' => Hopeless(r)')
    BY <1>1, HopelessWaits DEF LateAfterEnd, Asking
  <1>2. ASSUME NEW q \in Request, q # r, Serving(q) \/ Serve(q) \/ Cancel(q)
        PROVE  UNCHANGED <<pc[r], op[r], sid[r], seen[r], result[r]>> /\ late[r] = "ended"
    BY <1>2, OthersUntouched DEF Untouched
  <1>3. ASSUME World \/ UNCHANGED vars
        PROVE  UNCHANGED <<pc[r], op[r], sid[r], seen[r], result[r]>> /\ late[r] = "ended"
    BY <1>3 DEF World, CacheExpires, SessionExpires, CacheFails, CacheHeals, GraceEnds,
                vars, request, history
  <1>. QED
    BY <1>1, <1>2, <1>3, OwnEndStep DEF Next

LEMMA SuspensionStep ==
  ASSUME TypeOK, TypeOK', LateAfterSuspension, [Next]_vars
  PROVE  LateAfterSuspension'
  <1>. DEFINE Inv(r) ==
         /\ pc[r] \in {"revoke", "list", "revoke_all", "account", "create"} => op[r] # "refresh"
         /\ late[r] = "suspended" =>
              /\ account # "active" /\ result[r] # "rotated" /\ pc[r] # "rotate"
              /\ pc[r] = "drop" => op[r] # "refresh"
  <1>. SUFFICES ASSUME NEW r \in Request PROVE Inv(r)'
    BY DEF LateAfterSuspension
  <1>0. Inv(r)
    BY DEF LateAfterSuspension
  <1>1. ASSUME NEW q \in Request, q # r, Serving(q) \/ Serve(q) \/ Cancel(q) PROVE Inv(r)'
    BY <1>0, <1>1, OthersUntouched DEF Untouched
  <1>2. CASE World \/ UNCHANGED vars
    BY <1>0, <1>2 DEF World, CacheExpires, SessionExpires, CacheFails, CacheHeals, GraceEnds,
                      vars, store, request, history
  <1>3. ASSUME NEW how \in Results \ {"rotated"}, Answer(r, how), UNCHANGED account,
               late'[r] = late[r] \/ late'[r] # "suspended"
        PROVE  Inv(r)'
    BY <1>0, <1>3, AnswerMoves
  <1>4. CASE Serving(r)
    <2>1. ASSUME NEW what, NEW s, NEW t, NEW label, Start(r, what, s, t, label),
                 label \notin {"rotate", "drop"}, what = "refresh" => label = "get"
          PROVE  Inv(r)'
      BY <2>1 DEF Start, Goto, TypeOK, store
    <2>. QED
      BY <1>4, <2>1 DEF Serving
  <1>5. CASE Cancel(r)
    BY <1>3, <1>5 DEF Cancel, Results, store
  <1>6. CASE Serve(r)
    <2>1. CASE \/ Get(r) \/ Read(r) \/ Fill(r) \/ SilentRefresh(r) \/ CheckToken(r)
      BY <1>0, <2>1 DEF Get, Read, Fill, SilentRefresh, CheckToken, Goto, TypeOK, store, history
    <2>2. CASE Admit(r) \/ RefuseRefresh(r) \/ NoSuchAccount(r)
      BY <1>3, <2>2 DEF Admit, RefuseRefresh, NoSuchAccount, Results, store, history
    <2>3. CASE CheckAccount(r)
      BY <1>0, <2>3 DEF CheckAccount, AccountUsable, Goto, TypeOK, store, history
    <2>4. CASE Rotate(r) \/ Revoke(r) \/ RevokeAll(r) \/ List(r) \/ Drop(r)
      BY <1>0, <2>4 DEF Rotate, Revoke, RevokeAll, List, Drop, Goto, TypeOK, store, history, Issue, NextToken
    <2>5. CASE Suspend(r)
      BY <1>0, <2>5 DEF Suspend, Goto, TypeOK, history
    <2>6. CASE Enable(r)
      <3>1. late'[r] # "suspended" /\ pc'[r] = "idle"
        BY <2>6, AnswerMoves DEF Enable, Results, TypeOK
      <3>. QED
        BY <3>1
    <2>7. CASE Reply(r)
      <3>1. CASE late[r] = "suspended"
        <4>1. op[r] # "refresh" /\ pc'[r] = "idle" /\ late' = late
          BY <1>0, <2>7, <3>1, AnswerMoves DEF Reply, Results
        <4>2. result'[r] # "rotated"
          BY <2>7, <4>1, AnswerMoves DEF Reply, Results
        <4>3. account' # "active"
          BY <1>0, <2>7, <3>1 DEF Reply
        <4>. QED
          BY <4>1, <4>2, <4>3
      <3>2. CASE late[r] # "suspended"
        BY <2>7, <3>2, AnswerMoves DEF Reply, Results
      <3>. QED
        BY <3>1, <3>2
    <2>8. CASE CheckLogin(r)
      <3>1. CASE account = "active"
        BY <1>0, <2>8, <3>1 DEF CheckLogin, Goto, TypeOK, store, history
      <3>2. CASE account # "active"
        BY <1>3, <2>8, <3>2 DEF CheckLogin, Results, store, history
      <3>. QED
        BY <3>1, <3>2
    <2>9. ASSUME NEW s \in Session, OpenSession(r, s) PROVE Inv(r)'
      BY <1>0, <2>9 DEF OpenSession, Goto, TypeOK, Issue
    <2>. QED
      BY <1>6, <2>1, <2>2, <2>3, <2>4, <2>5, <2>6, <2>7, <2>8, <2>9 DEF Serve
  <1>. QED
    BY <1>1, <1>2, <1>4, <1>5, <1>6 DEF Next

\* A request that comes in after a revocation was answered is refused, however many
\* other requests read, rotate and cache the session meanwhile, unless a write to the
\* session met one of the windows before it came in.
THEOREM EndedAreRefused == Spec => []EndedIsRefused
  <1>. DEFINE IInv == TypeOK /\ StoreInv /\ LateAfterEnd
  <1>1. Init => IInv
    BY InitTyped, InitStore, InitLate
  <1>2. IInv /\ [Next]_vars => IInv'
    BY StepTyped, StoreStep, EndStep
  <1>3. IInv => EndedIsRefused
    BY DEF LateAfterEnd, EndedIsRefused
  <1>. QED
    BY <1>1, <1>2, <1>3, PTL DEF Spec

\* A refresh that comes in while the account is suspended or deleted is given no tokens,
\* whatever the cached session says, as long as the account is not enabled again.
THEOREM SuspendedGetNoTokens == Spec => []NoRotationWhileSuspended
  <1>. DEFINE IInv == TypeOK /\ LateAfterSuspension
  <1>1. Init => IInv
    BY InitTyped, InitLate
  <1>2. IInv /\ [Next]_vars => IInv'
    BY StepTyped, SuspensionStep
  <1>3. IInv => NoRotationWhileSuspended
    BY DEF LateAfterSuspension, NoRotationWhileSuspended
  <1>. QED
    BY <1>1, <1>2, <1>3, PTL DEF Spec

\* A revocation that was answered stays (sessions_ops.py:131-177, auth/service.py:426-455).
THEOREM RevocationsStay == Spec => []RevocationsHold
<1>1. TypeOK /\ EndedInStore /\ EndedIsRefused => RevocationsHold
  BY DEF RevocationsHold
<1> QED BY <1>1, TypeCorrect, RevocationsLast, EndedAreRefused, PTL
=============================================================================
