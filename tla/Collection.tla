----------------------------- MODULE Collection -----------------------------
(***************************************************************************)
(* What one collection of a database backend promises                      *)
(* (app/core/interfaces/database_interface.py): every call takes effect at *)
(* one moment between its beginning and its answer, whatever else is under *)
(* way.  A record has a key that is unique, an owner that is set once it   *)
(* is claimed, a counter, a moment when it expires, and is whole if it has *)
(* all the fields it is inserted with.                                     *)
(***************************************************************************)
EXTENDS Integers, FiniteSets

CONSTANTS Request, Key, Place, MaxTime

VARIABLES
  store,   \* the records, by place
  now,
  answer   \* what each request's last call has answered, if it is over

contents == <<store, now, answer>>

Absent == [key |-> "absent"]
Unanswered == <<"none", 0>>
Yes == <<"true", 0>>
No == <<"false", 0>>
Duplicate == <<"duplicate", 0>>
Value(n) == <<"value", n>>

CollectionInit ==
  /\ store = [x \in Place |-> Absent] /\ now = 0
  /\ answer = [r \in Request |-> Unanswered]

Records == {x \in Place : store[x] # Absent}

\* {"field": None}: null, or missing.
Equals(field, value) == IF value = "null" THEN field \in {"null", "missing"} ELSE field = value

Unowned(x) == Equals(store[x].owner, "null")
Keyed(x, k) == Equals(store[x].key, k)

\* {"field": {"$lt": now}}: a field that is no date compares with none.
Expired(x) == store[x].until < now

NewRecord(k) == [key |-> k, owner |-> "missing", count |-> 0, until |-> now, whole |-> TRUE]
FromPatch(k) == [key |-> k, owner |-> "missing", count |-> 0, until |-> now + 1, whole |-> FALSE]
Patched(u) == [u EXCEPT !.until = now + 1]
Claimed(u, r) == [u EXCEPT !.owner = r]
Counted(u) == [u EXCEPT !.count = @ + 1]

Answer(r, a) == answer' = [answer EXCEPT ![r] = a]

Call(r) == Answer(r, Unanswered) /\ UNCHANGED <<store, now>>

Put(u) == \E x \in Place \ Records : store' = [store EXCEPT ![x] = u]

Insert(r, k) ==
  \/ /\ \E x \in Records : Keyed(x, k)
     /\ Answer(r, Duplicate) /\ UNCHANGED <<store, now>>
  \/ /\ \A x \in Records : ~Keyed(x, k)
     /\ Put(NewRecord(k)) /\ Answer(r, Yes) /\ UNCHANGED now

\* update_record: one record that matches at that moment, or none does; it never inserts.
Claim(r) ==
  \/ /\ \E x \in Records : Unowned(x) /\ store' = [store EXCEPT ![x] = Claimed(@, r)]
     /\ Answer(r, Yes) /\ UNCHANGED now
  \/ Answer(r, No) /\ UNCHANGED <<store, now>>

Update(r, k) ==
  \/ /\ \E x \in Records : Keyed(x, k) /\ store' = [store EXCEPT ![x] = Patched(@)]
     /\ Answer(r, Yes) /\ UNCHANGED now
  \/ Answer(r, No) /\ UNCHANGED <<store, now>>

\* increment_field: the answer is the new value.
Increment(r, k) ==
  \/ \E x \in Records :
       /\ Keyed(x, k)
       /\ store' = [store EXCEPT ![x] = Counted(@)]
       /\ Answer(r, Value(store'[x].count)) /\ UNCHANGED now
  \/ Answer(r, No) /\ UNCHANGED <<store, now>>

\* upsert_record: a record with the key is there afterwards, or was a moment ago.
Upsert(r, k) ==
  \/ /\ \E x \in Records : Keyed(x, k) /\ store' = [store EXCEPT ![x] = Patched(@)]
     /\ Answer(r, Yes) /\ UNCHANGED now
  \/ /\ \A x \in Records : ~Keyed(x, k)
     /\ Put(FromPatch(k)) /\ Answer(r, Yes) /\ UNCHANGED now
  \/ /\ \E x \in Records : Keyed(x, k)
     /\ Answer(r, Duplicate) /\ UNCHANGED <<store, now>>

Delete(r, k) ==
  \/ /\ \E x \in Records : Keyed(x, k) /\ store' = [store EXCEPT ![x] = Absent]
     /\ Answer(r, Yes) /\ UNCHANGED now
  \/ Answer(r, No) /\ UNCHANGED <<store, now>>

\* update_many: whatever matches; the answer is how many did.
UpdateMany(r) ==
  \E M \in SUBSET Records :
    /\ store' = [x \in Place |-> IF x \in M THEN Patched(store[x]) ELSE store[x]]
    /\ Answer(r, Value(Cardinality(M))) /\ UNCHANGED now

\* get_record.
Read(r, k) ==
  /\ Answer(r, IF \E x \in Records : Keyed(x, k) THEN Yes ELSE No)
  /\ UNCHANGED <<store, now>>

\* Records past their time to live go, at any moment.
Purge ==
  \E M \in SUBSET {x \in Records : Expired(x)} :
    store' = [x \in Place |-> IF x \in M THEN Absent ELSE store[x]] /\ UNCHANGED <<now, answer>>

Tick == now < MaxTime /\ now' = now + 1 /\ UNCHANGED <<store, answer>>

CollectionNext ==
  \/ \E r \in Request :
       \/ Call(r) \/ Claim(r) \/ UpdateMany(r)
       \/ \E k \in Key :
            \/ Insert(r, k) \/ Update(r, k) \/ Increment(r, k) \/ Upsert(r, k)
            \/ Delete(r, k) \/ Read(r, k)
  \/ Purge \/ Tick

CollectionSpec == CollectionInit /\ [][CollectionNext]_contents
=============================================================================
