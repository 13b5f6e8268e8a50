------------------------------- MODULE Records -------------------------------
(***************************************************************************)
(* A collection as the services use it (app/services/data/data_service.py):*)
(* calls of the database, whose statements first find what matches and     *)
(* then lock and change it, and a cache beside it whose entries a write    *)
(* drops.  MongoDB (app/database/mongodb.py) and PostgreSQL                *)
(* (app/database/postgres.py) differ in the upsert, which is two           *)
(* statements in PostgreSQL, and in who purges what has expired.           *)
(***************************************************************************)
EXTENDS Collection, FiniteSetsExt

CONSTANTS MaxCalls   \* bounds the calls that are made

ASSUME RecordsAssumption == MaxCalls \in Nat /\ MaxTime \in Nat

VARIABLES
  backend,  \* "mongodb" or "postgres"
  at,       \* each request: what its call does next
  op, key,  \* the call
  picked,   \* what the statement has found: the places, or the record it has read
  cache,    \* the copy under each key
  down,     \* the cache is cooling down after a failure
  made,     \* how many records there have been
  calls,
  halves    \* history: a set has made a record of what it was given

call == <<at, op, key, picked>>
caching == <<cache, down>>
recordVars == <<contents, backend, call, caching, made, calls, halves>>

NoKey == "none"
NoCopy == [key |-> "nothing"]
Ops == {"insert", "claim", "update", "increment", "set", "delete", "many", "get"}

RecordsInit ==
  /\ CollectionInit
  /\ backend \in {"mongodb", "postgres"}
  /\ at = [r \in Request |-> "idle"] /\ op = [r \in Request |-> "none"]
  /\ key = [r \in Request |-> NoKey] /\ picked = [r \in Request |-> {}]
  /\ cache = [k \in Key |-> NoCopy] /\ down = FALSE
  /\ made = 0 /\ calls = 0 /\ halves = FALSE

Begin(r, what, k) ==
  /\ at[r] = "idle" /\ calls < MaxCalls
  /\ calls' = calls + 1
  /\ at' = [at EXCEPT ![r] = IF what = "get" THEN "look" ELSE "find"]
  /\ op' = [op EXCEPT ![r] = what]
  /\ key' = [key EXCEPT ![r] = k]
  /\ Call(r)
  /\ UNCHANGED <<backend, picked, caching, made, halves>>

Over(r) ==
  /\ at' = [at EXCEPT ![r] = "idle"] /\ op' = [op EXCEPT ![r] = "none"]
  /\ key' = [key EXCEPT ![r] = NoKey] /\ picked' = [picked EXCEPT ![r] = {}]

Then(r, label) ==
  /\ at' = [at EXCEPT ![r] = label] /\ picked' = [picked EXCEPT ![r] = {}]
  /\ UNCHANGED <<op, key>>

-----------------------------------------------------------------------------
(* One statement.                                                          *)

\* The condition of the call's filter.
Matches(r, x) ==
  CASE op[r] = "claim" -> Unowned(x)
    [] op[r] = "many" -> TRUE
    [] OTHER -> Keyed(x, key[r])

\* What matches when the statement begins.
Find(r) ==
  /\ at[r] = "find"
  /\ picked' = [picked EXCEPT ![r] = {x \in Records : Matches(r, x)}]
  /\ at' = [at EXCEPT ![r] = "change"]
  /\ UNCHANGED <<contents, backend, op, key, caching, made, calls, halves>>

\* Faulty variant: what was found is changed, whatever it has become meanwhile.
FoundBefore(r) == picked[r] \cap Records

\* FOR UPDATE: the condition is looked at once more when the record is locked.
Found(r) == {x \in picked[r] \cap Records : Matches(r, x)}

Added(r, x) == store[x].count + 1

Change(r, x, u) == store' = [store EXCEPT ![x] = u]

\* A write that found a record drops its copy; a conditional one works on the database only.
Settle(r) == IF op[r] = "claim" THEN Over(r) ELSE Then(r, "drop")

ChangeOne(r) ==
  LET x == Min(Found(r)) IN
  /\ at[r] = "change" /\ op[r] \in {"claim", "update", "set", "delete"} /\ Found(r) # {}
  /\ CASE op[r] = "claim" -> Change(r, x, Claimed(store[x], r))
       [] op[r] = "delete" -> Change(r, x, Absent)
       [] OTHER -> Change(r, x, Patched(store[x]))
  /\ Answer(r, Yes) /\ Settle(r)
  /\ UNCHANGED <<now, backend, caching, made, calls, halves>>

Add(r) ==
  LET x == Min(Found(r)) IN
  /\ at[r] = "change" /\ op[r] = "increment" /\ Found(r) # {}
  /\ store' = [store EXCEPT ![x].count = Added(r, x)]
  /\ Answer(r, Value(Added(r, x))) /\ Then(r, "drop")
  /\ UNCHANGED <<now, backend, caching, made, calls, halves>>

\* Whether the call makes the record it did not find.
Creates(r) == op[r] = "set"

\* An increment drops the copy even so.
ChangeNone(r) ==
  /\ at[r] = "change" /\ op[r] \in {"claim", "update", "increment", "delete"} /\ Found(r) = {}
  /\ Answer(r, No)
  /\ IF op[r] = "increment" THEN Then(r, "drop") ELSE Over(r)
  /\ UNCHANGED <<store, now, backend, caching, made, calls, halves>>

Free(k) == \A x \in Records : ~Keyed(x, k)

\* Places are numbered as they are taken, and none is taken twice.
Make(r, u) ==
  IF Free(key[r])
  THEN /\ made + 1 \in Place /\ made' = made + 1
       /\ store' = [store EXCEPT ![made'] = u] /\ Answer(r, Yes)
  ELSE Answer(r, Duplicate) /\ UNCHANGED <<store, made>>

InsertRecord(r) ==
  /\ at[r] = "change" /\ op[r] = "insert"
  /\ Make(r, NewRecord(key[r])) /\ Over(r)
  /\ UNCHANGED <<now, backend, caching, calls, halves>>

\* MongoDB looks and inserts in one; PostgreSQL's second statement may find the key taken.
UpsertInsert(r) ==
  /\ at[r] = "change" /\ Creates(r) /\ Found(r) = {}
  /\ IF backend = "postgres"
     THEN /\ at' = [at EXCEPT ![r] = "insert"]
          /\ UNCHANGED <<contents, op, key, picked, made, halves>>
     ELSE /\ Make(r, FromPatch(key[r])) /\ halves' = TRUE
          /\ IF Free(key[r]) THEN Then(r, "drop") ELSE Over(r)
          /\ UNCHANGED now
  /\ UNCHANGED <<backend, caching, calls>>

SecondStatement(r) ==
  /\ at[r] = "insert"
  /\ Make(r, FromPatch(key[r])) /\ halves' = TRUE
  /\ IF Free(key[r]) THEN Then(r, "drop") ELSE Over(r)
  /\ UNCHANGED <<now, backend, caching, calls>>

\* In bulk, past the cache.
ChangeMany(r) ==
  /\ at[r] = "change" /\ op[r] = "many"
  /\ store' = [x \in Place |-> IF x \in Found(r) THEN Patched(store[x]) ELSE store[x]]
  /\ Answer(r, Value(Cardinality(Found(r)))) /\ Over(r)
  /\ UNCHANGED <<now, backend, caching, made, calls, halves>>

-----------------------------------------------------------------------------
(* The cache.                                                              *)

\* Faulty variant: what was written is kept as the copy.
PutBack(r) == IF op[r] = "set" THEN FromPatch(key[r]) ELSE NoCopy

\* What was written may be a part of the record: the copy goes.
Dropped(r) == NoCopy

DropCopy(r) ==
  /\ at[r] = "drop"
  /\ \/ ~down /\ cache' = [cache EXCEPT ![key[r]] = Dropped(r)] /\ UNCHANGED down
     \/ down' = TRUE /\ UNCHANGED cache
  /\ Over(r)
  /\ UNCHANGED <<contents, backend, made, calls, halves>>

Look(r) ==
  /\ at[r] = "look"
  /\ IF ~down /\ cache[key[r]] # NoCopy
     THEN Over(r)
     ELSE Then(r, "read")
  /\ UNCHANGED <<contents, backend, caching, made, calls, halves>>

\* A record that is there is on its way into the cache.
ReadRecord(r) ==
  /\ at[r] = "read"
  /\ Read(r, key[r])
  /\ IF Free(key[r]) THEN Over(r)
     ELSE /\ at' = [at EXCEPT ![r] = "fill"]
          /\ picked' = [picked EXCEPT ![r] = {store[x] : x \in {y \in Records : Keyed(y, key[r])}}]
          /\ UNCHANGED <<op, key>>
  /\ UNCHANGED <<backend, caching, made, calls, halves>>

FillCopy(r) ==
  /\ at[r] = "fill"
  /\ \/ ~down /\ cache' = [cache EXCEPT ![key[r]] = CHOOSE u \in picked[r] : TRUE] /\ UNCHANGED down
     \/ down' = TRUE /\ UNCHANGED cache
  /\ Over(r)
  /\ UNCHANGED <<contents, backend, made, calls, halves>>

CopyExpires(k) ==
  /\ cache[k] # NoCopy /\ cache' = [cache EXCEPT ![k] = NoCopy]
  /\ UNCHANGED <<contents, backend, call, down, made, calls, halves>>

CooledDown ==
  /\ down /\ down' = FALSE
  /\ UNCHANGED <<contents, backend, call, cache, made, calls, halves>>

-----------------------------------------------------------------------------
\* MongoDB's own thread, or the task of a process on PostgreSQL: what has expired at the moment
\* the statement begins and is still so when it is locked.
PurgeExpired ==
  /\ \E M \in SUBSET {x \in Records : Expired(x)} :
       /\ M # {}
       /\ store' = [x \in Place |-> IF x \in M THEN Absent ELSE store[x]]
  /\ UNCHANGED <<now, answer, backend, call, caching, made, calls, halves>>

Later == Tick /\ UNCHANGED <<backend, call, caching, made, calls, halves>>

RecordsNext ==
  \/ \E r \in Request :
       \/ \E what \in Ops, k \in Key : Begin(r, what, k)
       \/ Find(r) \/ ChangeOne(r) \/ Add(r) \/ ChangeNone(r) \/ InsertRecord(r)
       \/ UpsertInsert(r) \/ SecondStatement(r) \/ ChangeMany(r)
       \/ DropCopy(r) \/ Look(r) \/ ReadRecord(r) \/ FillCopy(r)
  \/ \E k \in Key : CopyExpires(k)
  \/ CooledDown \/ PurgeExpired \/ Later

RecordsSpec == RecordsInit /\ [][RecordsNext]_recordVars

-----------------------------------------------------------------------------
\* Either backend keeps what the interface promises, whatever statements meet: a call changes
\* what matches at that moment and answers what it did.
ImplementsCollection == CollectionSpec

\* No copy is a part of a record: one that lacks fields was made by a set of a record that was
\* not there.
CopiesAreWhole == ~halves => \A k \in Key : cache[k] = NoCopy \/ cache[k].whole
=============================================================================
