------------------------------ MODULE Startup ------------------------------
(***************************************************************************)
(* Processes that start together on one database                           *)
(* (app/services/data/data_service.py: connect): each runs the migrations  *)
(* it does not find recorded (app/services/data/migrations.py), ensures    *)
(* the declared indexes (app/database/mongodb.py), and then serves         *)
(* requests while others still start.  Of the data, the file versions that *)
(* were stored before the flag is_latest came up; of the indexes, the old  *)
(* ones that migrations drop and one whose time to live a setting has      *)
(* changed.                                                                *)
(***************************************************************************)
EXTENDS Naturals, FiniteSets, FiniteSetsExt

CONSTANTS
  Process,
  File,
  Batch,        \* BACKFILL_BATCH
  MaxVersions,  \* bounds the versions of a file
  Stored,       \* how many versions a file may have before the first process starts
  MaxFaults     \* bounds crashes and failed connections

ASSUME StartupAssumption ==
  Batch \in Nat \ {0} /\ MaxVersions \in Nat /\ Stored \subseteq 0 .. MaxVersions /\ MaxFaults \in Nat

VARIABLES
  flags,       \* the records: of each file, whether a version is_latest
  recorded,    \* schema_migrations
  superseded,  \* the indexes that a migration drops, by its version
  index,       \* the index with a time to live: "none", or with which setting
  pc,
  seen,        \* the migrations a process will not apply
  todo,        \* the files of its batch
  found,       \* the file it is at, and the version it takes for the newest
  demoting,    \* the version it has just stored, whose predecessors are still flagged
  overlapped,  \* history: a file changed while a process went through the files
  refused,     \* history: a process failed although nothing else had
  faults

local == <<pc, seen, todo, found, demoting>>
startupVars == <<flags, recorded, superseded, index, local, overlapped, refused, faults>>

Migrations == {1, 2}
Nothing == [file |-> "none", version |-> 0]

StartupInit ==
  /\ flags \in [File -> {[v \in 1 .. n |-> "missing"] : n \in Stored}]
  /\ recorded = {} /\ superseded = Migrations
  /\ index \in {"none", "as_before", "as_now"}
  /\ pc = [p \in Process |-> "down"] /\ seen = [p \in Process |-> {}]
  /\ todo = [p \in Process |-> {}] /\ found = [p \in Process |-> Nothing]
  /\ demoting = [p \in Process |-> Nothing]
  /\ overlapped = FALSE /\ refused = FALSE /\ faults = 0

Step(p, from, to) == pc[p] = from /\ pc' = [pc EXCEPT ![p] = to]

\* The process ends, and what it had in hand is gone.
Leave(p) ==
  /\ pc' = [pc EXCEPT ![p] = "down"]
  /\ seen' = [seen EXCEPT ![p] = {}] /\ todo' = [todo EXCEPT ![p] = {}]
  /\ found' = [found EXCEPT ![p] = Nothing] /\ demoting' = [demoting EXCEPT ![p] = Nothing]

Unflagged == {r \in File \X (1 .. MaxVersions) :
                r[2] \in DOMAIN flags[r[1]] /\ flags[r[1]][r[2]] = "missing"}

-----------------------------------------------------------------------------
(* run_migrations.                                                         *)

Connect(p) ==
  /\ Step(p, "down", "migrations")
  /\ seen' = [seen EXCEPT ![p] = recorded]
  /\ UNCHANGED <<flags, recorded, superseded, index, todo, found, demoting, overlapped, refused, faults>>

\* In the order of their versions.
NextMigration(p) ==
  LET missing == Migrations \ seen[p] IN
  /\ pc[p] = "migrations"
  /\ pc' = [pc EXCEPT ![p] = IF missing = {} THEN "index" ELSE IF 1 \in missing THEN "drop" ELSE "batch"]
  /\ UNCHANGED <<flags, recorded, superseded, index, seen, todo, found, demoting, overlapped, refused, faults>>

\* Indexes that are gone already are ignored.
DropSuperseded(p) ==
  /\ Step(p, "drop", "record")
  /\ superseded' = superseded \ {Min(Migrations \ seen[p])}
  /\ UNCHANGED <<flags, recorded, index, seen, todo, found, demoting, overlapped, refused, faults>>

\* Records come in no order.
ReadBatch(p) ==
  /\ pc[p] = "batch"
  /\ IF Unflagged = {}
     THEN pc' = [pc EXCEPT ![p] = "drop"] /\ UNCHANGED todo
     ELSE \E batch \in SUBSET Unflagged :
            /\ batch # {} /\ Cardinality(batch) = Min({Batch, Cardinality(Unflagged)})
            /\ todo' = [todo EXCEPT ![p] = {r[1] : r \in batch}]
            /\ pc' = [pc EXCEPT ![p] = "versions"]
  /\ UNCHANGED <<flags, recorded, superseded, index, seen, found, demoting, overlapped, refused, faults>>

NewestOf(f) == Max({0} \cup DOMAIN flags[f])

\* A file whose records are gone meanwhile has no newest version: the process fails.
ReadVersions(p) ==
  /\ pc[p] = "versions"
  /\ \E f \in todo[p] :
       IF NewestOf(f) = 0
       THEN Leave(p) /\ refused' = TRUE
       ELSE /\ pc' = [pc EXCEPT ![p] = "flag"]
            /\ found' = [found EXCEPT ![p] = [file |-> f, version |-> NewestOf(f)]]
            /\ UNCHANGED <<seen, todo, demoting, refused>>
  /\ UNCHANGED <<flags, recorded, superseded, index, overlapped, faults>>

FlagNewest(p) ==
  LET f == found[p].file IN
  /\ Step(p, "flag", "flag_rest")
  /\ flags' = [flags EXCEPT ![f] =
       [v \in DOMAIN @ |-> IF v = found[p].version THEN "yes" ELSE @[v]]]
  /\ UNCHANGED <<recorded, superseded, index, seen, todo, found, demoting, overlapped, refused, faults>>

\* Faulty variant: a version is left as it is if it is not the newest.
LeftAlone(flag) == flag

NotLatest(flag) == IF flag = "missing" THEN "no" ELSE flag

\* Faulty variant: one batch is enough.
OneBatch(p) == IF todo[p] = {found[p].file} THEN "drop" ELSE "versions"

\* The next file, or the next batch.
Onwards(p) == IF todo[p] = {found[p].file} THEN "batch" ELSE "versions"

FlagRest(p) ==
  LET f == found[p].file IN
  /\ pc[p] = "flag_rest"
  /\ flags' = [flags EXCEPT ![f] = [v \in DOMAIN @ |-> NotLatest(@[v])]]
  /\ pc' = [pc EXCEPT ![p] = Onwards(p)]
  /\ todo' = [todo EXCEPT ![p] = @ \ {f}]
  /\ found' = [found EXCEPT ![p] = Nothing]
  /\ UNCHANGED <<recorded, superseded, index, seen, demoting, overlapped, refused, faults>>

RecordMigration(p) ==
  LET done == Min(Migrations \ seen[p]) IN
  /\ Step(p, "record", "migrations")
  /\ recorded' = recorded \cup {done}
  /\ seen' = [seen EXCEPT ![p] = @ \cup {done}]
  /\ UNCHANGED <<flags, superseded, index, todo, found, demoting, overlapped, refused, faults>>

-----------------------------------------------------------------------------
(* ensure_indexes.                                                         *)

\* An index with the same keys and other options is in the way.
EnsureIndex(p) ==
  /\ pc[p] = "index"
  /\ IF index = "as_before"
     THEN pc' = [pc EXCEPT ![p] = "replace"] /\ UNCHANGED index
     ELSE pc' = [pc EXCEPT ![p] = "serving"] /\ index' = "as_now"
  /\ UNCHANGED <<flags, recorded, superseded, seen, todo, found, demoting, overlapped, refused, faults>>

\* It is dropped, unless another process has dropped it meanwhile: then this one fails.
DropConflicting(p) ==
  /\ pc[p] = "replace"
  /\ IF index = "none"
     THEN Leave(p) /\ refused' = TRUE /\ UNCHANGED index
     ELSE /\ index' = "none"
          /\ pc' = [pc EXCEPT ![p] = "index_again"]
          /\ UNCHANGED <<seen, todo, found, demoting, refused>>
  /\ UNCHANGED <<flags, recorded, superseded, overlapped, faults>>

CreateAgain(p) ==
  /\ Step(p, "index_again", "serving")
  /\ index' = "as_now"
  /\ UNCHANGED <<flags, recorded, superseded, seen, todo, found, demoting, overlapped, refused, faults>>

-----------------------------------------------------------------------------
(* What the others do meanwhile.                                           *)

Backfilling == \E p \in Process : pc[p] \in {"batch", "versions", "flag", "flag_rest"}

\* A process that serves stores another version of a file: it is current at once, ...
Upload(p, f) ==
  LET n == Cardinality(DOMAIN flags[f]) + 1 IN
  /\ pc[p] = "serving" /\ demoting[p] = Nothing /\ n \in 1 .. MaxVersions
  /\ flags' = [flags EXCEPT ![f] = [v \in 1 .. n |-> IF v = n THEN "yes" ELSE @[v]]]
  /\ demoting' = [demoting EXCEPT ![p] = [file |-> f, version |-> n]]
  /\ overlapped' = (overlapped \/ Backfilling)
  /\ UNCHANGED <<recorded, superseded, index, pc, seen, todo, found, refused, faults>>

\* ... and the older ones are not any longer.
Demote(p) ==
  LET f == demoting[p].file IN
  /\ demoting[p] # Nothing
  /\ flags' = [flags EXCEPT ![f] =
       [v \in DOMAIN @ |-> IF v < demoting[p].version /\ @[v] = "yes" THEN "no" ELSE @[v]]]
  /\ demoting' = [demoting EXCEPT ![p] = Nothing]
  /\ overlapped' = (overlapped \/ Backfilling)
  /\ UNCHANGED <<recorded, superseded, index, pc, seen, todo, found, refused, faults>>

\* Or it deletes a file for good.
Erase(p, f) ==
  /\ pc[p] = "serving" /\ DOMAIN flags[f] # {} /\ \A q \in Process : demoting[q].file # f
  /\ flags' = [flags EXCEPT ![f] = [v \in {} |-> "no"]]
  /\ overlapped' = (overlapped \/ Backfilling)
  /\ UNCHANGED <<recorded, superseded, index, local, refused, faults>>

\* It is killed, or a call to the database fails.
Crash(p) ==
  /\ pc[p] # "down" /\ demoting[p] = Nothing /\ faults < MaxFaults
  /\ faults' = faults + 1
  /\ Leave(p)
  /\ UNCHANGED <<flags, recorded, superseded, index, overlapped, refused>>

-----------------------------------------------------------------------------
Starting(p) ==
  \/ Connect(p) \/ NextMigration(p) \/ DropSuperseded(p) \/ ReadBatch(p) \/ ReadVersions(p)
  \/ FlagNewest(p) \/ FlagRest(p) \/ RecordMigration(p)
  \/ EnsureIndex(p) \/ DropConflicting(p) \/ CreateAgain(p)

StartupNext ==
  \E p \in Process :
    \/ Starting(p) \/ Demote(p) \/ Crash(p)
    \/ \E f \in File : Upload(p, f) \/ Erase(p, f)

\* A process goes on, and is started again when it has ended.
StartupFairness == \A p \in Process : WF_startupVars(Starting(p))

StartupSpec == StartupInit /\ [][StartupNext]_startupVars /\ StartupFairness

-----------------------------------------------------------------------------
\* A migration that is recorded need never run again, wherever the processes that ran it were
\* killed: no version lacks its flag and no superseded index is left.
RecordedIsDone ==
  /\ superseded \cap recorded = {}
  /\ 2 \in recorded => Unflagged = {}

\* Once a process serves, one version of each file is listed as current, the newest; unless a
\* file changed while another process went through the files.
Current(f) == {v \in DOMAIN flags[f] : flags[f][v] = "yes"}
Serving == {p \in Process : pc[p] = "serving"}
FlagsAreRight ==
  Serving # {} /\ ~overlapped /\ (\A p \in Process : demoting[p] = Nothing) =>
    \A f \in File : DOMAIN flags[f] # {} => Current(f) = {Max(DOMAIN flags[f])}

\* Between them: no start leaves a database that a later one has to repair.
MigrationsHold == RecordedIsDone /\ FlagsAreRight

\* However they get into each other's way, every process serves in the end.
AllStart == <>[](\A p \in Process : pc[p] = "serving")

-----------------------------------------------------------------------------
(* What the documentation says, and the code does not do.                  *)

\* "several workers may start at once": none fails because of the others.
StartTogether == ~refused
=============================================================================
