------------------------------ MODULE DataProofs ------------------------------
(***************************************************************************)
(* TLAPS proofs about what MCData puts beside each other, each from its    *)
(* own specification and for every value of the constants: the migrations  *)
(* of processes that start together (Startup), the records of a collection *)
(* and their copies (Records), the deliveries of webhooks (Webhooks), and  *)
(* the chunks of an upload (Uploads).                                      *)
(***************************************************************************)
EXTENDS MCData, FiniteSetTheorems, WellFoundedInduction, TLAPS

-----------------------------------------------------------------------------
(* Startup.                                                                *)

Flags == {"missing", "yes", "no"}
Lists == UNION {[1 .. n -> Flags] : n \in 0 .. MaxVersions}
Backfills == {"batch", "versions", "flag", "flag_rest"}
Indexing == {"index", "replace", "index_again"}
Places == {"down", "migrations", "drop", "record", "serving"} \cup Backfills \cup Indexing

StartupTyped ==
  /\ flags \in [File -> Lists]
  /\ recorded \in SUBSET Migrations
  /\ pc \in [Process -> Places]
  /\ seen \in [Process -> SUBSET Migrations]
  /\ todo \in [Process -> SUBSET File]
  /\ found \in [Process -> [file : File, version : 1 .. MaxVersions] \cup {Nothing}]
  /\ demoting \in [Process -> [file : File, version : 1 .. MaxVersions] \cup {Nothing}]

\* What a process does not find recorded it does in order; what it goes on to record is done.
Upcoming(p) == IF 1 \in seen[p] THEN 2 ELSE 1
InTurn(p) ==
  /\ seen[p] \subseteq recorded
  /\ pc[p] \in Backfills => seen[p] = {1}
  /\ pc[p] \in {"drop", "record"} => seen[p] # Migrations /\ (1 \in seen[p] => Unflagged = {})
  /\ pc[p] = "record" => Upcoming(p) \notin superseded
  /\ pc[p] \in Indexing \cup {"serving"} => seen[p] = Migrations
  /\ pc[p] \in {"flag", "flag_rest"} => found[p] # Nothing
  /\ demoting[p] # Nothing =>
       pc[p] = "serving" /\ demoting[p].version <= NewestOf(demoting[p].file)

\* While no file changes under a process that goes through them, the version it takes for the
\* newest is the newest; the newest of a file is current or not flagged yet, and no other is
\* current but for those that are still to be demoted.
Untouched ==
  /\ \A p \in Process :
       /\ pc[p] \in {"flag", "flag_rest"} => found[p].version = NewestOf(found[p].file)
       /\ pc[p] = "flag_rest" => flags[found[p].file][found[p].version] = "yes"
  /\ \A f \in File : NewestOf(f) # 0 => flags[f][NewestOf(f)] # "no"
  /\ \A f \in File : \A v \in DOMAIN flags[f] :
       flags[f][v] = "yes" /\ v < NewestOf(f) =>
         \E q \in Process : demoting[q].file = f /\ demoting[q].version > v

StartupInv ==
  /\ StartupTyped
  /\ \A p \in Process : InTurn(p)
  /\ RecordedIsDone
  /\ ~overlapped => Untouched

LEMMA FirstNumbers ==
  ASSUME NEW n \in Nat
  PROVE  /\ Max({0} \cup 1 .. n) = n
         /\ n # 0 => Max(1 .. n) = n
         /\ Cardinality(1 .. n) = n
<1>1. \A m \in {0} \cup 1 .. n : (\A k \in {0} \cup 1 .. n : m >= k) <=> m = n
  OBVIOUS
<1>2. n # 0 => \A m \in 1 .. n : (\A k \in 1 .. n : m >= k) <=> m = n
  OBVIOUS
<1>3. Max({0} \cup 1 .. n) = n
  <2>1. n \in {0} \cup 1 .. n
    OBVIOUS
  <2> QED BY <1>1, <2>1 DEF Max
<1>4. ASSUME n # 0 PROVE Max(1 .. n) = n
  <2>1. n \in 1 .. n
    BY <1>4
  <2> QED BY <1>2, <1>4, <2>1 DEF Max
<1>5. Cardinality(1 .. n) = n
  BY FS_Interval
<1> QED BY <1>3, <1>4, <1>5

\* The number of a list's newest version is how many there are.
Newest(g) == Max({0} \cup DOMAIN g)

LEMMA ListShape ==
  ASSUME NEW g \in Lists
  PROVE  /\ Newest(g) \in 0 .. MaxVersions /\ Newest(g) \in Nat
         /\ DOMAIN g = 1 .. Newest(g) /\ g \in [1 .. Newest(g) -> Flags]
         /\ Cardinality(DOMAIN g) = Newest(g)
         /\ Newest(g) # 0 => Max(DOMAIN g) = Newest(g)
<1>1. PICK n \in 0 .. MaxVersions : g \in [1 .. n -> Flags]
  BY DEF Lists
<1>2. n \in Nat /\ DOMAIN g = 1 .. n
  BY <1>1, StartupAssumption
<1> QED BY <1>1, <1>2, FirstNumbers DEF Newest

LEMMA Long ==
  ASSUME NEW n \in 0 .. MaxVersions, NEW g \in [1 .. n -> Flags]
  PROVE  g \in Lists /\ Newest(g) = n
<1>1. n \in Nat /\ DOMAIN g = 1 .. n
  BY StartupAssumption
<1> QED BY <1>1, FirstNumbers DEF Lists, Newest

LEMMA NewestIs == \A f \in File : NewestOf(f) = Newest(flags[f]) /\ NewestOf(f)' = Newest(flags'[f])
BY DEF NewestOf, Newest

LEMMA FirstMissing ==
  ASSUME NEW S \in SUBSET Migrations, S # Migrations
  PROVE  Min(Migrations \ S) = IF 1 \in S THEN 2 ELSE 1
<1>1. CASE 1 \in S
  <2>1. Migrations \ S = {2}
    BY <1>1 DEF Migrations
  <2>2. \A x \in {2} : \A y \in {2} : x =< y
    OBVIOUS
  <2> QED BY <1>1, <2>1, <2>2 DEF Min
<1>2. CASE 1 \notin S
  <2>1. 1 \in Migrations \ S /\ \A x \in Migrations \ S : (\A y \in Migrations \ S : x =< y) <=> x = 1
    BY <1>2 DEF Migrations
  <2> QED BY <1>2, <2>1 DEF Min
<1> QED BY <1>1, <1>2

LEMMA SomeNewest ==
  ASSUME StartupTyped, NEW f \in File
  PROVE  /\ NewestOf(f) \in 0 .. MaxVersions /\ NewestOf(f) \in Nat
         /\ DOMAIN flags[f] = 1 .. NewestOf(f) /\ flags[f] \in [1 .. NewestOf(f) -> Flags]
         /\ Cardinality(DOMAIN flags[f]) = NewestOf(f)
         /\ NewestOf(f) # 0 => Max(DOMAIN flags[f]) = NewestOf(f)
BY ListShape, NewestIs DEF StartupTyped

-----------------------------------------------------------------------------
\* A change of one file's flags.
LEMMA FlagsTyped ==
  ASSUME StartupTyped, NEW f \in File, NEW n \in 0 .. MaxVersions, NEW g \in [1 .. n -> Flags],
         flags' = [flags EXCEPT ![f] = g]
  PROVE  /\ flags' \in [File -> Lists] /\ flags'[f] = g /\ NewestOf(f)' = n
         /\ DOMAIN flags'[f] = 1 .. n
         /\ \A e \in File \ {f} : flags'[e] = flags[e] /\ NewestOf(e)' = NewestOf(e)
<1>1. g \in Lists /\ Newest(g) = n
  BY Long
<1>2. flags' \in [File -> Lists] /\ flags'[f] = g /\ \A e \in File \ {f} : flags'[e] = flags[e]
  BY <1>1 DEF StartupTyped
<1> QED BY <1>1, <1>2, NewestIs

\* What the steps that write flags do to the list of one file.
LEMMA FlagNewestDoes ==
  ASSUME StartupTyped, NEW p \in Process, FlagNewest(p), found[p] # Nothing
  PROVE  \E f \in File : \E g \in [1 .. NewestOf(f) -> Flags] :
           /\ f = found[p].file /\ flags' = [flags EXCEPT ![f] = g]
           /\ \A v \in 1 .. NewestOf(f) :
                g[v] = IF v = found[p].version THEN "yes" ELSE flags[f][v]
<1> DEFINE f == found[p].file
           g == [v \in DOMAIN flags[f] |-> IF v = found[p].version THEN "yes" ELSE flags[f][v]]
<1>1. f \in File
  BY DEF FlagNewest, StartupTyped
<1>2. DOMAIN flags[f] = 1 .. NewestOf(f) /\ flags[f] \in [1 .. NewestOf(f) -> Flags]
  BY <1>1, SomeNewest
<1>3. flags' = [flags EXCEPT ![f] = g]
  BY DEF FlagNewest
<1>4. \A v \in DOMAIN flags[f] : g[v] \in Flags /\ g[v] = IF v = found[p].version THEN "yes" ELSE flags[f][v]
  BY <1>2 DEF Flags
<1>5. g \in [DOMAIN flags[f] -> Flags]
  BY <1>4
<1> HIDE DEF g
<1>6. g \in [1 .. NewestOf(f) -> Flags]
  BY <1>2, <1>5
<1>7. \A v \in 1 .. NewestOf(f) : g[v] = IF v = found[p].version THEN "yes" ELSE flags[f][v]
  BY <1>2, <1>4
<1> HIDE DEF f
<1>8. f = found[p].file
  BY DEF f
<1> QED BY <1>1, <1>3, <1>6, <1>7, <1>8

LEMMA FlagRestDoes ==
  ASSUME StartupTyped, NEW p \in Process, FlagRest(p), found[p] # Nothing
  PROVE  \E f \in File : \E g \in [1 .. NewestOf(f) -> Flags] :
           /\ f = found[p].file /\ flags' = [flags EXCEPT ![f] = g]
           /\ \A v \in 1 .. NewestOf(f) :
                g[v] = NotLatest(flags[f][v])
<1> DEFINE f == found[p].file
           g == [v \in DOMAIN flags[f] |-> NotLatest(flags[f][v])]
<1>1. f \in File
  BY DEF FlagRest, StartupTyped
<1>2. DOMAIN flags[f] = 1 .. NewestOf(f) /\ flags[f] \in [1 .. NewestOf(f) -> Flags]
  BY <1>1, SomeNewest
<1>3. flags' = [flags EXCEPT ![f] = g]
  BY DEF FlagRest
<1>4. \A v \in DOMAIN flags[f] : g[v] \in Flags /\ g[v] = NotLatest(flags[f][v])
  BY <1>2 DEF Flags, NotLatest
<1>5. g \in [DOMAIN flags[f] -> Flags]
  BY <1>4
<1> HIDE DEF g
<1>6. g \in [1 .. NewestOf(f) -> Flags]
  BY <1>2, <1>5
<1>7. \A v \in 1 .. NewestOf(f) : g[v] = NotLatest(flags[f][v])
  BY <1>2, <1>4
<1> HIDE DEF f
<1>8. f = found[p].file
  BY DEF f
<1> QED BY <1>1, <1>3, <1>6, <1>7, <1>8

LEMMA DemoteDoes ==
  ASSUME StartupTyped, NEW p \in Process, Demote(p)
  PROVE  \E f \in File : \E g \in [1 .. NewestOf(f) -> Flags] :
           /\ f = demoting[p].file /\ flags' = [flags EXCEPT ![f] = g]
           /\ \A v \in 1 .. NewestOf(f) :
                g[v] = IF v < demoting[p].version /\ flags[f][v] = "yes" THEN "no" ELSE flags[f][v]
<1> DEFINE f == demoting[p].file
           g == [v \in DOMAIN flags[f] |-> IF v < demoting[p].version /\ flags[f][v] = "yes" THEN "no" ELSE flags[f][v]]
<1>1. f \in File
  BY DEF Demote, StartupTyped
<1>2. DOMAIN flags[f] = 1 .. NewestOf(f) /\ flags[f] \in [1 .. NewestOf(f) -> Flags]
  BY <1>1, SomeNewest
<1>3. flags' = [flags EXCEPT ![f] = g]
  BY DEF Demote
<1>4. \A v \in DOMAIN flags[f] :
        /\ g[v] \in Flags
        /\ g[v] = IF v < demoting[p].version /\ flags[f][v] = "yes" THEN "no" ELSE flags[f][v]
  BY <1>2 DEF Flags
<1>5. g \in [DOMAIN flags[f] -> Flags]
  BY <1>4
<1> HIDE DEF g
<1>6. g \in [1 .. NewestOf(f) -> Flags]
  BY <1>2, <1>5
<1>7. \A v \in 1 .. NewestOf(f) : g[v] = IF v < demoting[p].version /\ flags[f][v] = "yes" THEN "no" ELSE flags[f][v]
  BY <1>2, <1>4
<1> HIDE DEF f
<1>8. f = demoting[p].file
  BY DEF f
<1> QED BY <1>1, <1>3, <1>6, <1>7, <1>8

LEMMA UploadDoes ==
  ASSUME StartupTyped, NEW p \in Process, NEW f \in File, Upload(p, f)
  PROVE  \E n \in 1 .. MaxVersions : \E g \in [1 .. n -> Flags] :
           /\ n = NewestOf(f) + 1 /\ flags' = [flags EXCEPT ![f] = g]
           /\ demoting' = [demoting EXCEPT ![p] = [file |-> f, version |-> n]]
           /\ \A v \in 1 .. n : g[v] = IF v = n THEN "yes" ELSE flags[f][v]
<1> DEFINE n == Cardinality(DOMAIN flags[f]) + 1
           g == [v \in 1 .. n |-> IF v = n THEN "yes" ELSE flags[f][v]]
<1>1. /\ Cardinality(DOMAIN flags[f]) = NewestOf(f) /\ NewestOf(f) \in Nat
      /\ flags[f] \in [1 .. NewestOf(f) -> Flags]
  BY SomeNewest
<1>2. /\ n \in 1 .. MaxVersions
      /\ flags' = [flags EXCEPT ![f] = g]
      /\ demoting' = [demoting EXCEPT ![p] = [file |-> f, version |-> n]]
  BY DEF Upload
<1>3. n = NewestOf(f) + 1
  BY <1>1
<1> HIDE DEF n
<1>4. \A v \in 1 .. n : v # n => v \in 1 .. NewestOf(f)
  BY <1>1, <1>3
<1>5. \A v \in 1 .. n : g[v] \in Flags /\ g[v] = IF v = n THEN "yes" ELSE flags[f][v]
  BY <1>1, <1>4 DEF Flags
<1>6. g \in [1 .. n -> Flags]
  BY <1>5
<1>7. \A v \in 1 .. n : g[v] = IF v = n THEN "yes" ELSE flags[f][v]
  BY <1>5
<1> HIDE DEF g
<1> QED BY <1>2, <1>3, <1>6, <1>7

LEMMA LeaveTypes ==
  ASSUME StartupTyped, NEW p \in Process, Leave(p)
  PROVE  /\ pc' \in [Process -> Places]
         /\ seen' \in [Process -> SUBSET Migrations]
         /\ todo' \in [Process -> SUBSET File]
         /\ found' \in [Process -> [file : File, version : 1 .. MaxVersions] \cup {Nothing}]
         /\ demoting' \in [Process -> [file : File, version : 1 .. MaxVersions] \cup {Nothing}]
BY DEF StartupTyped, Leave, Places

LEMMA StartupTypedStep == StartupInv /\ [StartupNext]_startupVars => StartupTyped'
<1> SUFFICES ASSUME StartupInv, [StartupNext]_startupVars PROVE StartupTyped'
  OBVIOUS
<1> USE DEF local, Step
<1>0. StartupTyped /\ \A p \in Process : InTurn(p)
  BY DEF StartupInv
<1>1. CASE UNCHANGED startupVars
  BY <1>0, <1>1 DEF startupVars, StartupTyped
<1>2. ASSUME NEW p \in Process, Connect(p) \/ NextMigration(p) \/ DropSuperseded(p)
      PROVE  StartupTyped'
  BY <1>0, <1>2
     DEF Connect, NextMigration, DropSuperseded, StartupTyped, Places, Indexing, Backfills
<1>3. ASSUME NEW p \in Process, ReadBatch(p) PROVE StartupTyped'
  <2>1. \A batch \in SUBSET Unflagged : {r[1] : r \in batch} \subseteq File
    BY DEF Unflagged
  <2>2. PICK place \in {"drop", "versions"} : pc' = [pc EXCEPT ![p] = place]
    BY <1>3 DEF ReadBatch
  <2>3. pc' \in [Process -> Places]
    BY <1>0, <2>2 DEF StartupTyped, Places, Backfills
  <2>4. todo' = todo \/ \E fs \in SUBSET File : todo' = [todo EXCEPT ![p] = fs]
    BY <1>3, <2>1 DEF ReadBatch
  <2>5. todo' \in [Process -> SUBSET File]
    BY <1>0, <2>4 DEF StartupTyped
  <2>6. UNCHANGED <<flags, recorded, seen, found, demoting>>
    BY <1>3 DEF ReadBatch
  <2> QED BY <1>0, <2>3, <2>5, <2>6 DEF StartupTyped
<1>4. ASSUME NEW p \in Process, ReadVersions(p) PROVE StartupTyped'
  <2>1. PICK f \in todo[p] :
          IF NewestOf(f) = 0
          THEN Leave(p) /\ refused' = TRUE
          ELSE /\ pc' = [pc EXCEPT ![p] = "flag"]
               /\ found' = [found EXCEPT ![p] = [file |-> f, version |-> NewestOf(f)]]
               /\ UNCHANGED <<seen, todo, demoting, refused>>
    BY <1>4 DEF ReadVersions
  <2>2. f \in File
    BY <1>0 DEF StartupTyped
  <2>3. NewestOf(f) # 0 => [file |-> f, version |-> NewestOf(f)] \in [file : File, version : 1 .. MaxVersions]
    BY <1>0, <2>2, SomeNewest
  <2>4. CASE NewestOf(f) = 0
    BY <1>0, <1>4, <2>1, <2>4, LeaveTypes DEF ReadVersions, StartupTyped
  <2>5. CASE NewestOf(f) # 0
    <3>1. /\ pc' = [pc EXCEPT ![p] = "flag"]
          /\ found' = [found EXCEPT ![p] = [file |-> f, version |-> NewestOf(f)]]
          /\ UNCHANGED <<seen, todo, demoting>>
      BY <2>1, <2>5
    <3>2. pc' \in [Process -> Places]
      BY <1>0, <3>1 DEF StartupTyped, Places, Backfills
    <3>3. found' \in [Process -> [file : File, version : 1 .. MaxVersions] \cup {Nothing}]
      BY <1>0, <2>3, <2>5, <3>1 DEF StartupTyped
    <3>4. UNCHANGED <<flags, recorded>>
      BY <1>4 DEF ReadVersions
    <3> QED BY <1>0, <3>1, <3>2, <3>3, <3>4 DEF StartupTyped
  <2> QED BY <2>4, <2>5
<1>5. ASSUME NEW p \in Process, FlagNewest(p) PROVE StartupTyped'
  <2>1. flags' \in [File -> Lists]
    <3>1. found[p] # Nothing
      BY <1>0, <1>5 DEF FlagNewest, InTurn
    <3>2. PICK f \in File : \E g \in [1 .. NewestOf(f) -> Flags] : flags' = [flags EXCEPT ![f] = g]
      BY <1>0, <1>5, <3>1, FlagNewestDoes
    <3> QED BY <1>0, <3>2, SomeNewest, FlagsTyped
  <2>2. pc' \in [Process -> Places]
    BY <1>0, <1>5 DEF FlagNewest, StartupTyped, Places, Backfills
  <2>3. UNCHANGED <<recorded, seen, todo, found, demoting>>
    BY <1>5 DEF FlagNewest
  <2> QED BY <1>0, <2>1, <2>2, <2>3 DEF StartupTyped
<1>6. ASSUME NEW p \in Process, FlagRest(p) PROVE StartupTyped'
  <2>1. flags' \in [File -> Lists]
    <3>1. found[p] # Nothing
      BY <1>0, <1>6 DEF FlagRest, InTurn
    <3>2. PICK f \in File : \E g \in [1 .. NewestOf(f) -> Flags] : flags' = [flags EXCEPT ![f] = g]
      BY <1>0, <1>6, <3>1, FlagRestDoes
    <3> QED BY <1>0, <3>2, SomeNewest, FlagsTyped
  <2>2. Onwards(p) \in Places
    BY DEF Onwards, Places, Backfills
  <2> QED BY <1>0, <1>6, <2>1, <2>2 DEF FlagRest, StartupTyped
<1>7. ASSUME NEW p \in Process, RecordMigration(p) PROVE StartupTyped'
  <2>1. Min(Migrations \ seen[p]) \in Migrations
    BY <1>0, <1>7, FirstMissing DEF RecordMigration, InTurn, StartupTyped, Migrations
  <2> QED BY <1>0, <1>7, <2>1 DEF RecordMigration, StartupTyped, Places
<1>8. ASSUME NEW p \in Process, EnsureIndex(p) \/ CreateAgain(p) PROVE StartupTyped'
  BY <1>0, <1>8 DEF EnsureIndex, CreateAgain, StartupTyped, Places, Indexing
<1>9. ASSUME NEW p \in Process, DropConflicting(p) \/ Crash(p) PROVE StartupTyped'
  BY <1>0, <1>9, LeaveTypes DEF DropConflicting, Crash, StartupTyped, Places, Indexing
<1>10. ASSUME NEW p \in Process, NEW f \in File, Upload(p, f) PROVE StartupTyped'
  <2>1. PICK n \in 1 .. MaxVersions : \E g \in [1 .. n -> Flags] :
          /\ flags' = [flags EXCEPT ![f] = g]
          /\ demoting' = [demoting EXCEPT ![p] = [file |-> f, version |-> n]]
    BY <1>0, <1>10, UploadDoes
  <2>2. n \in 0 .. MaxVersions
    OBVIOUS
  <2>3. flags' \in [File -> Lists]
    BY <1>0, <2>1, <2>2, FlagsTyped
  <2> QED BY <1>0, <1>10, <2>1, <2>3 DEF Upload, StartupTyped
<1>11. ASSUME NEW p \in Process, Demote(p) PROVE StartupTyped'
  <2>1. flags' \in [File -> Lists]
    <3>1. PICK f \in File : \E g \in [1 .. NewestOf(f) -> Flags] : flags' = [flags EXCEPT ![f] = g]
      BY <1>0, <1>11, DemoteDoes
    <3> QED BY <1>0, <3>1, SomeNewest, FlagsTyped
  <2> QED BY <1>0, <1>11, <2>1 DEF Demote, StartupTyped
<1>12. ASSUME NEW p \in Process, NEW f \in File, Erase(p, f) PROVE StartupTyped'
  <2>1. [v \in {} |-> "no"] \in [1 .. 0 -> Flags] /\ 0 \in 0 .. MaxVersions
    BY StartupAssumption
  <2>2. flags' \in [File -> Lists]
    BY <1>0, <1>12, <2>1, FlagsTyped DEF Erase
  <2> QED BY <1>0, <1>12, <2>2 DEF Erase, StartupTyped
<1> QED
  BY <1>1, <1>2, <1>3, <1>4, <1>5, <1>6, <1>7, <1>8, <1>9, <1>10, <1>11, <1>12
     DEF StartupNext, Starting
-----------------------------------------------------------------------------
(* What is recorded is done.                                               *)

\* No version loses its flag.
LEMMA FlagsStay ==
  ASSUME StartupTyped, NEW f \in File, NEW n \in 0 .. MaxVersions, NEW g \in [1 .. n -> Flags],
         flags' = [flags EXCEPT ![f] = g],
         \A v \in 1 .. n : g[v] = "missing" => v \in 1 .. NewestOf(f) /\ flags[f][v] = "missing"
  PROVE  Unflagged' \subseteq Unflagged
<1>1. DOMAIN flags[f] = 1 .. NewestOf(f)
  BY SomeNewest
<1>2. flags'[f] = g /\ DOMAIN flags'[f] = 1 .. n
  BY FlagsTyped
<1>3. ASSUME NEW e \in File \ {f} PROVE flags'[e] = flags[e]
  BY <1>3 DEF StartupTyped
<1>4. ASSUME NEW r \in Unflagged' PROVE r \in Unflagged
  <2>1. /\ r \in File \X (1 .. MaxVersions)
        /\ r[2] \in DOMAIN flags'[r[1]] /\ flags'[r[1]][r[2]] = "missing"
    BY <1>4 DEF Unflagged
  <2>2. r[2] \in DOMAIN flags[r[1]] /\ flags[r[1]][r[2]] = "missing"
    <3>1. CASE r[1] = f
      BY <1>1, <1>2, <2>1, <3>1
    <3>2. CASE r[1] # f
      BY <1>3, <2>1, <3>2
    <3> QED BY <3>1, <3>2
  <2> QED BY <2>1, <2>2 DEF Unflagged
<1> QED BY <1>4

\* A process whose own state is the same, while others get on.
LEMMA StillInTurn ==
  ASSUME NEW q \in Process, InTurn(q),
         pc'[q] = pc[q], seen'[q] = seen[q], found'[q] = found[q], demoting'[q] = demoting[q],
         recorded \subseteq recorded', superseded' \subseteq superseded,
         Unflagged' \subseteq Unflagged,
         demoting[q] # Nothing => \/ NewestOf(demoting[q].file)' = NewestOf(demoting[q].file)
                                  \/ demoting[q].version <= NewestOf(demoting[q].file)'
  PROVE  InTurn(q)'
BY DEF InTurn, Upcoming

LEMMA LeftInTurn ==
  ASSUME StartupTyped, NEW p \in Process, Leave(p)
  PROVE  InTurn(p)'
BY DEF StartupTyped, Leave, InTurn, Backfills, Indexing, Upcoming

\* What each step leaves as it is, for all but the process that takes it.
Bystander(p) ==
  \A q \in Process \ {p} :
    pc'[q] = pc[q] /\ seen'[q] = seen[q] /\ found'[q] = found[q] /\ demoting'[q] = demoting[q]

LEMMA OthersInTurn ==
  ASSUME StartupInv, StartupTyped', NEW p \in Process, Bystander(p), InTurn(p)',
         recorded \subseteq recorded', superseded' \subseteq superseded,
         \/ flags' = flags
         \/ /\ Unflagged' \subseteq Unflagged
            /\ \A q \in Process \ {p} : demoting[q] # Nothing =>
                 NewestOf(demoting[q].file) <= NewestOf(demoting[q].file)'
  PROVE  \A q \in Process : InTurn(q)'
<1> SUFFICES ASSUME NEW q \in Process \ {p} PROVE InTurn(q)'
  OBVIOUS
<1>1. InTurn(q) /\ StartupTyped
  BY DEF StartupInv
<1>2. Unflagged' \subseteq Unflagged
  BY DEF Unflagged
<1>3. ASSUME demoting[q] # Nothing
      PROVE  \/ NewestOf(demoting[q].file)' = NewestOf(demoting[q].file)
             \/ demoting[q].version <= NewestOf(demoting[q].file)'
  <2>1. CASE flags' = flags
    BY <2>1 DEF NewestOf, Bystander
  <2>2. CASE NewestOf(demoting[q].file) <= NewestOf(demoting[q].file)'
    <3>1. PICK f \in File, v \in Nat :
            /\ f = demoting[q].file /\ v = demoting[q].version
            /\ f = demoting'[q].file
      BY <1>1, <1>3, StartupAssumption DEF StartupTyped, Bystander
    <3>2. NewestOf(f) \in Nat /\ NewestOf(f)' \in Nat
      BY <1>1, SomeNewest, ListShape, NewestIs DEF StartupTyped
    <3>3. v <= NewestOf(f) /\ NewestOf(f) <= NewestOf(f)'
      BY <1>1, <1>3, <2>2, <3>1 DEF InTurn
    <3>4. v <= NewestOf(f)'
      BY <3>2, <3>3
    <3> QED BY <3>1, <3>4
  <2> QED BY <1>3, <2>1, <2>2
<1> QED BY <1>1, <1>2, <1>3, StillInTurn DEF Bystander
LEMMA InTurnStep ==
  ASSUME StartupInv, [StartupNext]_startupVars
  PROVE  \A q \in Process : InTurn(q)'
<1>0. /\ StartupTyped /\ StartupTyped' /\ RecordedIsDone /\ \A q \in Process : InTurn(q)
  BY StartupTypedStep DEF StartupInv
<1> USE DEF local, Step
<1>1. CASE UNCHANGED startupVars
  BY <1>0, <1>1 DEF startupVars, InTurn, Upcoming, Unflagged, NewestOf
<1>2. ASSUME NEW p \in Process, Connect(p) \/ NextMigration(p)
      PROVE  \A q \in Process : InTurn(q)'
  <2>1. Bystander(p) /\ UNCHANGED <<flags, recorded, superseded>>
    BY <1>0, <1>2 DEF Connect, NextMigration, Bystander, StartupTyped
  <2>2. InTurn(p)'
    <3>1. CASE Connect(p)
      BY <1>0, <3>1 DEF Connect, InTurn, StartupTyped, Backfills, Indexing
    <3>2. CASE NextMigration(p)
      <4>1. /\ pc[p] = "migrations" /\ UNCHANGED <<seen, recorded, demoting, found>>
            /\ seen[p] \subseteq recorded /\ demoting[p] = Nothing
        BY <1>0, <3>2 DEF NextMigration, InTurn
      <4>2. \/ pc'[p] = "index" /\ Migrations \ seen[p] = {}
            \/ pc'[p] = "drop" /\ 1 \notin seen[p]
            \/ pc'[p] = "batch" /\ 1 \in seen[p] /\ Migrations \ seen[p] # {}
        BY <1>0, <3>2 DEF NextMigration, StartupTyped, Migrations
      <4>3. seen[p] \subseteq Migrations
        BY <1>0 DEF StartupTyped
      <4>4. /\ Migrations \ seen[p] = {} => seen[p] = Migrations
            /\ 1 \notin seen[p] => seen[p] # Migrations
            /\ 1 \in seen[p] /\ Migrations \ seen[p] # {} => seen[p] = {1}
        BY <4>3 DEF Migrations
      <4> QED BY <4>1, <4>2, <4>4 DEF InTurn, Backfills, Indexing
    <3> QED BY <1>2, <3>1, <3>2
  <2> QED BY <1>0, <2>1, <2>2, OthersInTurn
<1>3. ASSUME NEW p \in Process, DropSuperseded(p)
      PROVE  \A q \in Process : InTurn(q)'
  <2>1. Bystander(p) /\ UNCHANGED <<flags, recorded>> /\ superseded' \subseteq superseded
    BY <1>0, <1>3 DEF DropSuperseded, Bystander, StartupTyped
  <2>2. Min(Migrations \ seen[p]) = Upcoming(p)
    BY <1>0, <1>3, FirstMissing DEF DropSuperseded, InTurn, StartupTyped, Upcoming
  <2>3. InTurn(p)'
    BY <1>0, <1>3, <2>2
       DEF DropSuperseded, InTurn, StartupTyped, Backfills, Indexing, Upcoming, Unflagged
  <2> QED BY <1>0, <2>1, <2>3, OthersInTurn
<1>4. ASSUME NEW p \in Process, ReadBatch(p) \/ ReadVersions(p)
      PROVE  \A q \in Process : InTurn(q)'
  <2>1. Bystander(p) /\ UNCHANGED <<flags, recorded, superseded>>
    BY <1>0, <1>4 DEF ReadBatch, ReadVersions, Leave, Bystander, StartupTyped
  <2>2. CASE ReadBatch(p)
    <3>1. InTurn(p)'
      <4>1. /\ pc[p] = "batch" /\ UNCHANGED <<seen, recorded, demoting, found, flags>>
            /\ seen[p] \subseteq recorded /\ demoting[p] = Nothing /\ seen[p] = {1}
        BY <1>0, <2>2 DEF ReadBatch, InTurn, Backfills
      <4>2. pc'[p] = "versions" \/ (pc'[p] = "drop" /\ Unflagged = {})
        BY <1>0, <2>2 DEF ReadBatch, StartupTyped
      <4>3. Unflagged' = Unflagged /\ {1} # Migrations
        BY <4>1 DEF Unflagged, Migrations
      <4> QED BY <4>1, <4>2, <4>3 DEF InTurn, Backfills, Indexing
    <3> QED BY <1>0, <2>1, <3>1, OthersInTurn
  <2>3. CASE ReadVersions(p)
    <3>1. CASE Leave(p)
      <4>1. InTurn(p)'
        BY <1>0, <3>1, LeftInTurn
      <4> QED BY <1>0, <2>1, <4>1, OthersInTurn
    <3>2. CASE ~Leave(p)
      <4>1. PICK f \in todo[p] :
              /\ pc' = [pc EXCEPT ![p] = "flag"]
              /\ found' = [found EXCEPT ![p] = [file |-> f, version |-> NewestOf(f)]]
              /\ UNCHANGED <<seen, todo, demoting, refused>> /\ NewestOf(f) # 0
        BY <2>3, <3>2 DEF ReadVersions
      <4>2. pc[p] = "versions" /\ found'[p].version # 0
        BY <1>0, <2>3, <4>1 DEF ReadVersions, StartupTyped
      <4>3. InTurn(p)'
        <5>1. /\ pc'[p] = "flag" /\ seen[p] = {1} /\ seen'[p] = seen[p] /\ demoting'[p] = Nothing
              /\ seen[p] \subseteq recorded'
          BY <1>0, <2>1, <4>1, <4>2 DEF InTurn, StartupTyped, Backfills
        <5>2. found'[p] # Nothing
          BY <4>2 DEF Nothing
        <5> QED BY <5>1, <5>2 DEF InTurn, Backfills, Indexing
      <4> QED BY <1>0, <2>1, <4>3, OthersInTurn
    <3> QED BY <3>1, <3>2
  <2> QED BY <1>4, <2>2, <2>3
<1>5. ASSUME NEW p \in Process, FlagNewest(p) \/ FlagRest(p)
      PROVE  \A q \in Process : InTurn(q)'
  <2>1. Bystander(p) /\ UNCHANGED <<recorded, superseded>>
    BY <1>0, <1>5 DEF FlagNewest, FlagRest, Bystander, StartupTyped
  <2>2. found[p] # Nothing
    BY <1>0, <1>5 DEF FlagNewest, FlagRest, InTurn
  <2>3. PICK f \in File : \E g \in [1 .. NewestOf(f) -> Flags] :
          /\ flags' = [flags EXCEPT ![f] = g]
          /\ \A v \in 1 .. NewestOf(f) : g[v] = "missing" => flags[f][v] = "missing"
    <3>1. CASE FlagNewest(p)
      <4>1. PICK f \in File : \E g \in [1 .. NewestOf(f) -> Flags] :
              /\ flags' = [flags EXCEPT ![f] = g]
              /\ \A v \in 1 .. NewestOf(f) :
                   g[v] = IF v = found[p].version THEN "yes" ELSE flags[f][v]
        BY <1>0, <2>2, <3>1, FlagNewestDoes
      <4>2. PICK g \in [1 .. NewestOf(f) -> Flags] :
              /\ flags' = [flags EXCEPT ![f] = g]
              /\ \A v \in 1 .. NewestOf(f) :
                   g[v] = IF v = found[p].version THEN "yes" ELSE flags[f][v]
        BY <4>1
      <4>3. \A v \in 1 .. NewestOf(f) : g[v] = "missing" => flags[f][v] = "missing"
        BY <4>2
      <4> QED BY <4>2, <4>3
    <3>2. CASE FlagRest(p)
      <4>1. \A x : NotLatest(x) = "missing" => x = "missing"
        BY DEF NotLatest
      <4>2. PICK f \in File : \E g \in [1 .. NewestOf(f) -> Flags] :
              /\ flags' = [flags EXCEPT ![f] = g]
              /\ \A v \in 1 .. NewestOf(f) : g[v] = NotLatest(flags[f][v])
        BY <1>0, <2>2, <3>2, FlagRestDoes
      <4>3. PICK g \in [1 .. NewestOf(f) -> Flags] :
              /\ flags' = [flags EXCEPT ![f] = g]
              /\ \A v \in 1 .. NewestOf(f) : g[v] = NotLatest(flags[f][v])
        BY <4>2
      <4>4. \A v \in 1 .. NewestOf(f) : g[v] = "missing" => flags[f][v] = "missing"
        BY <4>1, <4>3
      <4> QED BY <4>3, <4>4
    <3> QED BY <1>5, <3>1, <3>2
  <2>4. NewestOf(f) \in 0 .. MaxVersions
    BY <1>0, SomeNewest
  <2>5. Unflagged' \subseteq Unflagged
    BY <1>0, <2>3, <2>4, FlagsStay
  <2>6. \A e \in File : NewestOf(e)' = NewestOf(e)
    BY <1>0, <2>3, <2>4, FlagsTyped
  <2>7. \A q \in Process \ {p} : demoting[q] # Nothing =>
          NewestOf(demoting[q].file) <= NewestOf(demoting[q].file)'
    <3> SUFFICES ASSUME NEW q \in Process \ {p}, demoting[q] # Nothing
                 PROVE  NewestOf(demoting[q].file) <= NewestOf(demoting[q].file)'
      OBVIOUS
    <3>1. PICK e \in File : e = demoting[q].file /\ e = demoting'[q].file
      BY <1>0, <2>1 DEF StartupTyped, Bystander
    <3>2. NewestOf(e) \in Nat /\ NewestOf(e)' = NewestOf(e)
      BY <1>0, <2>6, SomeNewest
    <3> QED BY <3>1, <3>2
  <2>8. InTurn(p)'
    <3>1. CASE FlagNewest(p)
      BY <1>0, <2>2, <3>1 DEF FlagNewest, InTurn, StartupTyped, Backfills, Indexing
    <3>2. CASE FlagRest(p)
      BY <1>0, <3>2 DEF FlagRest, InTurn, StartupTyped, Backfills, Indexing, Onwards
    <3> QED BY <1>5, <3>1, <3>2
  <2> QED BY <1>0, <2>1, <2>5, <2>7, <2>8, OthersInTurn
<1>6. ASSUME NEW p \in Process, RecordMigration(p)
      PROVE  \A q \in Process : InTurn(q)'
  <2>1. Bystander(p) /\ UNCHANGED <<flags, superseded>> /\ recorded \subseteq recorded'
    BY <1>0, <1>6 DEF RecordMigration, Bystander, StartupTyped
  <2>2. InTurn(p)'
    BY <1>0, <1>6 DEF RecordMigration, InTurn, StartupTyped, Backfills, Indexing
  <2> QED BY <1>0, <2>1, <2>2, OthersInTurn
<1>7. ASSUME NEW p \in Process, \/ EnsureIndex(p) \/ DropConflicting(p) \/ CreateAgain(p) \/ Crash(p)
      PROVE  \A q \in Process : InTurn(q)'
  <2>1. Bystander(p) /\ UNCHANGED <<flags, recorded, superseded>>
    BY <1>0, <1>7 DEF EnsureIndex, DropConflicting, CreateAgain, Crash, Leave, Bystander, StartupTyped
  <2>2. CASE Leave(p)
    <3>1. InTurn(p)'
      BY <1>0, <2>2, LeftInTurn
    <3> QED BY <1>0, <2>1, <3>1, OthersInTurn
  <2>3. CASE ~Leave(p)
    <3>1. /\ pc[p] \in Indexing /\ pc'[p] \in Indexing \cup {"serving"}
          /\ UNCHANGED <<seen, found, demoting>>
      BY <1>0, <1>7, <2>3
         DEF EnsureIndex, DropConflicting, CreateAgain, Crash, StartupTyped, Indexing
    <3>2. InTurn(p)'
      BY <1>0, <2>1, <3>1 DEF InTurn, Backfills, Indexing
    <3> QED BY <1>0, <2>1, <3>2, OthersInTurn
  <2> QED BY <2>2, <2>3
<1>8. ASSUME NEW p \in Process, NEW f \in File, Upload(p, f)
      PROVE  \A q \in Process : InTurn(q)'
  <2>1. Bystander(p) /\ UNCHANGED <<recorded, superseded, pc, seen, found>> /\ pc[p] = "serving"
    BY <1>0, <1>8 DEF Upload, Bystander, StartupTyped
  <2>2. PICK n \in 1 .. MaxVersions : \E g \in [1 .. n -> Flags] :
           /\ n = NewestOf(f) + 1 /\ flags' = [flags EXCEPT ![f] = g]
           /\ demoting' = [demoting EXCEPT ![p] = [file |-> f, version |-> n]]
           /\ \A v \in 1 .. n : g[v] = IF v = n THEN "yes" ELSE flags[f][v]
    BY <1>0, <1>8, UploadDoes
  <2>3. n \in 0 .. MaxVersions /\ NewestOf(f) \in Nat
    BY <1>0, SomeNewest
  <2>4. Unflagged' \subseteq Unflagged
    <3>1. PICK g \in [1 .. n -> Flags] :
            /\ flags' = [flags EXCEPT ![f] = g]
            /\ \A v \in 1 .. n : g[v] = IF v = n THEN "yes" ELSE flags[f][v]
      BY <2>2
    <3>2. \A v \in 1 .. n : g[v] = "missing" => v \in 1 .. NewestOf(f) /\ flags[f][v] = "missing"
      BY <2>2, <2>3, <3>1
    <3> QED BY <1>0, <2>3, <3>1, <3>2, FlagsStay
  <2>5. NewestOf(f)' = n /\ \A e \in File \ {f} : NewestOf(e)' = NewestOf(e)
    BY <1>0, <2>2, <2>3, FlagsTyped
  <2>6. \A q \in Process \ {p} : demoting[q] # Nothing =>
          NewestOf(demoting[q].file) <= NewestOf(demoting[q].file)'
    <3> SUFFICES ASSUME NEW q \in Process \ {p}, demoting[q] # Nothing
                 PROVE  NewestOf(demoting[q].file) <= NewestOf(demoting[q].file)'
      OBVIOUS
    <3>1. PICK e \in File : e = demoting[q].file /\ e = demoting'[q].file
      BY <1>0, <2>1 DEF StartupTyped, Bystander
    <3>2. NewestOf(e) \in Nat /\ NewestOf(e) <= NewestOf(e)'
      BY <1>0, <2>2, <2>5, SomeNewest
    <3> QED BY <3>1, <3>2
  <2>7. demoting'[p] = [file |-> f, version |-> n] /\ n <= NewestOf(f)'
    BY <1>0, <2>2, <2>5 DEF StartupTyped
  <2>8. InTurn(p)'
    <3>1. /\ seen[p] = Migrations /\ seen[p] \subseteq recorded /\ pc'[p] = "serving"
          /\ seen' = seen /\ recorded' = recorded
      BY <1>0, <2>1 DEF InTurn
    <3>2. (demoting[p].version <= NewestOf(demoting[p].file))'
      BY <2>7 DEF NewestOf
    <3> QED BY <3>1, <3>2 DEF InTurn, Backfills, Indexing
  <2> QED BY <1>0, <2>1, <2>4, <2>6, <2>8, OthersInTurn
<1>9. ASSUME NEW p \in Process, Demote(p)
      PROVE  \A q \in Process : InTurn(q)'
  <2>1. Bystander(p) /\ UNCHANGED <<recorded, superseded, pc, seen, found>> /\ pc[p] = "serving"
    BY <1>0, <1>9 DEF Demote, Bystander, StartupTyped, InTurn
  <2>2. PICK f \in File : \E g \in [1 .. NewestOf(f) -> Flags] :
          /\ flags' = [flags EXCEPT ![f] = g]
          /\ \A v \in 1 .. NewestOf(f) : g[v] = "missing" => flags[f][v] = "missing"
    BY <1>0, <1>9, DemoteDoes
  <2>3. NewestOf(f) \in 0 .. MaxVersions
    BY <1>0, SomeNewest
  <2>4. Unflagged' \subseteq Unflagged
    BY <1>0, <2>2, <2>3, FlagsStay
  <2>5. \A e \in File : NewestOf(e)' = NewestOf(e)
    BY <1>0, <2>2, <2>3, FlagsTyped
  <2>6. \A q \in Process \ {p} : demoting[q] # Nothing =>
          NewestOf(demoting[q].file) <= NewestOf(demoting[q].file)'
    <3> SUFFICES ASSUME NEW q \in Process \ {p}, demoting[q] # Nothing
                 PROVE  NewestOf(demoting[q].file) <= NewestOf(demoting[q].file)'
      OBVIOUS
    <3>1. PICK e \in File : e = demoting[q].file /\ e = demoting'[q].file
      BY <1>0, <2>1 DEF StartupTyped, Bystander
    <3>2. NewestOf(e) \in Nat /\ NewestOf(e)' = NewestOf(e)
      BY <1>0, <2>5, SomeNewest
    <3> QED BY <3>1, <3>2
  <2>7. InTurn(p)'
    BY <1>0, <1>9, <2>1 DEF InTurn, Backfills, Indexing, Demote, StartupTyped
  <2> QED BY <1>0, <2>1, <2>4, <2>6, <2>7, OthersInTurn
<1>10. ASSUME NEW p \in Process, NEW f \in File, Erase(p, f)
       PROVE  \A q \in Process : InTurn(q)'
  <2>1. UNCHANGED <<recorded, superseded, pc, seen, found, demoting>>
    BY <1>10 DEF Erase
  <2>2. [v \in {} |-> "no"] \in [1 .. 0 -> Flags] /\ 0 \in 0 .. MaxVersions
    BY StartupAssumption
  <2>3. Unflagged' \subseteq Unflagged
    BY <1>0, <1>10, <2>2, FlagsStay DEF Erase
  <2>4. \A e \in File \ {f} : NewestOf(e)' = NewestOf(e)
    BY <1>0, <1>10, <2>2, FlagsTyped DEF Erase
  <2> SUFFICES ASSUME NEW q \in Process PROVE InTurn(q)'
    OBVIOUS
  <2>5. ASSUME demoting[q] # Nothing
        PROVE  NewestOf(demoting[q].file)' = NewestOf(demoting[q].file)
    <3>1. demoting[q].file \in File \ {f} /\ demoting' = demoting
      BY <1>0, <1>10, <2>1, <2>5 DEF Erase, StartupTyped
    <3> QED BY <2>4, <3>1
  <2> QED BY <1>0, <2>1, <2>3, <2>5, StillInTurn
<1> QED
  BY <1>1, <1>2, <1>3, <1>4, <1>5, <1>6, <1>7, <1>8, <1>9, <1>10 DEF StartupNext, Starting
LEMMA NoFlagLost ==
  ASSUME StartupInv, [StartupNext]_startupVars
  PROVE  Unflagged' \subseteq Unflagged
<1>0. StartupTyped /\ \A q \in Process : InTurn(q)
  BY DEF StartupInv
<1>1. CASE flags' = flags
  BY <1>1 DEF Unflagged
<1>2. ASSUME NEW p \in Process, FlagNewest(p) \/ FlagRest(p) \/ Demote(p)
      PROVE  Unflagged' \subseteq Unflagged
  <2>1. FlagNewest(p) \/ FlagRest(p) => found[p] # Nothing
    BY <1>0 DEF FlagNewest, FlagRest, InTurn, Step
  <2>2. \A x : NotLatest(x) = "missing" => x = "missing"
    BY DEF NotLatest
  <2>3. PICK f \in File : \E g \in [1 .. NewestOf(f) -> Flags] :
          /\ flags' = [flags EXCEPT ![f] = g]
          /\ \A v \in 1 .. NewestOf(f) : g[v] = "missing" => flags[f][v] = "missing"
    <3>1. CASE FlagNewest(p)
      BY <1>0, <2>1, <3>1, FlagNewestDoes
    <3>2. CASE FlagRest(p)
      BY <1>0, <2>1, <2>2, <3>2, FlagRestDoes
    <3>3. CASE Demote(p)
      BY <1>0, <3>3, DemoteDoes
    <3> QED BY <1>2, <3>1, <3>2, <3>3
  <2> QED BY <1>0, <2>3, SomeNewest, FlagsStay
<1>3. ASSUME NEW p \in Process, NEW f \in File, Upload(p, f)
      PROVE  Unflagged' \subseteq Unflagged
  <2>1. PICK n \in 1 .. MaxVersions : \E g \in [1 .. n -> Flags] :
           /\ n = NewestOf(f) + 1 /\ flags' = [flags EXCEPT ![f] = g]
           /\ demoting' = [demoting EXCEPT ![p] = [file |-> f, version |-> n]]
           /\ \A v \in 1 .. n : g[v] = IF v = n THEN "yes" ELSE flags[f][v]
    BY <1>0, <1>3, UploadDoes
  <2>2. NewestOf(f) \in Nat /\ n \in 0 .. MaxVersions
    BY <1>0, SomeNewest
  <2>3. PICK g \in [1 .. n -> Flags] :
          /\ flags' = [flags EXCEPT ![f] = g]
          /\ \A v \in 1 .. n : g[v] = IF v = n THEN "yes" ELSE flags[f][v]
    BY <2>1
  <2>4. \A v \in 1 .. n : g[v] = "missing" => v \in 1 .. NewestOf(f) /\ flags[f][v] = "missing"
    BY <2>1, <2>2, <2>3
  <2> QED BY <1>0, <2>2, <2>3, <2>4, FlagsStay
<1>4. ASSUME NEW p \in Process, NEW f \in File, Erase(p, f)
      PROVE  Unflagged' \subseteq Unflagged
  <2>1. [v \in {} |-> "no"] \in [1 .. 0 -> Flags] /\ 0 \in 0 .. MaxVersions
    BY StartupAssumption
  <2> QED BY <1>0, <1>4, <2>1, FlagsStay DEF Erase
<1> QED
  BY <1>1, <1>2, <1>3, <1>4
     DEF StartupNext, Starting, startupVars, Connect, NextMigration, DropSuperseded, ReadBatch,
         ReadVersions, RecordMigration, EnsureIndex, DropConflicting, CreateAgain, Crash, local

LEMMA RecordedStep ==
  ASSUME StartupInv, [StartupNext]_startupVars
  PROVE  RecordedIsDone'
<1>0. StartupTyped /\ RecordedIsDone /\ \A q \in Process : InTurn(q)
  BY DEF StartupInv
<1>1. CASE recorded' = recorded /\ superseded' \subseteq superseded
  BY <1>0, <1>1, NoFlagLost DEF RecordedIsDone
<1>2. ASSUME NEW p \in Process, RecordMigration(p) PROVE RecordedIsDone'
  <2>1. Min(Migrations \ seen[p]) = Upcoming(p)
    BY <1>0, <1>2, FirstMissing DEF RecordMigration, InTurn, StartupTyped, Upcoming, Step
  <2>2. recorded' = recorded \cup {Upcoming(p)} /\ superseded' = superseded
    BY <1>2, <2>1 DEF RecordMigration
  <2>3. Upcoming(p) \notin superseded /\ (Upcoming(p) = 2 => Unflagged = {})
    <3>1. pc[p] = "record"
      BY <1>2 DEF RecordMigration, Step
    <3>2. Upcoming(p) \notin superseded /\ (1 \in seen[p] => Unflagged = {})
      BY <1>0, <3>1 DEF InTurn
    <3> QED BY <3>2 DEF Upcoming
  <2>4. superseded' \cap recorded' = {}
    BY <1>0, <2>2, <2>3 DEF RecordedIsDone
  <2>5. 2 \in recorded' => Unflagged = {}
    BY <1>0, <2>2, <2>3 DEF RecordedIsDone
  <2>6. Unflagged = {} => Unflagged' = {}
    BY NoFlagLost
  <2> QED BY <2>4, <2>5, <2>6 DEF RecordedIsDone
<1>3. ASSUME \A p \in Process : ~RecordMigration(p)
      PROVE  recorded' = recorded /\ superseded' \subseteq superseded
  <2>1. ASSUME NEW p \in Process, Starting(p) PROVE recorded' = recorded /\ superseded' \subseteq superseded
    BY <1>3, <2>1 DEF Starting, Connect, NextMigration, DropSuperseded, ReadBatch, ReadVersions,
                      FlagNewest, FlagRest, EnsureIndex, DropConflicting, CreateAgain
  <2>2. ASSUME NEW p \in Process, Demote(p) \/ Crash(p) \/ \E f \in File : Upload(p, f) \/ Erase(p, f)
        PROVE  recorded' = recorded /\ superseded' = superseded
    BY <2>2 DEF Demote, Crash, Upload, Erase
  <2> QED BY <2>1, <2>2 DEF StartupNext, startupVars
<1> QED BY <1>1, <1>2, <1>3

-----------------------------------------------------------------------------
(* One version of a file is current.                                       *)

LEMMA QuietUntouched ==
  ASSUME Untouched, flags' = flags, demoting' = demoting,
         \A q \in Process : pc'[q] \in {"flag", "flag_rest"} =>
           \/ pc'[q] = pc[q] /\ found'[q] = found[q]
           \/ pc'[q] = "flag" /\ found'[q].version = NewestOf(found'[q].file)
  PROVE  Untouched'
<1>1. ASSUME NEW f \in File PROVE Max({0} \cup DOMAIN flags'[f]) = Max({0} \cup DOMAIN flags[f])
  OBVIOUS
<1>2. ASSUME NEW q \in Process, pc'[q] \in {"flag", "flag_rest"}
      PROVE  found'[q].version = Max({0} \cup DOMAIN flags'[found'[q].file])
  <2>1. CASE pc'[q] = pc[q] /\ found'[q] = found[q]
    <3>1. found[q].version = NewestOf(found[q].file)
      BY <1>2, <2>1 DEF Untouched
    <3>2. found[q].version = Max({0} \cup DOMAIN flags[found[q].file])
      BY <3>1 DEF NewestOf
    <3> QED BY <2>1, <3>2
  <2>2. CASE found'[q].version = NewestOf(found'[q].file)
    BY <2>2 DEF NewestOf
  <2> QED BY <1>2, <2>1, <2>2
<1>3. ASSUME NEW q \in Process, pc'[q] = "flag_rest"
      PROVE  flags'[found'[q].file][found'[q].version] = "yes"
  BY <1>3 DEF Untouched
<1>4. ASSUME NEW f \in File, Max({0} \cup DOMAIN flags'[f]) # 0
      PROVE  flags'[f][Max({0} \cup DOMAIN flags'[f])] # "no"
  BY <1>1, <1>4 DEF Untouched, NewestOf
<1>5. ASSUME NEW f \in File, NEW v \in DOMAIN flags'[f],
             flags'[f][v] = "yes", v < Max({0} \cup DOMAIN flags'[f])
      PROVE  \E q \in Process : demoting'[q].file = f /\ demoting'[q].version > v
  BY <1>1, <1>5 DEF Untouched, NewestOf
<1> QED BY <1>2, <1>3, <1>4, <1>5 DEF Untouched, NewestOf

LEMMA FlaggingUntouched ==
  ASSUME StartupInv, Untouched, NEW p \in Process, FlagNewest(p) \/ FlagRest(p)
  PROVE  Untouched'
<1> USE DEF Step
<1>0. StartupTyped /\ InTurn(p)
  BY DEF StartupInv
<1>1. /\ found[p] # Nothing /\ demoting' = demoting
      /\ found[p].version = NewestOf(found[p].file)
      /\ FlagRest(p) => flags[found[p].file][found[p].version] = "yes"
  BY <1>0 DEF FlagNewest, FlagRest, InTurn, Untouched
<1>2. PICK f \in File : f = found[p].file
  BY <1>0, <1>1 DEF StartupTyped
<1>3. PICK g \in [1 .. NewestOf(f) -> Flags] :
        /\ flags' = [flags EXCEPT ![f] = g]
        /\ NewestOf(f) # 0 => g[NewestOf(f)] = "yes"
        /\ \A v \in 1 .. NewestOf(f) : v # NewestOf(f) /\ g[v] = "yes" => flags[f][v] = "yes"
  <2>1. NewestOf(f) \in Nat /\ (NewestOf(f) # 0 => NewestOf(f) \in 1 .. NewestOf(f))
    BY <1>0, SomeNewest
  <2>2. CASE FlagNewest(p)
    BY <1>0, <1>1, <1>2, <2>1, <2>2, FlagNewestDoes
  <2>3. CASE FlagRest(p)
    <3>1. NotLatest("yes") = "yes" /\ \A x : NotLatest(x) = "yes" => x = "yes"
      BY DEF NotLatest
    <3> QED BY <1>0, <1>1, <1>2, <2>1, <2>3, <3>1, FlagRestDoes
  <2> QED BY <2>2, <2>3
<1>4. NewestOf(f) \in 0 .. MaxVersions /\ NewestOf(f) \in Nat /\ DOMAIN flags[f] = 1 .. NewestOf(f)
  BY <1>0, SomeNewest
<1>5. /\ flags'[f] = g /\ NewestOf(f)' = NewestOf(f) /\ DOMAIN flags'[f] = 1 .. NewestOf(f)
      /\ \A e \in File \ {f} : flags'[e] = flags[e] /\ NewestOf(e)' = NewestOf(e)
  BY <1>0, <1>3, <1>4, FlagsTyped
<1>6. ASSUME NEW q \in Process, pc'[q] \in {"flag", "flag_rest"}
      PROVE  /\ (found[q].version = NewestOf(found[q].file))'
             /\ pc'[q] = "flag_rest" => flags'[found'[q].file][found'[q].version] = "yes"
  <2>1. /\ found'[q] = found[q] /\ pc[q] \in {"flag", "flag_rest"}
        /\ q # p => pc'[q] = pc[q]
    BY <1>0, <1>6 DEF FlagNewest, FlagRest, StartupTyped, Onwards
  <2>2. found[q] # Nothing
    BY <2>1 DEF StartupInv, InTurn
  <2>3. PICK e \in File, v \in 1 .. MaxVersions : e = found[q].file /\ v = found[q].version
    BY <1>0, <2>2 DEF StartupTyped
  <2>4. v = NewestOf(e) /\ NewestOf(e)' = NewestOf(e) /\ v # 0
    <3>1. NewestOf(e)' = NewestOf(e)
      BY <1>5
    <3>2. found[q].version = NewestOf(found[q].file)
      BY <2>1 DEF Untouched
    <3> QED BY <2>3, <3>1, <3>2
  <2>5. q # p /\ pc'[q] = "flag_rest" => flags[e][v] = "yes"
    BY <2>1, <2>3 DEF Untouched
  <2>6. q = p => e = f
    BY <1>2, <2>3
  <2>7. pc'[q] = "flag_rest" => flags'[e][v] = "yes"
    BY <1>3, <1>5, <2>4, <2>5, <2>6
  <2>8. NewestOf(found[q].file)' = NewestOf(e)'
    BY <2>1, <2>3 DEF NewestOf
  <2> QED BY <2>1, <2>3, <2>4, <2>7, <2>8
<1>7. ASSUME NEW e \in File, NewestOf(e)' # 0 PROVE flags'[e][NewestOf(e)'] # "no"
  <2>1. CASE e = f
    BY <1>3, <1>5, <1>7, <2>1
  <2>2. CASE e # f
    <3>1. flags'[e] = flags[e] /\ NewestOf(e)' = NewestOf(e)
      BY <1>5, <2>2
    <3> QED BY <1>7, <3>1 DEF Untouched
  <2> QED BY <2>1, <2>2
<1>8. ASSUME NEW e \in File, NEW v \in DOMAIN flags'[e], flags'[e][v] = "yes", v < NewestOf(e)'
      PROVE  \E q \in Process : demoting'[q].file = e /\ demoting'[q].version > v
  <2>1. v \in DOMAIN flags[e] /\ flags[e][v] = "yes" /\ v < NewestOf(e)
    BY <1>3, <1>4, <1>5, <1>8
  <2> QED BY <1>1, <2>1 DEF Untouched
<1> QED BY <1>6, <1>7, <1>8 DEF Untouched

\* A file changes while no process goes through them.
LEMMA ChangeUntouched ==
  ASSUME Untouched, ~Backfilling, pc' = pc, found' = found,
         NEW f \in File,
         \A e \in File \ {f} :
           /\ flags'[e] = flags[e] /\ NewestOf(e)' = NewestOf(e)
           /\ \A q \in Process : demoting[q].file = e /\ demoting[q].version # 0 =>
                                   demoting'[q] = demoting[q],
         \A e \in File : \A v \in DOMAIN flags[e] : v \in Nat \ {0},
         \A q \in Process : demoting[q].version \in Nat,
         NewestOf(f)' # 0 => flags'[f][NewestOf(f)'] # "no",
         \A v \in DOMAIN flags'[f] : flags'[f][v] = "yes" /\ v < NewestOf(f)' =>
           \E q \in Process : demoting'[q].file = f /\ demoting'[q].version > v
  PROVE  Untouched'
<1>1. \A q \in Process : pc'[q] \notin {"flag", "flag_rest"}
  BY DEF Backfilling
<1>2. ASSUME NEW e \in File, NewestOf(e)' # 0 PROVE flags'[e][NewestOf(e)'] # "no"
  <2>1. CASE e = f
    BY <1>2, <2>1
  <2>2. CASE e # f
    <3>1. flags'[e] = flags[e] /\ NewestOf(e)' = NewestOf(e)
      BY <2>2
    <3> QED BY <1>2, <3>1 DEF Untouched
  <2> QED BY <2>1, <2>2
<1>3. ASSUME NEW e \in File, NEW v \in DOMAIN flags'[e], flags'[e][v] = "yes", v < NewestOf(e)'
      PROVE  \E q \in Process : demoting'[q].file = e /\ demoting'[q].version > v
  <2>1. CASE e = f
    BY <1>3, <2>1
  <2>2. CASE e # f
    <3>1. v \in DOMAIN flags[e] /\ flags[e][v] = "yes" /\ v < NewestOf(e) /\ v \in Nat \ {0}
      BY <1>3, <2>2
    <3>2. PICK q \in Process : demoting[q].file = e /\ demoting[q].version > v
      BY <3>1 DEF Untouched
    <3>3. demoting[q].version # 0
      BY <3>1, <3>2
    <3> QED BY <2>2, <3>2, <3>3
  <2> QED BY <2>1, <2>2
<1> QED BY <1>1, <1>2, <1>3 DEF Untouched
LEMMA UntouchedStep ==
  ASSUME StartupInv, [StartupNext]_startupVars, ~overlapped'
  PROVE  Untouched'
<1> USE DEF local, Step
<1>1. StartupTyped /\ StartupTyped' /\ \A q \in Process : InTurn(q)
  BY StartupTypedStep DEF StartupInv
<1>2. Untouched
  <2>1. ASSUME overlapped PROVE overlapped'
    <3>1. ASSUME NEW p \in Process, Starting(p) PROVE overlapped' = overlapped
      BY <3>1 DEF Starting, Connect, NextMigration, DropSuperseded, ReadBatch, ReadVersions, FlagNewest,
                  FlagRest, RecordMigration, EnsureIndex, DropConflicting, CreateAgain
    <3>2. ASSUME NEW p \in Process, Demote(p) \/ Crash(p) \/ \E f \in File : Upload(p, f) \/ Erase(p, f)
          PROVE  overlapped'
      BY <2>1, <3>2 DEF Demote, Crash, Upload, Erase
    <3> QED BY <2>1, <3>1, <3>2 DEF StartupNext, startupVars
  <2> QED BY <2>1 DEF StartupInv
<1>3. /\ \A e \in File : \A v \in DOMAIN flags[e] : v \in Nat \ {0}
      /\ \A q \in Process : demoting[q].version \in Nat
  BY <1>1, SomeNewest, StartupAssumption DEF StartupTyped, Nothing
<1>4. ASSUME NEW p \in Process, Leave(p), demoting[p] = Nothing, flags' = flags PROVE Untouched'
  <2>1. demoting' = demoting
    BY <1>1, <1>4 DEF Leave, StartupTyped
  <2>2. ASSUME NEW q \in Process, pc'[q] \in {"flag", "flag_rest"}
        PROVE  pc'[q] = pc[q] /\ found'[q] = found[q]
    BY <1>1, <1>4, <2>2 DEF Leave, StartupTyped
  <2> QED BY <1>2, <1>4, <2>1, <2>2, QuietUntouched
<1>5. CASE UNCHANGED <<flags, pc, found, demoting>>
  BY <1>2, <1>5, QuietUntouched
<1>6. ASSUME NEW p \in Process,
             \/ Connect(p) \/ NextMigration(p) \/ DropSuperseded(p) \/ ReadBatch(p)
             \/ RecordMigration(p) \/ EnsureIndex(p) \/ CreateAgain(p)
             \/ DropConflicting(p) /\ ~Leave(p)
      PROVE  Untouched'
  <2>1. UNCHANGED <<flags, found, demoting>>
    BY <1>6 DEF Connect, NextMigration, DropSuperseded, ReadBatch, RecordMigration, EnsureIndex,
                CreateAgain, DropConflicting
  <2>2. ASSUME NEW q \in Process, pc'[q] \in {"flag", "flag_rest"} PROVE pc'[q] = pc[q]
    BY <1>1, <1>6, <2>2
       DEF Connect, NextMigration, DropSuperseded, ReadBatch, RecordMigration, EnsureIndex,
           CreateAgain, DropConflicting, StartupTyped
  <2> QED BY <1>2, <2>1, <2>2, QuietUntouched
<1>7. ASSUME NEW p \in Process, ReadVersions(p) PROVE Untouched'
  <2>1. demoting[p] = Nothing
    BY <1>1, <1>7 DEF ReadVersions, InTurn
  <2>2. CASE Leave(p)
    BY <1>4, <1>7, <2>1, <2>2 DEF ReadVersions
  <2>3. CASE ~Leave(p)
    <3>1. PICK f \in todo[p] :
            /\ pc' = [pc EXCEPT ![p] = "flag"]
            /\ found' = [found EXCEPT ![p] = [file |-> f, version |-> NewestOf(f)]]
            /\ demoting' = demoting /\ flags' = flags
      BY <1>7, <2>3 DEF ReadVersions
    <3>2. \A q \in Process \ {p} : pc'[q] = pc[q] /\ found'[q] = found[q]
      BY <3>1
    <3>3. /\ pc'[p] = "flag"
          /\ found'[p] = [file |-> f, version |-> NewestOf(f)]
      BY <1>1, <3>1 DEF StartupTyped
    <3>4. found'[p].version = NewestOf(found'[p].file)
      BY <3>3
    <3> QED BY <1>2, <3>1, <3>2, <3>3, <3>4, QuietUntouched
  <2> QED BY <2>2, <2>3
<1>8. ASSUME NEW p \in Process, FlagNewest(p) \/ FlagRest(p) PROVE Untouched'
  BY <1>2, <1>8, FlaggingUntouched
<1>9. ASSUME NEW p \in Process, Crash(p) \/ (DropConflicting(p) /\ Leave(p)) PROVE Untouched'
  <2>1. demoting[p] = Nothing /\ flags' = flags /\ Leave(p)
    BY <1>1, <1>9 DEF Crash, DropConflicting, InTurn
  <2> QED BY <1>4, <2>1
<1>10. ASSUME NEW p \in Process, NEW f \in File, Upload(p, f) PROVE Untouched'
  <2>1. /\ ~Backfilling /\ pc' = pc /\ found' = found /\ demoting[p] = Nothing
    BY <1>10 DEF Upload
  <2>2. PICK n \in 1 .. MaxVersions : \E g \in [1 .. n -> Flags] :
           /\ n = NewestOf(f) + 1 /\ flags' = [flags EXCEPT ![f] = g]
           /\ demoting' = [demoting EXCEPT ![p] = [file |-> f, version |-> n]]
           /\ \A v \in 1 .. n : g[v] = IF v = n THEN "yes" ELSE flags[f][v]
    BY <1>1, <1>10, UploadDoes
  <2>3. PICK g \in [1 .. n -> Flags] :
          /\ flags' = [flags EXCEPT ![f] = g]
          /\ \A v \in 1 .. n : g[v] = IF v = n THEN "yes" ELSE flags[f][v]
    BY <2>2
  <2>4. n \in 0 .. MaxVersions /\ n \in Nat /\ n # 0
    BY StartupAssumption
  <2>5. /\ flags'[f] = g /\ NewestOf(f)' = n /\ DOMAIN flags'[f] = 1 .. n
        /\ \A e \in File \ {f} : flags'[e] = flags[e] /\ NewestOf(e)' = NewestOf(e)
    BY <1>1, <2>3, <2>4, FlagsTyped
  <2>6. flags'[f][NewestOf(f)'] # "no"
    BY <2>3, <2>4, <2>5
  <2>7. demoting'[p].file = f /\ demoting'[p].version = n
    BY <1>1, <2>2 DEF StartupTyped
  <2>8. \A v \in DOMAIN flags'[f] : flags'[f][v] = "yes" /\ v < NewestOf(f)' =>
          \E q \in Process : demoting'[q].file = f /\ demoting'[q].version > v
    BY <2>4, <2>5, <2>7
  <2>9. \A q \in Process : demoting[q].version # 0 => demoting'[q] = demoting[q]
    BY <1>1, <2>1, <2>2 DEF StartupTyped, Nothing
  <2> QED BY <1>2, <1>3, <2>1, <2>5, <2>6, <2>8, <2>9, ChangeUntouched
<1>11. ASSUME NEW p \in Process, Demote(p) PROVE Untouched'
  <2>1. /\ ~Backfilling /\ pc' = pc /\ found' = found /\ demoting[p] # Nothing
        /\ demoting' = [demoting EXCEPT ![p] = Nothing]
    BY <1>11 DEF Demote
  <2>2. PICK f \in File : \E g \in [1 .. NewestOf(f) -> Flags] :
          /\ f = demoting[p].file /\ flags' = [flags EXCEPT ![f] = g]
          /\ \A v \in 1 .. NewestOf(f) :
               g[v] = IF v < demoting[p].version /\ flags[f][v] = "yes" THEN "no" ELSE flags[f][v]
    BY <1>1, <1>11, DemoteDoes
  <2>3. PICK g \in [1 .. NewestOf(f) -> Flags] :
          /\ flags' = [flags EXCEPT ![f] = g]
          /\ \A v \in 1 .. NewestOf(f) :
               g[v] = IF v < demoting[p].version /\ flags[f][v] = "yes" THEN "no" ELSE flags[f][v]
    BY <2>2
  <2>4. NewestOf(f) \in 0 .. MaxVersions /\ NewestOf(f) \in Nat /\ DOMAIN flags[f] = 1 .. NewestOf(f)
    BY <1>1, SomeNewest
  <2>5. /\ flags'[f] = g /\ NewestOf(f)' = NewestOf(f) /\ DOMAIN flags'[f] = 1 .. NewestOf(f)
        /\ \A e \in File \ {f} : flags'[e] = flags[e] /\ NewestOf(e)' = NewestOf(e)
    BY <1>1, <2>3, <2>4, FlagsTyped
  <2>6. demoting[p].version <= NewestOf(f) /\ demoting[p].version \in Nat
    BY <1>1, <1>3, <2>1, <2>2 DEF InTurn
  <2>7. NewestOf(f)' # 0 => flags'[f][NewestOf(f)'] # "no"
    <3>1. NewestOf(f) # 0 => NewestOf(f) \in 1 .. NewestOf(f) /\ ~(NewestOf(f) < demoting[p].version)
      BY <2>4, <2>6
    <3>2. NewestOf(f) # 0 => flags[f][NewestOf(f)] # "no"
      BY <1>2 DEF Untouched
    <3> QED BY <2>3, <2>5, <3>1, <3>2
  <2>8. ASSUME NEW v \in DOMAIN flags'[f], flags'[f][v] = "yes", v < NewestOf(f)'
        PROVE  \E q \in Process : demoting'[q].file = f /\ demoting'[q].version > v
    <3>1. v \in 1 .. NewestOf(f) /\ flags[f][v] = "yes" /\ v < NewestOf(f) /\ ~(v < demoting[p].version)
      BY <2>3, <2>5, <2>8
    <3>2. PICK q \in Process : demoting[q].file = f /\ demoting[q].version > v
      BY <1>2, <2>4, <3>1 DEF Untouched
    <3>3. q # p
      BY <2>6, <3>1, <3>2
    <3>4. demoting'[q] = demoting[q]
      BY <1>1, <2>1, <3>3 DEF StartupTyped
    <3> QED BY <3>2, <3>4
  <2>9. \A q \in Process : q # p => demoting'[q] = demoting[q]
    BY <1>1, <2>1 DEF StartupTyped
  <2>10. \A e \in File \ {f} :
           /\ flags'[e] = flags[e] /\ NewestOf(e)' = NewestOf(e)
           /\ \A q \in Process : demoting[q].file = e /\ demoting[q].version # 0 =>
                                   demoting'[q] = demoting[q]
    BY <2>2, <2>5, <2>9
  <2> QED BY <1>2, <1>3, <2>1, <2>7, <2>8, <2>10, ChangeUntouched
<1>12. ASSUME NEW p \in Process, NEW f \in File, Erase(p, f) PROVE Untouched'
  <2>1. ~Backfilling /\ pc' = pc /\ found' = found /\ demoting' = demoting
    BY <1>12 DEF Erase
  <2>2. [v \in {} |-> "no"] \in [1 .. 0 -> Flags] /\ 0 \in 0 .. MaxVersions
    BY StartupAssumption
  <2>3. /\ NewestOf(f)' = 0 /\ DOMAIN flags'[f] = 1 .. 0
        /\ \A e \in File \ {f} : flags'[e] = flags[e] /\ NewestOf(e)' = NewestOf(e)
    BY <1>1, <1>12, <2>2, FlagsTyped DEF Erase
  <2> QED BY <1>2, <1>3, <2>1, <2>3, ChangeUntouched
<1> QED
  BY <1>5, <1>6, <1>7, <1>8, <1>9, <1>10, <1>11, <1>12 DEF StartupNext, Starting, startupVars

-----------------------------------------------------------------------------
LEMMA StartupStarts == StartupInit => StartupInv
<1> SUFFICES ASSUME StartupInit PROVE StartupInv
  OBVIOUS
<1>1. ASSUME NEW f \in File
      PROVE  /\ flags[f] \in Lists
             /\ \A v \in DOMAIN flags[f] : flags[f][v] = "missing"
  <2>1. PICK n \in Stored : flags[f] = [v \in 1 .. n |-> "missing"]
    BY DEF StartupInit
  <2>2. n \in 0 .. MaxVersions /\ flags[f] \in [1 .. n -> Flags]
    BY <2>1, StartupAssumption DEF Flags
  <2> QED BY <2>1, <2>2 DEF Lists
<1>2. StartupTyped
  BY <1>1 DEF StartupInit, StartupTyped, Places, Migrations
<1>3. \A q \in Process : InTurn(q)
  BY DEF StartupInit, InTurn, Backfills, Indexing
<1>4. RecordedIsDone
  BY DEF StartupInit, RecordedIsDone
<1>5. Untouched
  <2>1. \A f \in File : NewestOf(f) # 0 => NewestOf(f) \in DOMAIN flags[f]
    BY <1>2, SomeNewest
  <2> QED BY <1>1, <2>1 DEF StartupInit, Untouched
<1> QED BY <1>2, <1>3, <1>4, <1>5 DEF StartupInv

LEMMA FlagsComeRight == StartupInv => FlagsAreRight
<1> SUFFICES ASSUME StartupInv, NEW p \in Process, pc[p] = "serving", ~overlapped,
                    \A q \in Process : demoting[q] = Nothing,
                    NEW f \in File, DOMAIN flags[f] # {}
             PROVE  Current(f) = {Max(DOMAIN flags[f])}
  BY DEF FlagsAreRight, Serving
<1>1. StartupTyped /\ InTurn(p) /\ RecordedIsDone /\ Untouched
  BY DEF StartupInv
<1>2. /\ NewestOf(f) \in Nat /\ DOMAIN flags[f] = 1 .. NewestOf(f)
      /\ flags[f] \in [1 .. NewestOf(f) -> Flags] /\ NewestOf(f) <= MaxVersions
      /\ NewestOf(f) # 0 => Max(DOMAIN flags[f]) = NewestOf(f)
  BY <1>1, SomeNewest, StartupAssumption
<1>3. NewestOf(f) # 0 /\ NewestOf(f) \in DOMAIN flags[f]
  BY <1>2
<1>4. Unflagged = {}
  BY <1>1 DEF InTurn, RecordedIsDone, Migrations
<1>5. \A v \in DOMAIN flags[f] : flags[f][v] # "missing"
  <2>1. ASSUME NEW v \in DOMAIN flags[f], flags[f][v] = "missing" PROVE <<f, v>> \in Unflagged
    <3>1. v \in 1 .. MaxVersions
      BY <1>2, StartupAssumption
    <3>2. <<f, v>> \in File \X (1 .. MaxVersions) /\ <<f, v>>[1] = f /\ <<f, v>>[2] = v
      BY <3>1
    <3> QED BY <2>1, <3>2 DEF Unflagged
  <2> QED BY <1>4, <2>1
<1>6. flags[f][NewestOf(f)] = "yes"
  <2>1. flags[f][NewestOf(f)] \in Flags /\ flags[f][NewestOf(f)] # "missing"
    BY <1>2, <1>3, <1>5
  <2>2. flags[f][NewestOf(f)] # "no"
    BY <1>1, <1>3 DEF Untouched
  <2> QED BY <2>1, <2>2 DEF Flags
<1>7. \A v \in DOMAIN flags[f] : flags[f][v] = "yes" => v = NewestOf(f)
  <2> SUFFICES ASSUME NEW v \in DOMAIN flags[f], flags[f][v] = "yes", v # NewestOf(f) PROVE FALSE
    OBVIOUS
  <2>1. v < NewestOf(f) /\ v \in Nat
    BY <1>2
  <2>2. PICK q \in Process : demoting[q].version > v
    BY <1>1, <2>1 DEF Untouched
  <2> QED BY <2>1, <2>2 DEF Nothing
<1> QED BY <1>2, <1>3, <1>6, <1>7 DEF Current

\* Whatever number of processes starts, and wherever they are killed: a migration that is recorded
\* need never run again, and once a process serves exactly the newest version of each file is
\* current, unless a file changed while a process went through the files (migrations.py:
\* run_migrations, _backfill_file_latest_flags).
THEOREM MigrationsStay == StartupSpec => []MigrationsHold
<1>1. StartupInit => StartupInv
  BY StartupStarts
<1>2. StartupInv /\ [StartupNext]_startupVars => StartupInv'
  <2> SUFFICES ASSUME StartupInv, [StartupNext]_startupVars PROVE StartupInv'
    OBVIOUS
  <2> QED BY StartupTypedStep, InTurnStep, RecordedStep, UntouchedStep DEF StartupInv
<1>3. StartupInv => MigrationsHold
  BY FlagsComeRight DEF StartupInv, MigrationsHold
<1> QED BY <1>1, <1>2, <1>3, PTL DEF StartupSpec

-----------------------------------------------------------------------------
(* Records.                                                                *)

\* A record with all its fields, which is whole if `whole` says so.
Entry(whole) ==
  [key : Key, owner : Request \cup {"missing"}, count : Nat, until : Nat, whole : whole]

\* Until a set has made a record, each of them is whole.
Sort == IF halves THEN BOOLEAN ELSE {TRUE}

Moments == {"idle", "find", "change", "insert", "drop", "look", "read", "fill"}

\* Places are taken in order.
StoreTyped ==
  /\ store \in [Place -> Entry(Sort) \cup {Absent}]
  /\ now \in Nat /\ made \in Nat /\ halves \in BOOLEAN
  /\ \A x \in Records : x \in 1 .. made

\* A call is about a key of the collection, and what it has read to fill the cache with is a
\* record as it was in the store.
Called(r) ==
  /\ at[r] # "idle" => key[r] \in Key
  /\ at[r] = "fill" => picked[r] # {} /\ picked[r] \subseteq Entry(Sort)

CallsTyped ==
  /\ at \in [Request -> Moments]
  /\ op \in [Request -> Ops \cup {"none"}]
  /\ key = [r \in Request |-> key[r]]
  /\ picked = [r \in Request |-> picked[r]]
  /\ \A r \in Request : Called(r)

CopiesTyped == cache \in [Key -> Entry(Sort) \cup {NoCopy}]

RecordsInv == StoreTyped /\ CallsTyped /\ CopiesTyped

LEMMA EntryIsNoMark ==
  ASSUME NEW B, NEW u \in Entry(B)
  PROVE  u # Absent /\ u # NoCopy
<1>1. "count" \in DOMAIN u
  BY DEF Entry
<1>2. "count" \notin DOMAIN Absent /\ "count" \notin DOMAIN NoCopy
  BY DEF Absent, NoCopy
<1> QED BY <1>1, <1>2

LEMMA WiderEntries ==
  ASSUME NEW B, NEW C, B \subseteq C
  PROVE  Entry(B) \subseteq Entry(C)
BY DEF Entry

LEMMA EntryChanges ==
  ASSUME NEW B, NEW u \in Entry(B), now \in Nat, NEW r \in Request
  PROVE  /\ Patched(u) \in Entry(B) /\ Claimed(u, r) \in Entry(B) /\ Counted(u) \in Entry(B)
         /\ Counted(u).count = u.count + 1 /\ u.count \in Nat
         /\ Counted(u) = [u EXCEPT !.count = u.count + 1]
<1>1. Patched(u) \in Entry(B)
  BY DEF Patched, Entry
<1>2. Claimed(u, r) \in Entry(B)
  BY DEF Claimed, Entry
<1>3. Counted(u) \in Entry(B) /\ Counted(u).count = u.count + 1 /\ u.count \in Nat
  BY DEF Counted, Entry
<1>4. Counted(u) = [u EXCEPT !.count = u.count + 1]
  BY DEF Counted
<1> QED BY <1>1, <1>2, <1>3, <1>4

LEMMA NewEntries ==
  ASSUME now \in Nat, NEW k \in Key
  PROVE  NewRecord(k) \in Entry({TRUE}) /\ FromPatch(k) \in Entry({FALSE})
<1>1. NewRecord(k) \in Entry({TRUE})
  BY DEF NewRecord, Entry
<1>2. FromPatch(k) \in Entry({FALSE})
  BY DEF FromPatch, Entry
<1> QED BY <1>1, <1>2

LEMMA SortGrows ==
  ASSUME halves \in BOOLEAN, halves' \in {halves, TRUE}
  PROVE  /\ halves' \in BOOLEAN /\ {TRUE} \subseteq Sort /\ {TRUE} \subseteq Sort'
         /\ Entry(Sort) \subseteq Entry(Sort')
         /\ halves' = TRUE => Sort' = BOOLEAN
<1>1. /\ halves' \in BOOLEAN /\ {TRUE} \subseteq Sort /\ {TRUE} \subseteq Sort'
      /\ halves' = TRUE => Sort' = BOOLEAN
  BY DEF Sort
<1>2. Sort \subseteq Sort'
  BY DEF Sort
<1> QED BY <1>1, <1>2, WiderEntries

LEMMA RecordsAreEntries ==
  ASSUME StoreTyped, NEW x \in Records
  PROVE  x \in Place /\ store[x] \in Entry(Sort)
BY DEF StoreTyped, Records

-----------------------------------------------------------------------------
(* The first of some numbers is one of them.                               *)

Less == {p \in Nat \X Nat : p[1] < p[2]}

LEMMA LessIsWellFounded == IsWellFoundedOn(Less, Nat)
<1>1. Less = OpToRel(<, Nat)
  BY DEF Less, OpToRel
<1> QED BY <1>1, NatLessThanWellFounded

LEMMA FirstIsThere ==
  ASSUME NEW S \in SUBSET Nat, S # {}
  PROVE  Min(S) \in S
<1>1. PICK x \in S : \A y \in S : <<y, x>> \notin Less
  BY LessIsWellFounded, WFMin
<1>2. ASSUME NEW y \in S PROVE x <= y
  <2>1. x \in Nat /\ y \in Nat /\ ~ (<<y, x>> \in Less)
    BY <1>1
  <2>2. y < x => <<y, x>> \in Less
    BY <2>1 DEF Less
  <2> QED BY <2>1, <2>2
<1> QED BY <1>2 DEF Min

LEMMA FoundIsThere ==
  ASSUME StoreTyped, NEW r \in Request, Found(r) # {}
  PROVE  Min(Found(r)) \in Records /\ Matches(r, Min(Found(r)))
<1>1. Found(r) \subseteq Records
  BY DEF Found
<1>2. Found(r) \in SUBSET Nat
  BY <1>1 DEF StoreTyped
<1>3. Min(Found(r)) \in Found(r)
  BY <1>2, FirstIsThere
<1> QED BY <1>3 DEF Found

-----------------------------------------------------------------------------
(* What steps do to the store, to the calls and to the cache.              *)

LEMMA SameStore ==
  ASSUME StoreTyped, UNCHANGED <<store, made>>, now' \in Nat, halves' \in {halves, TRUE}
  PROVE  StoreTyped'
<1>1. halves' \in BOOLEAN /\ Entry(Sort) \subseteq Entry(Sort')
  BY SortGrows DEF StoreTyped
<1>2. store' \in [Place -> Entry(Sort') \cup {Absent}]
  BY <1>1 DEF StoreTyped
<1> QED BY <1>1, <1>2 DEF StoreTyped, Records

LEMMA StoreStep ==
  ASSUME StoreTyped, NEW x \in Records, NEW u \in Entry(Sort) \cup {Absent},
         store' = [store EXCEPT ![x] = u], UNCHANGED <<now, made, halves>>
  PROVE  StoreTyped'
<1>1. Sort' = Sort
  BY DEF Sort
<1>2. x \in Place /\ x \in 1 .. made
  BY DEF Records, StoreTyped
<1>3. store' \in [Place -> Entry(Sort) \cup {Absent}]
  BY <1>2 DEF StoreTyped
<1>4. \A y \in Records' : y \in 1 .. made'
  BY <1>2 DEF StoreTyped, Records
<1> QED BY <1>1, <1>3, <1>4 DEF StoreTyped

\* A record is made where none has been.
LEMMA MakeStep ==
  ASSUME StoreTyped, NEW r \in Request, NEW u \in Entry(Sort'), Make(r, u),
         UNCHANGED now, halves' \in {halves, TRUE}
  PROVE  StoreTyped'
<1>1. CASE Free(key[r])
  <2>1. made + 1 \in Place /\ made' = made + 1 /\ store' = [store EXCEPT ![made + 1] = u]
    BY <1>1 DEF Make
  <2>2. halves' \in BOOLEAN /\ Entry(Sort) \subseteq Entry(Sort')
    BY SortGrows DEF StoreTyped
  <2>3. store' \in [Place -> Entry(Sort') \cup {Absent}]
    BY <2>1, <2>2 DEF StoreTyped
  <2>4. \A y \in Records' : y \in 1 .. made'
    BY <2>1 DEF StoreTyped, Records
  <2> QED BY <2>1, <2>2, <2>3, <2>4 DEF StoreTyped
<1>2. CASE ~Free(key[r])
  <2>1. UNCHANGED <<store, made>>
    BY <1>2 DEF Make
  <2> QED BY <2>1, SameStore DEF StoreTyped
<1> QED BY <1>1, <1>2

LEMMA CalledStill ==
  ASSUME halves \in BOOLEAN, halves' \in {halves, TRUE}, NEW q \in Request, Called(q),
         at'[q] = at[q] /\ key'[q] = key[q] /\ picked'[q] = picked[q]
  PROVE  Called(q)'
<1>1. Entry(Sort) \subseteq Entry(Sort')
  BY SortGrows
<1> QED BY <1>1 DEF Called

\* Nothing is asked of a call that goes on, but that it is as it was begun.
LEMMA CallStep ==
  ASSUME CallsTyped, halves \in BOOLEAN, halves' \in {halves, TRUE},
         NEW r \in Request, NEW label \in Moments \ {"fill"}, NEW p, NEW about,
         NEW what \in Ops \cup {"none"},
         at' = [at EXCEPT ![r] = label], picked' = [picked EXCEPT ![r] = p],
         op' = [op EXCEPT ![r] = what], key' = [key EXCEPT ![r] = about],
         label # "idle" => about \in Key
  PROVE  CallsTyped'
<1>1. /\ at' \in [Request -> Moments] /\ op' \in [Request -> Ops \cup {"none"}]
      /\ key' = [q \in Request |-> key'[q]] /\ picked' = [q \in Request |-> picked'[q]]
      /\ at'[r] = label /\ key'[r] = about
      /\ \A q \in Request \ {r} : at'[q] = at[q] /\ key'[q] = key[q] /\ picked'[q] = picked[q]
  BY DEF CallsTyped
<1>2. ASSUME NEW q \in Request PROVE Called(q)'
  <2>1. CASE q = r
    BY <1>1, <2>1 DEF Called
  <2>2. CASE q # r
    <3>1. Called(q)
      BY DEF CallsTyped
    <3> QED BY <1>1, <2>2, <3>1, CalledStill
  <2> QED BY <2>1, <2>2
<1> QED BY <1>1, <1>2 DEF CallsTyped

LEMMA SameCalls ==
  ASSUME CallsTyped, halves \in BOOLEAN, halves' \in {halves, TRUE}, UNCHANGED call
  PROVE  CallsTyped'
<1>1. \A q \in Request : Called(q)'
  BY CalledStill DEF CallsTyped, call
<1> QED BY <1>1 DEF CallsTyped, call

LEMMA CallGoesOn ==
  ASSUME CallsTyped, halves \in BOOLEAN, halves' \in {halves, TRUE}, NEW r \in Request,
         at[r] # "idle",
         \/ Over(r)
         \/ Then(r, "drop")
         \/ Then(r, "read")
  PROVE  CallsTyped'
<1>1. key[r] \in Key /\ op[r] \in Ops \cup {"none"}
      /\ op = [op EXCEPT ![r] = op[r]] /\ key = [key EXCEPT ![r] = key[r]]
  BY DEF CallsTyped, Called
<1>2. CASE Over(r)
  BY <1>2, CallStep DEF Over, Moments
<1>3. CASE Then(r, "drop")
  <2>1. /\ at' = [at EXCEPT ![r] = "drop"] /\ picked' = [picked EXCEPT ![r] = {}]
        /\ op' = [op EXCEPT ![r] = op[r]] /\ key' = [key EXCEPT ![r] = key[r]]
    BY <1>1, <1>3 DEF Then
  <2> QED BY <1>1, <2>1, CallStep DEF Moments
<1>4. CASE Then(r, "read")
  <2>1. /\ at' = [at EXCEPT ![r] = "read"] /\ picked' = [picked EXCEPT ![r] = {}]
        /\ op' = [op EXCEPT ![r] = op[r]] /\ key' = [key EXCEPT ![r] = key[r]]
    BY <1>1, <1>4 DEF Then
  <2> QED BY <1>1, <2>1, CallStep DEF Moments
<1> QED BY <1>2, <1>3, <1>4

LEMMA SameCopies ==
  ASSUME CopiesTyped, halves \in BOOLEAN, halves' \in {halves, TRUE}, UNCHANGED cache
  PROVE  CopiesTyped'
<1>1. Entry(Sort) \subseteq Entry(Sort')
  BY SortGrows
<1> QED BY <1>1 DEF CopiesTyped

LEMMA CopyStep ==
  ASSUME CopiesTyped, UNCHANGED halves, NEW k, NEW u \in Entry(Sort) \cup {NoCopy},
         cache' = [cache EXCEPT ![k] = u]
  PROVE  CopiesTyped'
<1>1. Sort' = Sort
  BY DEF Sort
<1> QED BY <1>1 DEF CopiesTyped

-----------------------------------------------------------------------------
(* Each step keeps the invariant.                                          *)

LEMMA BeginKeeps ==
  ASSUME RecordsInv, NEW r \in Request, NEW what \in Ops, NEW k \in Key, Begin(r, what, k)
  PROVE  RecordsInv'
<1>1. /\ halves \in BOOLEAN /\ halves' \in {halves, TRUE}
      /\ UNCHANGED <<store, now, made, halves, cache>>
  BY DEF RecordsInv, StoreTyped, Begin, Call, caching
<1>2. StoreTyped'
  BY <1>1, SameStore DEF RecordsInv, StoreTyped
<1>3. CallsTyped'
  <2>1. PICK label \in {"look", "find"} : at' = [at EXCEPT ![r] = label]
    BY DEF Begin
  <2>2. /\ picked' = [picked EXCEPT ![r] = picked[r]]
        /\ op' = [op EXCEPT ![r] = what] /\ key' = [key EXCEPT ![r] = k]
    BY DEF Begin, RecordsInv, CallsTyped
  <2> QED BY <1>1, <2>1, <2>2, CallStep DEF RecordsInv, Moments
<1>4. CopiesTyped'
  BY <1>1, SameCopies DEF RecordsInv
<1> QED BY <1>2, <1>3, <1>4 DEF RecordsInv

LEMMA FindKeeps ==
  ASSUME RecordsInv, NEW r \in Request, Find(r)
  PROVE  RecordsInv'
<1>1. /\ halves \in BOOLEAN /\ halves' \in {halves, TRUE}
      /\ UNCHANGED <<store, now, made, halves, cache>>
  BY DEF RecordsInv, StoreTyped, Find, contents, caching
<1>2. StoreTyped'
  BY <1>1, SameStore DEF RecordsInv, StoreTyped
<1>3. CallsTyped'
  <2>1. PICK p : picked' = [picked EXCEPT ![r] = p]
    BY DEF Find
  <2>2. /\ at' = [at EXCEPT ![r] = "change"] /\ key[r] \in Key /\ op[r] \in Ops \cup {"none"}
        /\ op' = [op EXCEPT ![r] = op[r]] /\ key' = [key EXCEPT ![r] = key[r]]
    BY DEF Find, RecordsInv, CallsTyped, Called
  <2> QED BY <1>1, <2>1, <2>2, CallStep DEF RecordsInv, Moments
<1>4. CopiesTyped'
  BY <1>1, SameCopies DEF RecordsInv
<1> QED BY <1>2, <1>3, <1>4 DEF RecordsInv

LEMMA ChangeOneKeeps ==
  ASSUME RecordsInv, NEW r \in Request, ChangeOne(r)
  PROVE  RecordsInv'
<1> DEFINE x == Min(Found(r))
<1>1. /\ halves \in BOOLEAN /\ halves' \in {halves, TRUE} /\ now \in Nat
      /\ UNCHANGED <<now, made, halves, cache>> /\ at[r] = "change"
  BY DEF RecordsInv, StoreTyped, ChangeOne, caching
<1>2. x \in Records
  BY FoundIsThere DEF RecordsInv, ChangeOne
<1>3. store[x] \in Entry(Sort)
  BY <1>2, RecordsAreEntries DEF RecordsInv
<1>4. PICK u \in {Claimed(store[x], r), Absent, Patched(store[x])} : store' = [store EXCEPT ![x] = u]
  <2>1. \/ store' = [store EXCEPT ![x] = Claimed(store[x], r)]
        \/ store' = [store EXCEPT ![x] = Absent]
        \/ store' = [store EXCEPT ![x] = Patched(store[x])]
    BY DEF ChangeOne, Change
  <2> HIDE DEF x
  <2> QED BY <2>1
<1>5. u \in Entry(Sort) \cup {Absent}
  BY <1>1, <1>3, <1>4, EntryChanges
<1>6. StoreTyped'
  BY <1>1, <1>2, <1>4, <1>5, StoreStep DEF RecordsInv
<1>7. CallsTyped'
  <2>1. \/ Over(r)
        \/ Then(r, "drop")
    BY DEF ChangeOne, Settle
  <2> QED BY <1>1, <2>1, CallGoesOn DEF RecordsInv
<1>8. CopiesTyped'
  BY <1>1, SameCopies DEF RecordsInv
<1> QED BY <1>6, <1>7, <1>8 DEF RecordsInv

\* What an increment does to the record it has found.
LEMMA AddIs ==
  ASSUME RecordsInv, NEW r \in Request, Add(r)
  PROVE  LET x == Min(Found(r)) IN
         /\ x \in Records /\ Matches(r, x) /\ store[x] \in Entry(Sort)
         /\ store' = [store EXCEPT ![x] = Counted(store[x])]
         /\ Added(r, x) = Counted(store[x]).count /\ store'[x].count = Added(r, x)
<1> DEFINE x == Min(Found(r))
<1>1. x \in Records /\ Matches(r, x)
  BY FoundIsThere DEF RecordsInv, Add
<1>2. store[x] \in Entry(Sort) /\ x \in Place
  BY <1>1, RecordsAreEntries DEF RecordsInv
<1>3. now \in Nat /\ store = [y \in Place |-> store[y]]
  BY DEF RecordsInv, StoreTyped
<1>4. /\ Counted(store[x]) = [store[x] EXCEPT !.count = store[x].count + 1]
      /\ Counted(store[x]).count = store[x].count + 1
  BY <1>2, <1>3, EntryChanges
<1>5. store' = [store EXCEPT ![x] = Counted(store[x])]
  BY <1>2, <1>3, <1>4 DEF Add, Added
<1>6. store'[x] = Counted(store[x])
  BY <1>2, <1>3, <1>5
<1> QED BY <1>1, <1>2, <1>4, <1>5, <1>6 DEF Added

LEMMA AddKeeps ==
  ASSUME RecordsInv, NEW r \in Request, Add(r)
  PROVE  RecordsInv'
<1> DEFINE x == Min(Found(r))
<1>1. /\ halves \in BOOLEAN /\ halves' \in {halves, TRUE} /\ now \in Nat
      /\ UNCHANGED <<now, made, halves, cache>> /\ at[r] = "change" /\ Then(r, "drop")
  BY DEF RecordsInv, StoreTyped, Add, caching
<1>2. x \in Records /\ store[x] \in Entry(Sort) /\ store' = [store EXCEPT ![x] = Counted(store[x])]
  BY AddIs
<1>3. Counted(store[x]) \in Entry(Sort) \cup {Absent}
  BY <1>1, <1>2, EntryChanges
<1>4. StoreTyped'
  BY <1>1, <1>2, <1>3, StoreStep DEF RecordsInv
<1>5. CallsTyped'
  BY <1>1, CallGoesOn DEF RecordsInv
<1>6. CopiesTyped'
  BY <1>1, SameCopies DEF RecordsInv
<1> QED BY <1>4, <1>5, <1>6 DEF RecordsInv

LEMMA ChangeNoneKeeps ==
  ASSUME RecordsInv, NEW r \in Request, ChangeNone(r)
  PROVE  RecordsInv'
<1>1. /\ halves \in BOOLEAN /\ halves' \in {halves, TRUE}
      /\ UNCHANGED <<store, now, made, halves, cache>> /\ at[r] = "change"
  BY DEF RecordsInv, StoreTyped, ChangeNone, caching
<1>2. StoreTyped'
  BY <1>1, SameStore DEF RecordsInv, StoreTyped
<1>3. CallsTyped'
  <2>1. \/ Over(r)
        \/ Then(r, "drop")
    BY DEF ChangeNone
  <2> QED BY <1>1, <2>1, CallGoesOn DEF RecordsInv
<1>4. CopiesTyped'
  BY <1>1, SameCopies DEF RecordsInv
<1> QED BY <1>2, <1>3, <1>4 DEF RecordsInv

\* A record is made, whole or of what an upsert was given.
LEMMA Making ==
  ASSUME RecordsInv, NEW r \in Request, at[r] # "idle",
         NEW u, Make(r, u),
         \/ u = NewRecord(key[r]) /\ UNCHANGED halves
         \/ u = FromPatch(key[r]) /\ halves' = TRUE,
         \/ Over(r)
         \/ Then(r, "drop"),
         UNCHANGED <<now, cache>>
  PROVE  RecordsInv'
<1>1. halves \in BOOLEAN /\ halves' \in {halves, TRUE} /\ key[r] \in Key /\ now \in Nat
  BY DEF RecordsInv, StoreTyped, CallsTyped, Called
<1>2. u \in Entry(Sort')
  <2>1. NewRecord(key[r]) \in Entry(Sort')
    BY <1>1, NewEntries, SortGrows, WiderEntries
  <2>2. ASSUME halves' = TRUE PROVE FromPatch(key[r]) \in Entry(Sort')
    <3>1. Sort' = BOOLEAN
      BY <1>1, <2>2, SortGrows
    <3>2. Entry({FALSE}) \subseteq Entry(Sort')
      BY <3>1, WiderEntries
    <3> QED BY <1>1, <3>2, NewEntries
  <2> QED BY <2>1, <2>2
<1>3. StoreTyped'
  BY <1>1, <1>2, MakeStep DEF RecordsInv
<1>4. CallsTyped'
  BY <1>1, CallGoesOn DEF RecordsInv
<1>5. CopiesTyped'
  BY <1>1, SameCopies DEF RecordsInv
<1> QED BY <1>3, <1>4, <1>5 DEF RecordsInv

LEMMA InsertKeeps ==
  ASSUME RecordsInv, NEW r \in Request, InsertRecord(r)
  PROVE  RecordsInv'
BY Making DEF InsertRecord, caching

LEMMA UpsertInsertKeeps ==
  ASSUME RecordsInv, NEW r \in Request, UpsertInsert(r)
  PROVE  RecordsInv'
<1>1. CASE backend = "postgres"
  <2>1. /\ halves \in BOOLEAN /\ halves' \in {halves, TRUE}
        /\ UNCHANGED <<store, now, made, halves, cache>> /\ at[r] = "change"
    BY <1>1 DEF RecordsInv, StoreTyped, UpsertInsert, contents, caching
  <2>2. StoreTyped'
    BY <2>1, SameStore DEF RecordsInv, StoreTyped
  <2>3. CallsTyped'
    <3>1. /\ at' = [at EXCEPT ![r] = "insert"] /\ key[r] \in Key /\ op[r] \in Ops \cup {"none"}
          /\ picked' = [picked EXCEPT ![r] = picked[r]]
          /\ op' = [op EXCEPT ![r] = op[r]] /\ key' = [key EXCEPT ![r] = key[r]]
      BY <1>1, <2>1 DEF UpsertInsert, RecordsInv, CallsTyped, Called
    <3> QED BY <2>1, <3>1, CallStep DEF RecordsInv, Moments
  <2>4. CopiesTyped'
    BY <2>1, SameCopies DEF RecordsInv
  <2> QED BY <2>2, <2>3, <2>4 DEF RecordsInv
<1>2. CASE backend # "postgres"
  BY <1>2, Making DEF UpsertInsert, caching
<1> QED BY <1>1, <1>2

LEMMA SecondStatementKeeps ==
  ASSUME RecordsInv, NEW r \in Request, SecondStatement(r)
  PROVE  RecordsInv'
BY Making DEF SecondStatement, caching

\* A change of many records leaves each a record, in its place.
LEMMA ManyStep ==
  ASSUME StoreTyped, NEW M \in SUBSET Records, UNCHANGED <<now, made, halves>>,
         \/ store' = [x \in Place |-> IF x \in M THEN Patched(store[x]) ELSE store[x]]
         \/ store' = [x \in Place |-> IF x \in M THEN Absent ELSE store[x]]
  PROVE  StoreTyped'
<1>1. Sort' = Sort
  BY DEF Sort
<1>2. \A x \in M : Patched(store[x]) \in Entry(Sort)
  <2> TAKE x \in M
  <2>1. store[x] \in Entry(Sort) /\ now \in Nat
    BY RecordsAreEntries DEF StoreTyped
  <2> QED BY <2>1 DEF Patched, Entry
<1>3. store' \in [Place -> Entry(Sort) \cup {Absent}]
  BY <1>2 DEF StoreTyped
<1>4. \A x \in Records' : x \in Records
  BY <1>3 DEF Records, StoreTyped
<1> QED BY <1>1, <1>3, <1>4 DEF StoreTyped

LEMMA ChangeManyKeeps ==
  ASSUME RecordsInv, NEW r \in Request, ChangeMany(r)
  PROVE  RecordsInv'
<1>1. /\ halves \in BOOLEAN /\ halves' \in {halves, TRUE}
      /\ UNCHANGED <<now, made, halves, cache>> /\ at[r] = "change" /\ Over(r)
  BY DEF RecordsInv, StoreTyped, ChangeMany, caching
<1>2. StoreTyped'
  <2>1. Found(r) \in SUBSET Records
    BY DEF Found
  <2> QED BY <1>1, <2>1, ManyStep DEF RecordsInv, ChangeMany
<1>3. CallsTyped'
  BY <1>1, CallGoesOn DEF RecordsInv
<1>4. CopiesTyped'
  BY <1>1, SameCopies DEF RecordsInv
<1> QED BY <1>2, <1>3, <1>4 DEF RecordsInv

LEMMA DropCopyKeeps ==
  ASSUME RecordsInv, NEW r \in Request, DropCopy(r)
  PROVE  RecordsInv'
<1>1. /\ halves \in BOOLEAN /\ halves' \in {halves, TRUE}
      /\ UNCHANGED <<store, now, made, halves>> /\ at[r] # "idle" /\ Over(r)
  BY DEF RecordsInv, StoreTyped, DropCopy, contents
<1>2. StoreTyped'
  BY <1>1, SameStore DEF RecordsInv, StoreTyped
<1>3. CallsTyped'
  BY <1>1, CallGoesOn DEF RecordsInv
<1>4. CopiesTyped'
  BY <1>1, SameCopies, CopyStep DEF RecordsInv, DropCopy, Dropped
<1> QED BY <1>2, <1>3, <1>4 DEF RecordsInv

LEMMA LookKeeps ==
  ASSUME RecordsInv, NEW r \in Request, Look(r)
  PROVE  RecordsInv'
<1>1. /\ halves \in BOOLEAN /\ halves' \in {halves, TRUE}
      /\ UNCHANGED <<store, now, made, halves, cache>> /\ at[r] # "idle"
  BY DEF RecordsInv, StoreTyped, Look, contents, caching
<1>2. StoreTyped'
  BY <1>1, SameStore DEF RecordsInv, StoreTyped
<1>3. CallsTyped'
  <2>1. \/ Over(r)
        \/ Then(r, "read")
    BY DEF Look
  <2> QED BY <1>1, <2>1, CallGoesOn DEF RecordsInv
<1>4. CopiesTyped'
  BY <1>1, SameCopies DEF RecordsInv
<1> QED BY <1>2, <1>3, <1>4 DEF RecordsInv

LEMMA ReadKeeps ==
  ASSUME RecordsInv, NEW r \in Request, ReadRecord(r)
  PROVE  RecordsInv'
<1>1. /\ halves \in BOOLEAN /\ halves' \in {halves, TRUE}
      /\ UNCHANGED <<store, now, made, halves, cache>> /\ at[r] # "idle"
  BY DEF RecordsInv, StoreTyped, ReadRecord, Read, caching
<1>2. StoreTyped'
  BY <1>1, SameStore DEF RecordsInv, StoreTyped
<1>3. CallsTyped'
  <2>1. CASE Free(key[r])
    BY <1>1, <2>1, CallGoesOn DEF RecordsInv, ReadRecord
  <2>2. CASE ~Free(key[r])
    <3> DEFINE read == {store[x] : x \in {y \in Records : Keyed(y, key[r])}}
    <3>1. /\ at' = [at EXCEPT ![r] = "fill"] /\ picked' = [picked EXCEPT ![r] = read]
          /\ UNCHANGED <<op, key>>
      BY <2>2 DEF ReadRecord
    <3>2. read # {}
      BY <2>2 DEF Free
    <3>3. read \subseteq Entry(Sort)
      BY RecordsAreEntries DEF RecordsInv
    <3>4. Sort' = Sort
      BY <1>1 DEF Sort
    <3> HIDE DEF read
    <3>5. /\ at' \in [Request -> Moments] /\ op' \in [Request -> Ops \cup {"none"}]
          /\ key' = [q \in Request |-> key'[q]] /\ picked' = [q \in Request |-> picked'[q]]
          /\ at'[r] = "fill" /\ picked'[r] = read
          /\ \A q \in Request \ {r} : at'[q] = at[q] /\ picked'[q] = picked[q]
      BY <3>1 DEF RecordsInv, CallsTyped, Moments
    <3>6. ASSUME NEW q \in Request PROVE Called(q)'
      <4>1. Called(q) /\ key'[q] = key[q]
        BY <3>1 DEF RecordsInv, CallsTyped
      <4>2. CASE q = r
        BY <1>1, <3>2, <3>3, <3>4, <3>5, <4>1, <4>2 DEF Called
      <4>3. CASE q # r
        BY <1>1, <3>5, <4>1, <4>3, CalledStill
      <4> QED BY <4>2, <4>3
    <3> QED BY <3>5, <3>6 DEF CallsTyped
  <2> QED BY <2>1, <2>2
<1>4. CopiesTyped'
  BY <1>1, SameCopies DEF RecordsInv
<1> QED BY <1>2, <1>3, <1>4 DEF RecordsInv

LEMMA FillCopyKeeps ==
  ASSUME RecordsInv, NEW r \in Request, FillCopy(r)
  PROVE  RecordsInv'
<1>1. /\ halves \in BOOLEAN /\ halves' \in {halves, TRUE}
      /\ UNCHANGED <<store, now, made, halves>> /\ at[r] = "fill" /\ Over(r)
  BY DEF RecordsInv, StoreTyped, FillCopy, contents
<1>2. StoreTyped'
  BY <1>1, SameStore DEF RecordsInv, StoreTyped
<1>3. CallsTyped'
  BY <1>1, CallGoesOn DEF RecordsInv
<1>4. CopiesTyped'
  <2>1. picked[r] # {} /\ picked[r] \subseteq Entry(Sort)
    BY <1>1 DEF RecordsInv, CallsTyped, Called
  <2>2. (CHOOSE u \in picked[r] : TRUE) \in Entry(Sort)
    BY <2>1
  <2>3. CASE UNCHANGED cache
    BY <1>1, <2>3, SameCopies DEF RecordsInv
  <2>4. CASE cache' = [cache EXCEPT ![key[r]] = CHOOSE u \in picked[r] : TRUE]
    BY <1>1, <2>2, <2>4, CopyStep DEF RecordsInv
  <2> QED BY <2>3, <2>4 DEF FillCopy
<1> QED BY <1>2, <1>3, <1>4 DEF RecordsInv

LEMMA OthersKeep ==
  ASSUME RecordsInv,
         \/ \E k \in Key : CopyExpires(k)
         \/ CooledDown
         \/ PurgeExpired
         \/ Later
  PROVE  RecordsInv'
<1>1. halves \in BOOLEAN /\ halves' \in {halves, TRUE} /\ UNCHANGED <<made, call, halves>>
  BY DEF RecordsInv, StoreTyped, CopyExpires, CooledDown, PurgeExpired, Later
<1>2. CallsTyped'
  BY <1>1, SameCalls DEF RecordsInv
<1>3. StoreTyped'
  <2>1. CASE PurgeExpired
    BY <1>1, <2>1, ManyStep DEF RecordsInv, PurgeExpired
  <2>2. CASE ~PurgeExpired
    <3>1. UNCHANGED store /\ now' \in Nat
      BY <2>2 DEF RecordsInv, StoreTyped, CopyExpires, CooledDown, Later, Tick, contents
    <3> QED BY <1>1, <3>1, SameStore DEF RecordsInv
  <2> QED BY <2>1, <2>2
<1>4. CopiesTyped'
  <2>1. CASE UNCHANGED cache
    BY <1>1, <2>1, SameCopies DEF RecordsInv
  <2>2. CASE \E k \in Key : CopyExpires(k)
    BY <1>1, <2>2, CopyStep DEF RecordsInv, CopyExpires
  <2> QED BY <2>1, <2>2 DEF CooledDown, PurgeExpired, Later, caching
<1> QED BY <1>2, <1>3, <1>4 DEF RecordsInv

LEMMA RecordsBegin ==
  ASSUME RecordsInit
  PROVE  RecordsInv
<1>1. StoreTyped
  BY DEF RecordsInit, CollectionInit, StoreTyped, Records
<1>2. CallsTyped
  BY DEF RecordsInit, CallsTyped, Called, Moments
<1>3. CopiesTyped
  BY DEF RecordsInit, CopiesTyped
<1> QED BY <1>1, <1>2, <1>3 DEF RecordsInv

LEMMA RecordsStep ==
  ASSUME RecordsInv, [RecordsNext]_recordVars
  PROVE  RecordsInv'
<1>1. CASE UNCHANGED recordVars
  <2>1. halves \in BOOLEAN /\ halves' \in {halves, TRUE} /\ UNCHANGED <<store, now, made, halves, cache, call>>
    BY <1>1 DEF recordVars, contents, caching, RecordsInv, StoreTyped
  <2>2. StoreTyped'
    BY <2>1, SameStore DEF RecordsInv, StoreTyped
  <2> QED BY <2>1, <2>2, SameCalls, SameCopies DEF RecordsInv
<1>2. ASSUME NEW r \in Request,
             \/ \E what \in Ops, k \in Key : Begin(r, what, k)
             \/ Find(r)
             \/ ChangeOne(r)
             \/ Add(r)
             \/ ChangeNone(r)
             \/ InsertRecord(r)
             \/ UpsertInsert(r)
             \/ SecondStatement(r)
             \/ ChangeMany(r)
             \/ DropCopy(r)
             \/ Look(r)
             \/ ReadRecord(r)
             \/ FillCopy(r)
      PROVE  RecordsInv'
  BY <1>2, BeginKeeps, FindKeeps, ChangeOneKeeps, AddKeeps, ChangeNoneKeeps, InsertKeeps,
     UpsertInsertKeeps, SecondStatementKeeps, ChangeManyKeeps, DropCopyKeeps, LookKeeps, ReadKeeps,
     FillCopyKeeps
<1> QED BY <1>1, <1>2, OthersKeep DEF RecordsNext

-----------------------------------------------------------------------------
(* Each step takes effect as the collection's interface has it.            *)

LEMMA RequestKey ==
  ASSUME RecordsInv, NEW r \in Request, at[r] # "idle"
  PROVE  key[r] \in Key
BY DEF RecordsInv, CallsTyped, Called

LEMMA ChangeOneIs ==
  ASSUME RecordsInv, NEW r \in Request, ChangeOne(r)
  PROVE  CollectionNext
<1> DEFINE x == Min(Found(r))
<1>1. x \in Records /\ Matches(r, x)
  BY FoundIsThere DEF RecordsInv, ChangeOne
<1>2. key[r] \in Key
  BY RequestKey DEF ChangeOne
<1>3. Answer(r, Yes) /\ UNCHANGED now /\ op[r] \in {"claim", "update", "set", "delete"}
  BY DEF ChangeOne
<1> HIDE DEF x
<1>4. CASE op[r] = "claim"
  <2>1. Unowned(x) /\ store' = [store EXCEPT ![x] = Claimed(store[x], r)]
    BY <1>1, <1>4 DEF ChangeOne, Change, Matches, x
  <2>2. store' = [store EXCEPT ![x] = Claimed(@, r)]
    BY <2>1
  <2>3. Claim(r)
    BY <1>1, <1>3, <2>1, <2>2 DEF Claim
  <2> QED BY <2>3 DEF CollectionNext
<1>5. CASE op[r] = "delete"
  <2>1. Keyed(x, key[r]) /\ store' = [store EXCEPT ![x] = Absent]
    BY <1>1, <1>5 DEF ChangeOne, Change, Matches, x
  <2>2. Delete(r, key[r])
    BY <1>1, <1>3, <2>1 DEF Delete
  <2> QED BY <1>2, <2>2 DEF CollectionNext
<1>6. CASE op[r] \in {"update", "set"}
  <2>1. Keyed(x, key[r]) /\ store' = [store EXCEPT ![x] = Patched(store[x])]
    BY <1>1, <1>6 DEF ChangeOne, Change, Matches, x
  <2>2. store' = [store EXCEPT ![x] = Patched(@)]
    BY <2>1
  <2>3. Update(r, key[r])
    BY <1>1, <1>3, <2>1, <2>2 DEF Update
  <2> QED BY <1>2, <2>3 DEF CollectionNext
<1> QED BY <1>3, <1>4, <1>5, <1>6

LEMMA AddIsIncrement ==
  ASSUME RecordsInv, NEW r \in Request, Add(r)
  PROVE  CollectionNext
<1> DEFINE x == Min(Found(r))
<1>1. /\ x \in Records /\ Matches(r, x)
      /\ store' = [store EXCEPT ![x] = Counted(store[x])]
      /\ Added(r, x) = Counted(store[x]).count /\ store'[x].count = Added(r, x)
  BY AddIs
<1>2. Answer(r, Value(Added(r, x))) /\ UNCHANGED now /\ op[r] = "increment" /\ key[r] \in Key
  BY RequestKey DEF Add
<1> HIDE DEF x
<1>3. Keyed(x, key[r])
  BY <1>1, <1>2 DEF Matches
<1>4. store' = [store EXCEPT ![x] = Counted(@)] /\ Answer(r, Value(store'[x].count))
  BY <1>1, <1>2
<1>5. Increment(r, key[r])
  BY <1>1, <1>2, <1>3, <1>4 DEF Increment
<1> QED BY <1>2, <1>5 DEF CollectionNext

LEMMA ChangeNoneIs ==
  ASSUME RecordsInv, NEW r \in Request, ChangeNone(r)
  PROVE  CollectionNext
<1>1. Answer(r, No) /\ UNCHANGED <<store, now>> /\ op[r] \in {"claim", "update", "increment", "delete"}
  BY DEF ChangeNone
<1>2. Claim(r)
  BY <1>1 DEF Claim
<1> QED BY <1>2 DEF CollectionNext

\* A record is made in a place that is free, or the key is taken.
LEMMA MakePuts ==
  ASSUME StoreTyped, NEW r \in Request, NEW u, Make(r, u)
  PROVE  \/ (\A x \in Records : ~Keyed(x, key[r])) /\ Put(u) /\ Answer(r, Yes)
         \/ (\E x \in Records : Keyed(x, key[r])) /\ Answer(r, Duplicate) /\ UNCHANGED store
<1>1. CASE Free(key[r])
  <2>1. made + 1 \in Place /\ store' = [store EXCEPT ![made + 1] = u] /\ Answer(r, Yes)
    BY <1>1 DEF Make
  <2>2. made + 1 \notin Records
    BY DEF StoreTyped
  <2> QED BY <1>1, <2>1, <2>2 DEF Put, Free
<1>2. CASE ~Free(key[r])
  BY <1>2 DEF Make, Free
<1> QED BY <1>1, <1>2

LEMMA InsertIs ==
  ASSUME RecordsInv, NEW r \in Request, InsertRecord(r)
  PROVE  CollectionNext
<1>1. Make(r, NewRecord(key[r])) /\ UNCHANGED now /\ key[r] \in Key
  BY RequestKey DEF InsertRecord
<1>2. Insert(r, key[r])
  BY <1>1, MakePuts DEF RecordsInv, Insert
<1> QED BY <1>1, <1>2 DEF CollectionNext

LEMMA UpsertIs ==
  ASSUME RecordsInv, NEW r \in Request, at[r] # "idle", Make(r, FromPatch(key[r])), UNCHANGED now
  PROVE  CollectionNext
<1>1. key[r] \in Key
  BY RequestKey
<1>2. Upsert(r, key[r])
  BY MakePuts DEF RecordsInv, Upsert
<1> QED BY <1>1, <1>2 DEF CollectionNext

LEMMA ChangeManyIs ==
  ASSUME RecordsInv, NEW r \in Request, ChangeMany(r)
  PROVE  CollectionNext
<1>1. Found(r) \in SUBSET Records
  BY DEF Found
<1>2. /\ store' = [x \in Place |-> IF x \in Found(r) THEN Patched(store[x]) ELSE store[x]]
      /\ Answer(r, Value(Cardinality(Found(r)))) /\ UNCHANGED now
  BY DEF ChangeMany
<1>3. UpdateMany(r)
  BY <1>1, <1>2 DEF UpdateMany
<1> QED BY <1>3 DEF CollectionNext

LEMMA ReadIs ==
  ASSUME RecordsInv, NEW r \in Request, ReadRecord(r)
  PROVE  CollectionNext
<1>1. key[r] \in Key /\ Read(r, key[r])
  BY RequestKey DEF ReadRecord
<1> QED BY <1>1 DEF CollectionNext

LEMMA StepsImplement ==
  ASSUME RecordsInv, [RecordsNext]_recordVars
  PROVE  [CollectionNext]_contents
<1>1. CASE UNCHANGED recordVars
  BY <1>1 DEF recordVars, contents
<1>2. ASSUME NEW r \in Request, NEW what \in Ops, NEW k \in Key, Begin(r, what, k)
      PROVE  CollectionNext
  BY <1>2 DEF Begin, CollectionNext
<1>3. ASSUME NEW r \in Request,
             \/ Find(r)
             \/ DropCopy(r)
             \/ Look(r)
             \/ FillCopy(r)
      PROVE  UNCHANGED contents
  BY <1>3 DEF Find, DropCopy, Look, FillCopy
<1>4. ASSUME NEW r \in Request, UpsertInsert(r)
      PROVE  [CollectionNext]_contents
  <2>1. CASE backend = "postgres"
    BY <1>4, <2>1 DEF UpsertInsert
  <2>2. CASE backend # "postgres"
    BY <1>4, <2>2, UpsertIs DEF UpsertInsert
  <2> QED BY <2>1, <2>2
<1>5. ASSUME NEW r \in Request, SecondStatement(r)
      PROVE  CollectionNext
  BY <1>5, UpsertIs DEF SecondStatement
<1>6. ASSUME NEW r \in Request,
             \/ ChangeOne(r)
             \/ Add(r)
             \/ ChangeNone(r)
             \/ InsertRecord(r)
             \/ ChangeMany(r)
             \/ ReadRecord(r)
      PROVE  CollectionNext
  BY <1>6, ChangeOneIs, AddIsIncrement, ChangeNoneIs, InsertIs, ChangeManyIs, ReadIs
<1>7. ASSUME \/ \E k \in Key : CopyExpires(k)
             \/ CooledDown
      PROVE  UNCHANGED contents
  BY <1>7 DEF CopyExpires, CooledDown
<1>8. ASSUME PurgeExpired
      PROVE  CollectionNext
  <2>1. Purge
    BY <1>8 DEF PurgeExpired, Purge
  <2> QED BY <2>1 DEF CollectionNext
<1>9. ASSUME Later
      PROVE  CollectionNext
  BY <1>9 DEF Later, CollectionNext
<1>10. CASE RecordsNext
  <2>1. CASE \E r \in Request :
              \/ \E what \in Ops, k \in Key : Begin(r, what, k)
              \/ Find(r)
              \/ DropCopy(r)
              \/ Look(r)
              \/ FillCopy(r)
    BY <1>2, <1>3, <2>1
  <2>2. CASE \E r \in Request : UpsertInsert(r) \/ SecondStatement(r)
    BY <1>4, <1>5, <2>2
  <2>3. CASE \E r \in Request :
              \/ ChangeOne(r)
              \/ Add(r)
              \/ ChangeNone(r)
              \/ InsertRecord(r)
              \/ ChangeMany(r)
              \/ ReadRecord(r)
    BY <1>6, <2>3
  <2>4. CASE \/ \E k \in Key : CopyExpires(k)
             \/ CooledDown
             \/ PurgeExpired
             \/ Later
    BY <1>7, <1>8, <1>9, <2>4
  <2> QED BY <1>10, <2>1, <2>2, <2>3, <2>4 DEF RecordsNext
<1> QED BY <1>1, <1>10

-----------------------------------------------------------------------------
\* As long as every record that was made was made whole, no copy in the cache lacks a field.
THEOREM CopiesStayWhole == RecordsSpec => []CopiesAreWhole
<1>1. RecordsInit => RecordsInv
  BY RecordsBegin
<1>2. RecordsInv /\ [RecordsNext]_recordVars => RecordsInv'
  BY RecordsStep
<1>3. RecordsInv => CopiesAreWhole
  <2> SUFFICES ASSUME RecordsInv, ~halves, NEW k \in Key, cache[k] # NoCopy
               PROVE  cache[k].whole
    BY DEF CopiesAreWhole
  <2>1. cache[k] \in Entry({TRUE})
    BY DEF RecordsInv, CopiesTyped, Sort
  <2>2. cache[k].whole = TRUE
    BY <2>1 DEF Entry
  <2> QED BY <2>2
<1> QED BY <1>1, <1>2, <1>3, PTL DEF RecordsSpec

\* Whatever statements of MongoDB or PostgreSQL meet, every call of the data layer changes what
\* matches at one moment, and answers what it did: the collection's interface.
THEOREM RecordsAreACollection == RecordsSpec => ImplementsCollection
<1>1. RecordsInit => RecordsInv /\ CollectionInit
  BY RecordsBegin DEF RecordsInit
<1>2. RecordsInv /\ [RecordsNext]_recordVars => RecordsInv'
  BY RecordsStep
<1>3. RecordsInv /\ [RecordsNext]_recordVars => [CollectionNext]_contents
  BY StepsImplement
<1> QED BY <1>1, <1>2, <1>3, PTL DEF RecordsSpec, ImplementsCollection, CollectionSpec

-----------------------------------------------------------------------------
(* Webhooks.                                                               *)

Steps == {"idle", "count", "insert", "record", "list", "enqueue"}
Kinds == {"none", "subscribe", "unsubscribe", "change"}

Delivery ==
  [hook : Hook, event : Nat, id : Nat,
   status : {"queued", "taken", "sending", "answered", "done", "dead"},
   attempts : Nat, ended : BOOLEAN]

HooksTyped ==
  /\ hooks \in [Hook -> {"none", "live", "gone"}]
  /\ jobs \in Seq(Delivery)
  /\ phase \in [Request -> Steps]
  /\ purpose \in [Request -> Kinds]
  /\ event \in [Request -> Nat]
  /\ ahead \in [Request -> SUBSET Hook]
  /\ logged \in Nat

\* A request has an event to publish, a recorded one of its own, while it publishes it.
OwnEvents ==
  \A r \in Request :
    /\ event[r] <= logged
    /\ IF phase[r] \in {"list", "enqueue"} THEN event[r] # W!NoEvent ELSE event[r] = W!NoEvent
    /\ phase[r] # "enqueue" => ahead[r] = {}
    /\ \A s \in Request \ {r} : event[r] # W!NoEvent => event[s] # event[r]

Known(h) == hooks[h] \in {"live", "gone"}

\* A delivery has its place for its identifier, and a worker that comes late does not send it.
Delivered(i) ==
  /\ jobs[i].id = i /\ jobs[i].event <= logged
  /\ Known(jobs[i].hook)
  /\ jobs[i].ended => hooks[jobs[i].hook] = "gone" /\ jobs[i].status # "sending"

\* Deliveries of an event to one subscription are one.
OneDelivery ==
  \A i, j \in 1 .. Len(jobs) :
    jobs[i].hook = jobs[j].hook /\ jobs[i].event = jobs[j].event /\ jobs[i].event # W!NoEvent => i = j

\* What has still to be queued for an event is not queued yet.
StillToDo(r) ==
  /\ \A h \in ahead[r] :
       Known(h) /\ \A i \in 1 .. Len(jobs) : jobs[i].hook = h => jobs[i].event # event[r]
  /\ phase[r] = "list" => \A i \in 1 .. Len(jobs) : jobs[i].event # event[r]

Receipt(i) == [hook |-> jobs[i].hook, event |-> jobs[i].event, id |-> <<i, 1>>]

HooksInv ==
  /\ HooksTyped
  /\ OwnEvents
  /\ \A i \in 1 .. Len(jobs) : Delivered(i)
  /\ OneDelivery
  /\ \A r \in Request : StillToDo(r)
  /\ \A m \in received : \E i \in 1 .. Len(jobs) : m = Receipt(i)
  /\ W!EndedIsLeftAlone

LEMMA HooksInit == W!Init => HooksInv
BY DEF W!Init, HooksInv, HooksTyped, Steps, Kinds, OwnEvents, W!NoEvent, Delivered, OneDelivery,
       StillToDo, W!EndedIsLeftAlone

LEMMA HooksOneMessage == HooksInv => W!OneMessagePerEvent
<1> SUFFICES ASSUME HooksInv, NEW m \in received, NEW n \in received,
                    m.hook = n.hook, m.event = n.event, m.event # W!NoEvent
             PROVE  m.id = n.id
  BY DEF W!OneMessagePerEvent
<1>1. PICK i \in 1 .. Len(jobs) : m = Receipt(i)
  BY DEF HooksInv
<1>2. PICK j \in 1 .. Len(jobs) : n = Receipt(j)
  BY DEF HooksInv
<1>3. i = j
  BY <1>1, <1>2 DEF HooksInv, OneDelivery, Receipt
<1> QED BY <1>1, <1>2, <1>3

\* A step of a worker keeps what the delivery is of, and all the others.
LEMMA UpdateKeeps ==
  ASSUME HooksTyped, NEW i \in 1 .. Len(jobs), NEW how \in Delivery, W!Update(i, how),
         how.hook = jobs[i].hook, how.event = jobs[i].event, how.id = jobs[i].id
  PROVE  /\ jobs' \in Seq(Delivery)
         /\ Len(jobs') = Len(jobs)
         /\ jobs'[i] = how
         /\ \A j \in 1 .. Len(jobs) :
              /\ j # i => jobs'[j] = jobs[j]
              /\ jobs'[j].hook = jobs[j].hook /\ jobs'[j].event = jobs[j].event
              /\ jobs'[j].id = jobs[j].id
BY DEF HooksTyped, W!Update

\* What holds after a step of a worker: the delivery is as it should be, and nothing else changed.
LEMMA UpdateStep ==
  ASSUME HooksInv, NEW i \in 1 .. Len(jobs), NEW how \in Delivery, W!Update(i, how),
         how.hook = jobs[i].hook, how.event = jobs[i].event, how.id = jobs[i].id,
         how.ended => hooks[how.hook] = "gone" /\ how.status # "sending",
         UNCHANGED <<hooks, W!request, logged>>,
         \A m \in received' : m \in received \/ m = Receipt(i),
         late' = {}
  PROVE  HooksInv'
<1> USE DEF HooksInv, W!request
<1>1. /\ jobs' \in Seq(Delivery) /\ Len(jobs') = Len(jobs) /\ jobs'[i] = how
      /\ \A j \in 1 .. Len(jobs) :
           /\ j # i => jobs'[j] = jobs[j]
           /\ jobs'[j].hook = jobs[j].hook /\ jobs'[j].event = jobs[j].event
           /\ jobs'[j].id = jobs[j].id
  BY UpdateKeeps
<1>2. HooksTyped'
  BY <1>1 DEF HooksTyped
<1>3. OwnEvents'
  BY DEF OwnEvents
<1>4. \A j \in 1 .. Len(jobs) : Delivered(j)'
  <2> SUFFICES ASSUME NEW j \in 1 .. Len(jobs) PROVE Delivered(j)'
    OBVIOUS
  <2>1. CASE j = i
    BY <1>1, <2>1 DEF Delivered, Known
  <2>2. CASE j # i
    BY <1>1, <2>2 DEF Delivered, Known
  <2> QED BY <2>1, <2>2
<1>5. OneDelivery'
  BY <1>1 DEF OneDelivery
<1>6. \A r \in Request : StillToDo(r)'
  BY <1>1 DEF StillToDo, Known
<1>7. \A j \in 1 .. Len(jobs) : Receipt(j)' = Receipt(j)
  BY <1>1 DEF Receipt
<1>8. \A m \in received' : \E j \in 1 .. Len(jobs') : m = Receipt(j)'
  BY <1>1, <1>7
<1> QED BY <1>1, <1>2, <1>3, <1>4, <1>5, <1>6, <1>8 DEF W!EndedIsLeftAlone

LEMMA TakenDelivery ==
  ASSUME NEW d \in Delivery, NEW over \in BOOLEAN
  PROVE  LET how == [d EXCEPT !.status = "taken", !.attempts = @ + 1, !.ended = over] IN
         /\ how \in Delivery /\ how.status = "taken" /\ how.hook = d.hook
         /\ how.event = d.event /\ how.id = d.id
<1> DEFINE b == [d EXCEPT !.status = "taken"]
           c == [b EXCEPT !.attempts = @ + 1]
           how == [d EXCEPT !.status = "taken", !.attempts = @ + 1, !.ended = over]
<1>1. b \in Delivery /\ b.status = "taken" /\ b.hook = d.hook /\ b.event = d.event /\ b.id = d.id
  BY DEF Delivery
<1>2. how = [c EXCEPT !.ended = over]
  BY DEF Delivery
<1> HIDE DEF b
<1>3. c \in Delivery /\ c.status = "taken" /\ c.hook = d.hook /\ c.event = d.event /\ c.id = d.id
  BY <1>1 DEF Delivery
<1> HIDE DEF c
<1>4. [c EXCEPT !.ended = over] \in Delivery
  BY <1>3 DEF Delivery
<1> QED BY <1>2, <1>3, <1>4 DEF Delivery

LEMMA DeliverStep ==
  ASSUME HooksInv, NEW i \in 1 .. Len(jobs), W!Delivering(i) \/ W!Fails(i)
  PROVE  HooksInv'
<1>1. jobs[i] \in Delivery /\ Delivered(i) /\ late = {}
  BY DEF HooksInv, HooksTyped, W!EndedIsLeftAlone
<1> DEFINE put(s) == [jobs[i] EXCEPT !.status = s]
<1>2. ASSUME NEW s \in {"queued", "taken", "sending", "answered", "done", "dead"}
      PROVE  /\ put(s) \in Delivery /\ put(s).status = s /\ put(s).ended = jobs[i].ended
             /\ put(s).hook = jobs[i].hook /\ put(s).event = jobs[i].event
             /\ put(s).id = jobs[i].id
  BY <1>1 DEF Delivery
<1>3. CASE W!Take(i)
  <2> DEFINE over == hooks[jobs[i].hook] # "live"
             how == [jobs[i] EXCEPT !.status = "taken", !.attempts = @ + 1,
                                    !.ended = over]
  <2>1. /\ how \in Delivery /\ how.status = "taken" /\ how.hook = jobs[i].hook
        /\ how.event = jobs[i].event /\ how.id = jobs[i].id
    <3>1. over \in BOOLEAN
      OBVIOUS
    <3> HIDE DEF over
    <3> QED BY ONLY <1>1, <3>1, TakenDelivery
  <2>2. how.ended => hooks[how.hook] = "gone"
    <3>1. over => hooks[jobs[i].hook] = "gone"
      BY <1>1 DEF Delivered, Known
    <3>2. how.ended = over
      BY <1>1 DEF Delivery
    <3> HIDE DEF how, over
    <3> QED BY <2>1, <3>1, <3>2
  <2>3. W!Update(i, how) /\ UNCHANGED <<hooks, W!request, logged, received, W!history>>
    BY <1>3 DEF W!Take
  <2> HIDE DEF how
  <2> QED BY <1>1, <2>1, <2>2, <2>3, UpdateStep DEF W!history
<1>4. CASE W!LookUp(i)
  <2> DEFINE s == IF W!Subscribed(jobs[i].hook) THEN "sending" ELSE "done"
  <2>1. s = "sending" => ~jobs[i].ended
    BY <1>1 DEF Delivered, W!Subscribed
  <2>2. W!Update(i, put(s)) /\ UNCHANGED <<hooks, W!request, logged, received, W!history>>
    BY <1>4 DEF W!LookUp
  <2>3. s \in {"sending", "done"}
    OBVIOUS
  <2> HIDE DEF s, put
  <2> QED BY <1>1, <1>2, <2>1, <2>2, <2>3, UpdateStep DEF W!history, Delivered
<1>5. CASE W!Post(i)
  <2>1. jobs[i].status = "sending" /\ ~jobs[i].ended
    BY <1>1, <1>5 DEF W!Post, Delivered
  <2>2. late' = {}
    BY <1>1, <1>5, <2>1 DEF W!Post
  <2>3. \A m \in received' : m \in received \/ m = Receipt(i)
    BY <1>1, <1>5 DEF W!Post, W!Got, W!MessageId, Receipt, Delivered
  <2>4. W!Update(i, put("answered")) /\ UNCHANGED <<hooks, W!request, logged>>
    BY <1>5 DEF W!Post
  <2> HIDE DEF put
  <2> QED BY <1>1, <1>2, <2>1, <2>2, <2>3, <2>4, UpdateStep
<1>6. CASE W!Finished(i)
  <2>1. W!Update(i, put("done")) /\ UNCHANGED <<hooks, W!request, logged, received, W!history>>
    BY <1>6 DEF W!Finished
  <2> HIDE DEF put
  <2> QED BY <1>1, <1>2, <2>1, UpdateStep DEF W!history, Delivered
<1>7. CASE W!Fails(i)
  <2> DEFINE s == IF jobs[i].attempts < MaxAttempts THEN "queued" ELSE "dead"
  <2>1. W!Update(i, put(s)) /\ UNCHANGED <<hooks, W!request, logged, received, W!history>>
    BY <1>7 DEF W!Fails
  <2>2. s \in {"queued", "dead"}
    OBVIOUS
  <2> HIDE DEF s, put
  <2> QED BY <1>1, <1>2, <2>1, <2>2, UpdateStep DEF W!history, Delivered
<1> QED BY <1>3, <1>4, <1>5, <1>6, <1>7 DEF W!Delivering

-----------------------------------------------------------------------------
\* What has still to be queued stays so while the deliveries are left alone, if the request
\* goes on with the same event or has nothing left to queue.
LEMMA StillStands ==
  ASSUME NEW q \in Request, StillToDo(q), ahead[q] \subseteq Hook, jobs' = jobs,
         \A h \in Hook : Known(h) => Known(h)',
         ahead'[q] = {} \/ (ahead'[q] = ahead[q] /\ event'[q] = event[q]),
         phase'[q] = "list" => phase[q] = "list" /\ event'[q] = event[q]
  PROVE  StillToDo(q)'
<1>1. phase'[q] = "list" => \A i \in 1 .. Len(jobs) : jobs[i].event # event'[q]
  BY DEF StillToDo
<1>2. ASSUME NEW h \in ahead'[q]
      PROVE  Known(h)' /\ \A i \in 1 .. Len(jobs) : jobs[i].hook = h => jobs[i].event # event'[q]
  <2>1. h \in ahead[q] /\ h \in Hook /\ event'[q] = event[q]
    BY <1>2
  <2>2. Known(h) /\ \A i \in 1 .. Len(jobs) : jobs[i].hook = h => jobs[i].event # event[q]
    BY <2>1 DEF StillToDo
  <2> QED BY <2>1, <2>2
<1>3. \A h \in ahead'[q] :
        Known(h)' /\ \A i \in 1 .. Len(jobs) : jobs[i].hook = h => jobs[i].event # event'[q]
  BY <1>2
<1> QED BY <1>1, <1>3 DEF StillToDo

\* A step that leaves the deliveries alone keeps what is known of them.
LEMMA SameDeliveries ==
  ASSUME HooksInv, UNCHANGED <<jobs, received, late>>,
         logged' \in Nat, logged <= logged',
         \A h \in Hook : \/ hooks'[h] = hooks[h]
                         \/ hooks[h] = "none" /\ hooks'[h] = "live"
                         \/ hooks[h] = "live" /\ hooks'[h] = "gone"
  PROVE  /\ \A i \in 1 .. Len(jobs') : Delivered(i)'
         /\ OneDelivery'
         /\ \A m \in received' : \E i \in 1 .. Len(jobs') : m = Receipt(i)'
         /\ W!EndedIsLeftAlone'
         /\ \A h \in Hook : Known(h) => Known(h)'
<1>1. \A i \in 1 .. Len(jobs) : jobs[i] \in Delivery
  BY DEF HooksInv, HooksTyped
<1>2. \A h \in Hook : Known(h) => Known(h)'
  BY DEF Known
<1>3. ASSUME NEW i \in 1 .. Len(jobs') PROVE Delivered(i)'
  <2>1. i \in 1 .. Len(jobs) /\ jobs[i] \in Delivery /\ jobs'[i] = jobs[i] /\ Delivered(i)
    BY <1>1 DEF HooksInv
  <2>2. jobs[i].hook \in Hook /\ jobs[i].event \in Nat
    BY <2>1 DEF Delivery
  <2>3. logged \in Nat
    BY DEF HooksInv, HooksTyped
  <2>4. jobs'[i].event <= logged' /\ jobs'[i].id = i
    BY <2>1, <2>2, <2>3 DEF Delivered
  <2>5. jobs'[i].ended => hooks'[jobs'[i].hook] = "gone" /\ jobs'[i].status # "sending"
    BY <2>1, <2>2 DEF Delivered
  <2>6. Known(jobs[i].hook)'
    BY <1>2, <2>1, <2>2 DEF Delivered
  <2> QED BY <2>1, <2>4, <2>5, <2>6 DEF Delivered, Known
<1>4. OneDelivery'
  BY DEF HooksInv, OneDelivery
<1>5. \A m \in received' : \E i \in 1 .. Len(jobs') : m = Receipt(i)'
  BY DEF HooksInv, Receipt
<1> QED BY <1>2, <1>3, <1>4, <1>5 DEF HooksInv, W!EndedIsLeftAlone

LEMMA FinishHooks ==
  ASSUME HooksInv, NEW r \in Request, W!Finish(r), logged' \in Nat, logged <= logged'
  PROVE  /\ phase' \in [Request -> Steps] /\ purpose' \in [Request -> Kinds]
         /\ event' \in [Request -> Nat] /\ ahead' \in [Request -> SUBSET Hook]
         /\ OwnEvents'
         /\ \A s \in Request : ahead'[s] = {} \/ (ahead'[s] = ahead[s] /\ event'[s] = event[s])
         /\ \A s \in Request : phase'[s] = "list" => phase[s] = "list" /\ event'[s] = event[s]
<1> USE DEF HooksInv, HooksTyped, W!Finish, W!Goto, Steps, Kinds, W!NoEvent
<1>1. /\ phase' \in [Request -> Steps] /\ purpose' \in [Request -> Kinds]
      /\ event' \in [Request -> Nat] /\ ahead' \in [Request -> SUBSET Hook]
  OBVIOUS
<1>2. OwnEvents'
  BY <1>1 DEF OwnEvents
<1> QED BY <1>1, <1>2

\* A request that ends, or is cut short.
LEMMA EndStep ==
  ASSUME HooksInv, NEW r \in Request, W!Finish(r), UNCHANGED <<hooks, jobs, received, late>>,
         logged' \in Nat, logged <= logged'
  PROVE  HooksInv'
<1>1. HooksTyped'
  BY FinishHooks DEF HooksInv, HooksTyped
<1>2. \A h \in Hook : Known(h)' = Known(h)
  BY DEF Known
<1>3. ASSUME NEW s \in Request PROVE StillToDo(s)'
  <2>1. StillToDo(s)
    BY DEF HooksInv
  <2>2. /\ ahead'[s] = {} \/ (ahead'[s] = ahead[s] /\ event'[s] = event[s])
        /\ phase'[s] = "list" => phase[s] = "list" /\ event'[s] = event[s]
    BY FinishHooks
  <2>3. ahead[s] \subseteq Hook /\ jobs' = jobs
    BY DEF HooksInv, HooksTyped
  <2> QED BY <1>2, <2>1, <2>2, <2>3, StillStands
<1> QED BY <1>1, <1>3, SameDeliveries, FinishHooks DEF HooksInv

\* A step of a request that publishes nothing.
LEMMA QuietStep ==
  ASSUME HooksInv, NEW r \in Request, NEW s \in {"count", "insert", "record"},
         phase[r] \in {"idle", "count", "insert"}, W!Goto(r, s),
         purpose' \in [Request -> Kinds], hooks' \in [Hook -> {"none", "live", "gone"}],
         \A h \in Hook : \/ hooks'[h] = hooks[h]
                         \/ hooks[h] = "none" /\ hooks'[h] = "live"
                         \/ hooks[h] = "live" /\ hooks'[h] = "gone",
         UNCHANGED <<jobs, event, ahead, logged, received, late>>
  PROVE  HooksInv'
<1> USE DEF HooksInv, HooksTyped, W!Goto
<1>1. HooksTyped'
  BY DEF Steps
<1>2. OwnEvents'
  BY DEF OwnEvents
<1>3. logged \in Nat
  OBVIOUS
<1>4. \A h \in Hook : Known(h) => Known(h)'
  BY DEF Known
<1>5. ASSUME NEW q \in Request PROVE StillToDo(q)'
  <2>1. StillToDo(q) /\ ahead[q] \subseteq Hook /\ jobs' = jobs
    OBVIOUS
  <2>2. ahead'[q] = ahead[q] /\ event'[q] = event[q] /\ (phase'[q] = "list" => phase[q] = "list")
    OBVIOUS
  <2> QED BY ONLY <1>4, <2>1, <2>2, StillStands
<1>6. /\ \A i \in 1 .. Len(jobs') : Delivered(i)'
      /\ OneDelivery'
      /\ \A m \in received' : \E i \in 1 .. Len(jobs') : m = Receipt(i)'
      /\ W!EndedIsLeftAlone'
  BY <1>3, SameDeliveries
<1> QED BY ONLY <1>1, <1>2, <1>5, <1>6 DEF HooksInv

LEMMA SubscribeStep ==
  ASSUME HooksInv, NEW r \in Request,
         \/ W!Subscribe(r) \/ W!Change(r) \/ W!CountHooks(r) \/ W!InsertHook(r)
         \/ \E h \in Hook : W!Unsubscribe(r, h)
  PROVE  HooksInv'
<1> USE DEF W!history, W!hookVars, W!request
<1>1. phase[r] \in Steps /\ logged \in Nat /\ purpose \in [Request -> Kinds]
      /\ hooks \in [Hook -> {"none", "live", "gone"}]
  BY DEF HooksInv, HooksTyped
<1>2. CASE W!Subscribe(r) \/ W!Change(r)
  BY <1>1, <1>2, QuietStep DEF W!Subscribe, W!Change, W!Begin, Kinds
<1>3. CASE W!CountHooks(r)
  BY <1>1, <1>3, QuietStep, EndStep DEF W!CountHooks
<1>4. CASE W!InsertHook(r)
  BY <1>1, <1>4, QuietStep DEF W!InsertHook
<1>5. CASE \E h \in Hook : W!Unsubscribe(r, h)
  BY <1>1, <1>5, QuietStep DEF W!Unsubscribe, Kinds
<1> QED BY <1>2, <1>3, <1>4, <1>5

LEMMA RecordStep ==
  ASSUME HooksInv, NEW r \in Request, W!Record(r)
  PROVE  HooksInv'
<1> USE DEF W!Record, W!history, W!hookVars, HooksInv, HooksTyped
<1>1. logged \in Nat /\ logged' = logged + 1
  OBVIOUS
<1>2. CASE ~W!Published(purpose[r])
  BY <1>1, <1>2, EndStep
<1>3. CASE W!Published(purpose[r])
  <2>1. HooksTyped'
    <3>1. event' = [event EXCEPT ![r] = logged + 1] /\ phase' = [phase EXCEPT ![r] = "list"]
          /\ UNCHANGED <<hooks, jobs, purpose, ahead>>
      BY <1>1, <1>3 DEF W!Goto
    <3> QED BY <1>1, <3>1 DEF Steps
  <2>2. OwnEvents'
    BY <1>1, <1>3 DEF OwnEvents, W!Goto, W!NoEvent
  <2>3. \A i \in 1 .. Len(jobs) : jobs[i].event <= logged /\ jobs[i].event \in Nat
    <3>1. \A i \in 1 .. Len(jobs) : jobs[i] \in Delivery
      OBVIOUS
    <3> QED BY <3>1 DEF Delivered, Delivery
  <2>4. \A h \in Hook : Known(h)' = Known(h)
    BY DEF Known
  <2>5. ASSUME NEW q \in Request PROVE StillToDo(q)'
    <3>1. StillToDo(q) /\ ahead[q] \subseteq Hook /\ jobs' = jobs /\ ahead' = ahead
      BY <1>3
    <3>2. CASE q = r
      <4>1. event'[q] = logged + 1 /\ ahead[q] = {}
        BY <1>1, <1>3, <3>2 DEF OwnEvents, W!NoEvent
      <4>2. \A i \in 1 .. Len(jobs) : jobs[i].event # event'[q]
        BY <1>1, <2>3, <4>1
      <4> QED BY ONLY <3>1, <4>1, <4>2 DEF StillToDo
    <3>3. CASE q # r
      <4>1. event'[q] = event[q] /\ phase'[q] = phase[q]
        BY <1>3, <3>3 DEF W!Goto
      <4> QED BY ONLY <2>4, <3>1, <4>1, StillStands
    <3> QED BY <3>2, <3>3
  <2> QED BY <1>1, <2>1, <2>2, <2>5, SameDeliveries
<1> QED BY <1>2, <1>3

LEMMA ListStep ==
  ASSUME HooksInv, NEW r \in Request, W!ListHooks(r)
  PROVE  HooksInv'
<1> USE DEF HooksInv, HooksTyped, W!hookVars
<1>1. PICK S \in W!Listed(W!Live) : ahead' = [ahead EXCEPT ![r] = S \cap Wanting]
  BY DEF W!ListHooks
<1>2. S \subseteq W!Live /\ W!Live \subseteq Hook
  BY DEF W!Listed, W!Live
<1>3. UNCHANGED <<hooks, jobs, purpose, event, logged, received, late>> /\ phase[r] = "list"
      /\ W!Goto(r, "enqueue")
  BY DEF W!ListHooks
<1>4. HooksTyped'
  BY <1>1, <1>2, <1>3 DEF W!Goto, Steps
<1>5. OwnEvents'
  BY <1>1, <1>3 DEF OwnEvents, W!Goto
<1>6. \A h \in Hook : Known(h)' = Known(h) /\ (h \in W!Live => Known(h))
  BY <1>3 DEF Known, W!Live
<1>7. ASSUME NEW q \in Request PROVE StillToDo(q)'
  <2>1. StillToDo(q) /\ ahead[q] \subseteq Hook /\ jobs' = jobs /\ event' = event
    BY <1>3
  <2>2. CASE q = r
    <3>1. ahead'[q] \subseteq W!Live /\ ahead'[q] \subseteq Hook /\ phase'[q] # "list"
      BY <1>1, <1>2, <1>3, <2>2 DEF W!Goto
    <3>2. \A i \in 1 .. Len(jobs) : jobs[i].event # event[q]
      BY <1>3, <2>1, <2>2 DEF StillToDo
    <3> QED BY ONLY <1>6, <2>1, <3>1, <3>2 DEF StillToDo
  <2>3. CASE q # r
    <3>1. ahead'[q] = ahead[q] /\ phase'[q] = phase[q]
      BY <1>1, <1>3, <2>3 DEF W!Goto
    <3> QED BY ONLY <1>6, <2>1, <3>1, StillStands
  <2> QED BY <2>2, <2>3
<1>8. logged \in Nat
  OBVIOUS
<1> QED BY <1>3, <1>4, <1>5, <1>7, <1>8, SameDeliveries

\* A new delivery of an event to a subscription that has none of it yet.
LEMMA AppendStep ==
  ASSUME HooksInv, NEW h \in Hook, NEW e \in Nat, jobs' = Append(jobs, W!NewJob(h, e)),
         e <= logged, Known(h), e # W!NoEvent => \A i \in 1 .. Len(jobs) :
                                                   jobs[i].hook = h => jobs[i].event # e,
         UNCHANGED <<hooks, logged, received, late>>
  PROVE  /\ jobs' \in Seq(Delivery)
         /\ \A i \in 1 .. Len(jobs') : Delivered(i)'
         /\ OneDelivery'
         /\ \A m \in received' : \E i \in 1 .. Len(jobs') : m = Receipt(i)'
         /\ W!EndedIsLeftAlone'
<1> DEFINE n == Len(jobs) + 1
           new == W!NewJob(h, e)
<1>1. jobs \in Seq(Delivery) /\ n \in Nat
  BY DEF HooksInv, HooksTyped
<1>2. new \in Delivery /\ new.hook = h /\ new.event = e /\ new.id = n /\ new.ended = FALSE
  BY <1>1 DEF W!NewJob, Delivery
<1>3. /\ jobs' \in Seq(Delivery) /\ Len(jobs') = n /\ jobs'[n] = new
      /\ \A i \in 1 .. Len(jobs) : jobs'[i] = jobs[i]
  <2> HIDE DEF new
  <2> QED BY <1>1, <1>2 DEF new
<1> HIDE DEF new
<1>4. \A i \in 1 .. Len(jobs') : i = n \/ i \in 1 .. Len(jobs)
  BY <1>1, <1>3
<1>5. Known(h)' /\ \A g \in Hook : Known(g)' = Known(g)
  BY DEF Known
<1>6. ASSUME NEW i \in 1 .. Len(jobs) PROVE Delivered(i)'
  <2>1. jobs[i] \in Delivery /\ Delivered(i)
    BY <1>1 DEF HooksInv
  <2> QED BY <1>3, <1>5, <2>1 DEF Delivered, Delivery
<1>7. ASSUME NEW i \in 1 .. Len(jobs'), i = n PROVE Delivered(i)'
  BY <1>2, <1>3, <1>5, <1>7 DEF Delivered
<1>8. OneDelivery'
  <2> SUFFICES ASSUME NEW i \in 1 .. Len(jobs'), NEW j \in 1 .. Len(jobs'),
                      jobs'[i].hook = jobs'[j].hook, jobs'[i].event = jobs'[j].event,
                      jobs'[i].event # W!NoEvent
               PROVE  i = j
    BY DEF OneDelivery
  <2> QED BY <1>2, <1>3, <1>4 DEF HooksInv, OneDelivery
<1>9. \A m \in received' : \E i \in 1 .. Len(jobs') : m = Receipt(i)'
  <2>1. \A i \in 1 .. Len(jobs) : i \in 1 .. Len(jobs') /\ Receipt(i)' = Receipt(i)
    BY <1>1, <1>3 DEF Receipt
  <2> QED BY <2>1 DEF HooksInv
<1> QED BY <1>3, <1>4, <1>6, <1>7, <1>8, <1>9 DEF HooksInv, W!EndedIsLeftAlone

LEMMA EnqueueStep ==
  ASSUME HooksInv, NEW r \in Request, W!Enqueue(r)
  PROVE  HooksInv'
<1> USE DEF W!history
<1>1. CASE ahead[r] = {}
  <2>1. logged \in Nat
    BY DEF HooksInv, HooksTyped
  <2> QED BY <1>1, <2>1, EndStep DEF W!Enqueue
<1>2. CASE ahead[r] # {}
  <2>1. PICK h \in ahead[r] : /\ jobs' = Append(jobs, W!NewJob(h, event[r]))
                             /\ ahead' = [ahead EXCEPT ![r] = @ \ {h}]
    BY <1>2 DEF W!Enqueue
  <2>2. UNCHANGED <<hooks, phase, purpose, event, logged, received, late>> /\ phase[r] = "enqueue"
    BY <1>2 DEF W!Enqueue
  <2>3. /\ h \in Hook /\ event[r] \in Nat /\ event[r] <= logged /\ event[r] # W!NoEvent /\ Known(h)
        /\ \A i \in 1 .. Len(jobs) : jobs[i].hook = h => jobs[i].event # event[r]
    BY <2>2 DEF HooksInv, HooksTyped, OwnEvents, StillToDo
  <2>4. /\ jobs' \in Seq(Delivery)
        /\ \A i \in 1 .. Len(jobs') : Delivered(i)'
        /\ OneDelivery'
        /\ \A m \in received' : \E i \in 1 .. Len(jobs') : m = Receipt(i)'
        /\ W!EndedIsLeftAlone'
    BY <2>1, <2>2, <2>3, AppendStep
  <2>5. HooksTyped'
    BY <2>1, <2>2, <2>4 DEF HooksInv, HooksTyped
  <2>6. OwnEvents'
    BY <2>1, <2>2 DEF HooksInv, HooksTyped, OwnEvents
  <2>7. \A i \in 1 .. Len(jobs') :
          \/ i \in 1 .. Len(jobs) /\ jobs'[i] = jobs[i]
          \/ jobs'[i].hook = h /\ jobs'[i].event = event[r]
    <3>1. jobs \in Seq(Delivery) /\ Len(jobs) \in Nat
      BY DEF HooksInv, HooksTyped
    <3>2. W!NewJob(h, event[r]).hook = h /\ W!NewJob(h, event[r]).event = event[r]
      BY DEF W!NewJob
    <3> DEFINE new == W!NewJob(h, event[r])
    <3> HIDE DEF new
    <3>3. /\ Len(Append(jobs, new)) = Len(jobs) + 1
          /\ \A i \in 1 .. Len(jobs) : Append(jobs, new)[i] = jobs[i]
          /\ Append(jobs, new)[Len(jobs) + 1] = new
      BY <3>1
    <3>4. jobs' = Append(jobs, new) /\ new.hook = h /\ new.event = event[r]
      BY <2>1, <3>2 DEF new
    <3> QED BY <3>1, <3>3, <3>4
  <2>8. \A g \in Hook : Known(g)' = Known(g)
    BY <2>2 DEF Known
  <2>9. ASSUME NEW q \in Request PROVE StillToDo(q)'
    <3>1. CASE q = r
      BY <2>1, <2>2, <2>7, <2>8, <3>1 DEF HooksInv, HooksTyped, StillToDo
    <3>2. CASE q # r
      BY <2>1, <2>2, <2>3, <2>7, <2>8, <3>2 DEF HooksInv, HooksTyped, StillToDo, OwnEvents
    <3> QED BY <3>1, <3>2
  <2> QED BY <2>4, <2>5, <2>6, <2>9 DEF HooksInv
<1> QED BY <1>1, <1>2

LEMMA TestStep ==
  ASSUME HooksInv, NEW h \in Hook, W!SendTest(h)
  PROVE  HooksInv'
<1> USE DEF W!history, W!request
<1>1. Known(h) /\ W!NoEvent \in Nat /\ W!NoEvent <= logged
  BY DEF W!SendTest, Known, W!NoEvent, HooksInv, HooksTyped
<1>2. /\ jobs' \in Seq(Delivery)
      /\ \A i \in 1 .. Len(jobs') : Delivered(i)'
      /\ OneDelivery'
      /\ \A m \in received' : \E i \in 1 .. Len(jobs') : m = Receipt(i)'
      /\ W!EndedIsLeftAlone'
  BY <1>1, AppendStep DEF W!SendTest
<1>3. HooksTyped' /\ OwnEvents'
  BY <1>2 DEF HooksInv, HooksTyped, OwnEvents, W!SendTest
<1>4. \A i \in 1 .. Len(jobs') :
        \/ i \in 1 .. Len(jobs) /\ jobs'[i] = jobs[i]
        \/ jobs'[i].event = W!NoEvent
  <2>1. jobs \in Seq(Delivery) /\ Len(jobs) \in Nat
    BY DEF HooksInv, HooksTyped
  <2>2. W!NewJob(h, W!NoEvent).event = W!NoEvent
    BY DEF W!NewJob
  <2> QED BY <2>1, <2>2 DEF W!SendTest
<1>5. \A g \in Hook : Known(g)' = Known(g)
  BY DEF Known, W!SendTest
<1>6. ASSUME NEW q \in Request PROVE StillToDo(q)'
  BY <1>4, <1>5 DEF HooksInv, HooksTyped, StillToDo, OwnEvents, W!SendTest
<1> QED BY <1>2, <1>3, <1>6 DEF HooksInv

LEMMA HooksStep == HooksInv /\ [W!Next]_W!vars => HooksInv'
<1> SUFFICES ASSUME HooksInv, [W!Next]_W!vars PROVE HooksInv'
  OBVIOUS
<1>1. CASE UNCHANGED W!vars
  <2> USE DEF W!vars, W!hookVars, W!request, W!history
  <2>1. HooksTyped' /\ OwnEvents'
    BY <1>1 DEF HooksInv, HooksTyped, OwnEvents
  <2>2. \A q \in Request : StillToDo(q)'
    BY <1>1 DEF HooksInv, StillToDo, Known
  <2>3. logged \in Nat
    BY DEF HooksInv, HooksTyped
  <2> QED BY <1>1, <2>1, <2>2, <2>3, SameDeliveries DEF HooksInv
<1>2. ASSUME NEW r \in Request, W!RecordFails(r) \/ W!Cut(r) PROVE HooksInv'
  <2>1. logged \in Nat
    BY DEF HooksInv, HooksTyped
  <2> QED BY <1>2, <2>1, EndStep DEF W!RecordFails, W!Cut, W!hookVars, W!history
<1> QED
  BY <1>1, <1>2, SubscribeStep, RecordStep, ListStep, EnqueueStep, TestStep, DeliverStep
     DEF W!Next, W!Publishing

\* For any subscriptions, events, requests and faults, a receiver can tell what it has already
\* got, and is left alone once it has unsubscribed.
THEOREM DeliveriesStayGood == W!Spec => []DeliveriesHold
<1>1. HooksInv => DeliveriesHold
  BY HooksOneMessage DEF HooksInv, DeliveriesHold, W!DeliveriesHold
<1> QED BY <1>1, HooksInit, HooksStep, PTL DEF W!Spec

-----------------------------------------------------------------------------
(* Uploads.                                                                *)

Stages ==
  {"idle", "check", "folder", "open", "write", "put", "confirm", "list", "read", "store", "clean",
   "delete"}

UploadsTyped ==
  /\ session \in 0 .. Life
  /\ chunk \in [Chunk -> {"none", "part", "whole"}]
  /\ age \in [Chunk -> Nat]
  /\ doomed \in SUBSET Chunk
  /\ stage \in [Sender -> Stages]
  /\ number \in [Sender -> Chunk]
  /\ held \in [Sender -> SUBSET Chunk]
  /\ remaining \in [Sender -> SUBSET Chunk]
  /\ sent \in SUBSET Chunk
  /\ counted \in SUBSET Sender

\* What the janitor finds old has not been written during this session.
Young(n) == chunk[n] # "none" /\ age[n] + session <= Life

\* Nothing counts while an upload's chunks are deleted, or once its time is over.
NothingCounts == sent = {} /\ counted = {}

SentIsYoung == \A n \in sent : Young(n) /\ n \notin doomed
WrittenIsYoung == \A r \in counted : stage[r] = "write" => Young(number[r])

UploadsInv ==
  /\ UploadsTyped
  /\ Cleaning \/ session = 0 => NothingCounts
  /\ SentIsYoung
  /\ WrittenIsYoung
  /\ AssembledIsSent

LEMMA ChunkFacts == 1 \in Chunk /\ IsFiniteSet(Chunk) /\ Cardinality(Chunk) = Total
BY UploadAssumption, FS_Interval DEF Chunk

LEMMA AllChunks ==
  ASSUME NEW S \in SUBSET Chunk, Cardinality(S) = Total
  PROVE  S = Chunk
BY ChunkFacts, FS_Subset

LEMMA UploadsInit == Init => UploadsInv
BY UploadAssumption, ChunkFacts
   DEF Init, UploadsInv, UploadsTyped, NothingCounts, SentIsYoung, WrittenIsYoung,
       AssembledIsSent, StoredWhole, SentIsKept, Stages

USE UploadAssumption, ChunkFacts

LEMMA FinishTypes ==
  ASSUME UploadsTyped, NEW r \in Sender, Finish(r)
  PROVE  /\ stage' \in [Sender -> Stages]
         /\ number' \in [Sender -> Chunk]
         /\ held' \in [Sender -> SUBSET Chunk]
         /\ remaining' \in [Sender -> SUBSET Chunk]
BY DEF UploadsTyped, Finish, Goto, Stages

LEMMA UploadsTypedStep == UploadsTyped /\ [Next]_vars => UploadsTyped'
<1> SUFFICES ASSUME UploadsTyped, [Next]_vars PROVE UploadsTyped'
  OBVIOUS
<1> USE DEF staged, request, history, Goto, Forget, Stages
<1>1. CASE UNCHANGED vars
  BY <1>1 DEF vars, UploadsTyped
<1>2. ASSUME NEW r \in Sender, NEW n \in Chunk, Start(r, n)
      PROVE  UploadsTyped'
  BY <1>2 DEF Start, UploadsTyped
<1>3. ASSUME NEW r \in Sender, Check(r) PROVE UploadsTyped'
  BY <1>3, FinishTypes DEF Check, UploadsTyped
<1>4. ASSUME NEW r \in Sender, MakeFolder(r) \/ Complete(r) PROVE UploadsTyped'
  BY <1>4 DEF MakeFolder, Complete, UploadsTyped
<1>5. ASSUME NEW r \in Sender, Open(r) PROVE UploadsTyped'
  BY <1>5, FinishTypes DEF Open, UploadsTyped
<1>6. ASSUME NEW r \in Sender, Write(r) PROVE UploadsTyped'
  BY <1>6, FinishTypes DEF Write, Told, UploadsTyped
<1>7. ASSUME NEW r \in Sender, PutChunk(r) PROVE UploadsTyped'
  BY <1>7, FinishTypes DEF PutChunk, Told, UploadsTyped
<1>8. ASSUME NEW r \in Sender, Confirm(r) \/ ListChunks(r) PROVE UploadsTyped'
  BY <1>8, FinishTypes DEF Confirm, ListChunks, UploadsTyped
<1>9. ASSUME NEW r \in Sender, ReadChunk(r) PROVE UploadsTyped'
  <2>1. number[r] \in Chunk /\ (number[r] < Total => number[r] + 1 \in Chunk)
    BY DEF UploadsTyped, Chunk
  <2> QED BY <1>9, <2>1, FinishTypes DEF ReadChunk, UploadsTyped
<1>10. ASSUME NEW r \in Sender, Store(r) PROVE UploadsTyped'
  BY <1>10, FinishTypes DEF Store, UploadsTyped
<1>11. ASSUME NEW r \in Sender, Clean(r) PROVE UploadsTyped'
  BY <1>11 DEF Clean, UploadsTyped, Present
<1>12. ASSUME NEW r \in Sender, DeleteChunks(r) PROVE UploadsTyped'
  BY <1>12, FinishTypes DEF DeleteChunks, Without, UploadsTyped
<1>13. ASSUME NEW r \in Sender, Cut(r) PROVE UploadsTyped'
  BY <1>13, FinishTypes DEF Cut, UploadsTyped
<1>14. CASE TimePasses
  BY <1>14 DEF TimePasses, UploadsTyped
<1>15. CASE FindOld \/ DeleteOld \/ Prune
  BY <1>15 DEF FindOld, DeleteOld, Prune, Without, UploadsTyped
<1> QED
  BY <1>1, <1>2, <1>3, <1>4, <1>5, <1>6, <1>7, <1>8, <1>9, <1>10, <1>11, <1>12, <1>13, <1>14,
     <1>15 DEF Next

\* What is stored has as many chunks as there are, so it has all of them.
LEMMA StoredStep == UploadsTyped /\ StoredWhole /\ [Next]_vars => StoredWhole'
<1> SUFFICES ASSUME UploadsTyped, StoredWhole, [Next]_vars PROVE StoredWhole'
  OBVIOUS
<1>1. ASSUME stored' = stored PROVE StoredWhole'
  BY <1>1 DEF StoredWhole
<1>2. ASSUME NEW r \in Sender, Store(r) PROVE StoredWhole'
  <2>1. AddsUp(r) => held[r] = Chunk
    BY AllChunks DEF AddsUp, UploadsTyped
  <2> QED BY <1>2, <2>1 DEF Store, StoredWhole, history, Chunk
<1> QED
  BY <1>1, <1>2
     DEF Next, vars, history, Start, Check, MakeFolder, Open, Write, PutChunk, Told, Complete,
         Confirm, ListChunks, ReadChunk, Clean, DeleteChunks, Cut, TimePasses, FindOld, DeleteOld,
         Prune

\* A record that is there outlives every chunk it counts for.
LEMMA QuietWhileCleaning ==
  UploadsInv /\ [Next]_vars => ((Cleaning \/ session = 0) => NothingCounts)'
<1> SUFFICES ASSUME UploadsInv, [Next]_vars, (Cleaning \/ session = 0)'
             PROVE  NothingCounts'
  OBVIOUS
<1> USE DEF UploadsInv, UploadsTyped, NothingCounts, staged, request, history, Goto, Finish, Forget
<1>1. CASE UNCHANGED vars
  BY <1>1 DEF vars, Cleaning
<1>2. ASSUME NEW r \in Sender, NEW n \in Chunk, Start(r, n)
      PROVE  NothingCounts'
  BY <1>2 DEF Start, Cleaning
<1>3. ASSUME NEW r \in Sender, Check(r) PROVE NothingCounts'
  <2>1. Cleaning \/ session = 0
    BY <1>3 DEF Check, Cleaning
  <2> QED BY <1>3, <2>1 DEF Check
<1>4. ASSUME NEW r \in Sender, MakeFolder(r) \/ Complete(r) PROVE NothingCounts'
  BY <1>4 DEF MakeFolder, Complete, Cleaning
<1>5. ASSUME NEW r \in Sender, Open(r) PROVE NothingCounts'
  <2>1. Cleaning \/ session = 0
    BY <1>5 DEF Open, Cleaning
  <2> QED BY <1>5, <2>1 DEF Open
<1>6. ASSUME NEW r \in Sender, Write(r) \/ PutChunk(r) PROVE NothingCounts'
  <2>1. Cleaning \/ session = 0
    BY <1>6 DEF Write, PutChunk, Told, Cleaning
  <2> QED BY <1>6, <2>1 DEF Write, PutChunk, Told
<1>7. ASSUME NEW r \in Sender, Confirm(r) \/ ListChunks(r) \/ ReadChunk(r) PROVE NothingCounts'
  BY <1>7 DEF Confirm, ListChunks, ReadChunk, Cleaning
<1>8. ASSUME NEW r \in Sender, Store(r) PROVE NothingCounts'
  BY <1>8 DEF Store, Cleaning
<1>9. ASSUME NEW r \in Sender, Clean(r) PROVE NothingCounts'
  BY <1>9 DEF Clean, Cleaning
<1>10. ASSUME NEW r \in Sender, DeleteChunks(r) PROVE NothingCounts'
  BY <1>10 DEF DeleteChunks, Cleaning
<1>11. ASSUME NEW r \in Sender, Cut(r) PROVE NothingCounts'
  BY <1>11 DEF Cut, Cleaning
<1>12. CASE TimePasses
  BY <1>12 DEF TimePasses, Cleaning
<1>13. CASE FindOld \/ DeleteOld \/ Prune
  BY <1>13 DEF FindOld, DeleteOld, Prune, Cleaning
<1> QED
  BY <1>1, <1>2, <1>3, <1>4, <1>5, <1>6, <1>7, <1>8, <1>9, <1>10, <1>11, <1>12, <1>13 DEF Next

\* What counts is kept: it is sent again at its own sender's risk, the janitor has no reason to
\* delete it, and nobody deletes it with an upload that is completed.
LEMMA CountedIsKept ==
  UploadsInv /\ [Next]_vars => SentIsYoung' /\ WrittenIsYoung' /\ SentIsKept'
<1> SUFFICES ASSUME UploadsInv, [Next]_vars
             PROVE  SentIsYoung' /\ WrittenIsYoung' /\ SentIsKept'
  OBVIOUS
<1> DEFINE Kept == SentIsYoung /\ WrittenIsYoung /\ SentIsKept
<1> USE DEF UploadsInv, UploadsTyped, NothingCounts, SentIsYoung, WrittenIsYoung, AssembledIsSent,
            SentIsKept, Young, staged, request, history, Goto, Finish, Forget
<1>1. CASE UNCHANGED vars
  BY <1>1 DEF vars
<1>2. ASSUME NEW r \in Sender, NEW n \in Chunk, Start(r, n)
      PROVE  Kept'
  BY <1>2 DEF Start
<1>3. ASSUME NEW r \in Sender, Check(r) PROVE Kept'
  BY <1>3 DEF Check
<1>4. ASSUME NEW r \in Sender, MakeFolder(r) \/ Complete(r) PROVE Kept'
  BY <1>4 DEF MakeFolder, Complete
<1>5. ASSUME NEW r \in Sender, Open(r) PROVE Kept'
  BY <1>5 DEF Open
<1>6. ASSUME NEW r \in Sender, Write(r) PROVE Kept'
  BY <1>6 DEF Write, Told
<1>7. ASSUME NEW r \in Sender, PutChunk(r) PROVE Kept'
  BY <1>7 DEF PutChunk, Told
<1>8. ASSUME NEW r \in Sender, Confirm(r) \/ ListChunks(r) \/ ReadChunk(r) PROVE Kept'
  BY <1>8 DEF Confirm, ListChunks, ReadChunk
<1>9. ASSUME NEW r \in Sender, Store(r) PROVE Kept'
  BY <1>9 DEF Store
<1>10. ASSUME NEW r \in Sender, Clean(r) PROVE Kept'
  BY <1>10 DEF Clean
<1>11. ASSUME NEW r \in Sender, DeleteChunks(r) PROVE Kept'
  <2>1. sent = {} /\ counted = {}
    BY <1>11 DEF DeleteChunks, Cleaning
  <2>2. sent' = {} /\ counted' = {}
    BY <1>11, <2>1 DEF DeleteChunks
  <2> QED BY <2>2
<1>12. ASSUME NEW r \in Sender, Cut(r) PROVE Kept'
  BY <1>12 DEF Cut
<1>13. CASE TimePasses
  BY <1>13 DEF TimePasses
<1>14. CASE FindOld
  BY <1>14 DEF FindOld, Old, Present
<1>15. CASE DeleteOld
  BY <1>15 DEF DeleteOld, Without
<1>16. CASE Prune
  BY <1>16 DEF Prune
<1> QED
  BY <1>1, <1>2, <1>3, <1>4, <1>5, <1>6, <1>7, <1>8, <1>9, <1>10, <1>11, <1>12, <1>13, <1>14,
     <1>15, <1>16 DEF Next

\* What is assembled is what the senders were told is there, for any senders, chunks and time.
THEOREM AssembledStaysSent == Spec => []AssembledIsSent
<1>1. UploadsInv /\ [Next]_vars => UploadsInv'
  BY UploadsTypedStep, StoredStep, QuietWhileCleaning, CountedIsKept
     DEF UploadsInv, AssembledIsSent
<1>2. UploadsInv => AssembledIsSent
  BY DEF UploadsInv
<1> QED BY UploadsInit, <1>1, <1>2, PTL DEF Spec
=============================================================================
