---------------------------- MODULE FilesProofs ----------------------------
(***************************************************************************)
(* What Files promises, for any number of requests and any bounds: the     *)
(* invariant FilesInv, that every step keeps it, and what follows.         *)
(***************************************************************************)
EXTENDS Files, Shelf, AuditTrail, FiniteSetTheorems, SequenceTheorems, WellFoundedInduction, TLAPS

Adding == {"exists", "store", "edit", "measure", "record"}
Writing == {"edit", "measure", "record", "undo"}
Owning == Writing \cup {"store"}

VersionRecord == [path : Path, content : Request, current : BOOLEAN, deleted : BOOLEAN]

RequestsTyped ==
  /\ pc \in [Request -> Labels] /\ kind \in [Request -> {"none", "upload", "modify", "delete"}]
  /\ path \in [Request -> Path \cup {NoPath}] /\ source \in [Request -> Path \cup {NoPath}]
  /\ content \in [Request -> Request \cup {NoContent}] /\ todo \in [Request -> SUBSET Path]

RecordsTyped == \A v \in DOMAIN records : records[v] \in VersionRecord /\ records[v].path.version = v

BytesTyped == DOMAIN bytes \subseteq Path /\ \A p \in DOMAIN bytes : bytes[p] \in Request

\* What a request at each step has.
Has(r) ==
  /\ pc[r] = "idle" <=> kind[r] = "none"
  /\ pc[r] \in Adding \cup {"undo", "demote"} => path[r] \in Path
  /\ pc[r] \in Adding => content[r] \in Request
  /\ pc[r] \in {"purge", "erase"} => purged

FilesTyped ==
  /\ RequestsTyped
  /\ RecordsTyped
  /\ BytesTyped
  /\ \A r \in Request : Has(r)
  /\ cuts \in 0 .. MaxCuts

\* Whoever found a path vacant has it for itself, with its bytes as soon as it wrote them.
Apart ==
  \A r, q \in Request : pc[r] \in Owning /\ pc[q] \in Owning /\ path[r] = path[q] => r = q

Placed(r) ==
  /\ pc[r] = "store" => Vacant(path[r])
  /\ pc[r] \in Writing => path[r] \in DOMAIN bytes
  /\ pc[r] \in Owning => path[r] \notin Paths
  /\ pc[r] = "record" => bytes[path[r]] = content[r]

Described ==
  \A v \in DOMAIN records :
    records[v].path \in DOMAIN bytes /\ bytes[records[v].path] = records[v].content

Separate == ~clashed /\ ~purged => Apart /\ (\A r \in Request : Placed(r)) /\ Described

\* Bytes without a record are those of a request that will record or remove them.
Claimed ==
  cuts = 0 /\ ~lost /\ ~clashed /\ ~purged =>
    \A p \in DOMAIN bytes : p \in Paths \/ \E r \in Request : pc[r] \in Writing /\ path[r] = p

\* Versions are numbered without gaps, and deleted all together.
Numbered ==
  ~purged =>
    /\ \A v \in DOMAIN records : \A w \in 1 .. v : w \in DOMAIN records
    /\ \A r \in Request : pc[r] \in Adding => \A w \in 1 .. path[r].version - 1 : w \in DOMAIN records
    /\ \A r \in Request : pc[r] = "demote" => path[r].version \in DOMAIN records
    /\ \A v, w \in DOMAIN records : v < w /\ records[w].deleted => records[v].deleted
    /\ \A v \in DOMAIN records : ~records[v].current => \E w \in DOMAIN records : v < w

\* A version that another has followed is current only until it is demoted.
Followed ==
  cuts = 0 /\ ~purged =>
    \A v, w \in DOMAIN records :
      v < w /\ records[v].current => \E r \in Request : pc[r] = "demote" /\ v < path[r].version

FilesInv == FilesTyped /\ Separate /\ Claimed /\ Numbered /\ Followed

-----------------------------------------------------------------------------
(* Operators.                                                              *)

LEMMA RestrictIs ==
  ASSUME NEW f, NEW S
  PROVE  DOMAIN Restrict(f, S) = S /\ \A x \in S : Restrict(f, S)[x] = f[x]
BY DEF Restrict

Less == {p \in Nat \X Nat : p[1] < p[2]}

LEMMA LessIsWellFounded == IsWellFoundedOn(Less, Nat)
<1>1. Less = OpToRel(<, Nat)
  BY DEF Less, OpToRel
<1> QED BY <1>1, NatLessThanWellFounded

\* A part of a finite set has fewer elements.
LEMMA Fewer ==
  ASSUME NEW S, IsFiniteSet(S), NEW U \in SUBSET S, U # S
  PROVE  Cardinality(U) <= Cardinality(S) /\ Cardinality(U) # Cardinality(S)
BY FS_Subset

\* Of finitely many things that are ordered some have nothing before them.
LEMMA ExtremeExists ==
  ASSUME NEW S, IsFiniteSet(S), S # {}, NEW R,
         \A x \in S : <<x, x>> \notin R,
         \A x, y, z \in S : <<x, y>> \in R /\ <<y, z>> \in R => <<x, z>> \in R
  PROVE  \E x \in S : \A y \in S : <<y, x>> \notin R
<1> DEFINE Ahead(x) == {y \in S : <<y, x>> \in R}
           T == {Cardinality(Ahead(x)) : x \in S}
<1>1. \A x \in S : IsFiniteSet(Ahead(x)) /\ Cardinality(Ahead(x)) \in Nat
  <2> SUFFICES ASSUME NEW x \in S PROVE IsFiniteSet(Ahead(x)) /\ Cardinality(Ahead(x)) \in Nat
    OBVIOUS
  <2>1. Ahead(x) \in SUBSET S
    OBVIOUS
  <2>2. IsFiniteSet(Ahead(x))
    BY <2>1, FS_Subset
  <2> QED BY <2>2, FS_CardinalityType
<1>2. T \subseteq Nat /\ T # {}
  <2> HIDE DEF Ahead
  <2>1. \A t \in T : t \in Nat
    BY <1>1
  <2>2. PICK x \in S : TRUE
    OBVIOUS
  <2>3. Cardinality(Ahead(x)) \in T
    OBVIOUS
  <2> QED BY <2>1, <2>3
<1>3. PICK t \in T : \A u \in T : <<u, t>> \notin Less
  BY <1>2, LessIsWellFounded, WFMin
<1>4. PICK x \in S : t = Cardinality(Ahead(x))
  OBVIOUS
<1>5. ASSUME NEW y \in S, <<y, x>> \in R PROVE FALSE
  <2>1. Ahead(y) \in SUBSET Ahead(x)
    BY <1>5
  <2>2. y \in Ahead(x) /\ y \notin Ahead(y)
    BY <1>5
  <2>3. Cardinality(Ahead(y)) <= Cardinality(Ahead(x)) /\ Cardinality(Ahead(y)) # Cardinality(Ahead(x))
    <3>1. IsFiniteSet(Ahead(x)) /\ Ahead(y) # Ahead(x)
      BY <1>1, <2>2
    <3> DEFINE A == Ahead(x)
               B == Ahead(y)
    <3>2. IsFiniteSet(A) /\ B \in SUBSET A /\ B # A
      BY <2>1, <3>1
    <3> HIDE DEF A, B
    <3>3. Cardinality(B) <= Cardinality(A) /\ Cardinality(B) # Cardinality(A)
      BY ONLY <3>2, Fewer
    <3> QED BY <3>3 DEF A, B
  <2>4. Cardinality(Ahead(y)) \in T
    OBVIOUS
  <2>5. Cardinality(Ahead(y)) \in Nat /\ Cardinality(Ahead(x)) \in Nat
    BY <1>1
  <2>6. Cardinality(Ahead(y)) < Cardinality(Ahead(x))
    BY <2>3, <2>5
  <2>7. <<Cardinality(Ahead(y)), t>> \in Less
    BY <2>5, <2>6, <1>4 DEF Less
  <2> QED BY <1>3, <2>4, <2>7
<1> QED BY <1>5

\* Some versions have a newest one.
LEMMA GreatestIs ==
  ASSUME NEW n \in Nat, NEW S \in SUBSET (1 .. n), S # {}
  PROVE  Max(S) \in S /\ \A v \in S : v <= Max(S)
<1> DEFINE T == {n - v : v \in S}
<1>1. T \in SUBSET Nat /\ T # {}
  <2>1. \A v \in S : v \in 1 .. n
    OBVIOUS
  <2>2. \A v \in S : n - v \in Nat
    BY <2>1
  <2> QED BY <2>2
<1>2. PICK x \in T : \A y \in T : <<y, x>> \notin Less
  BY <1>1, LessIsWellFounded, WFMin
<1>3. PICK m \in S : x = n - m
  OBVIOUS
<1>4. ASSUME NEW v \in S PROVE m >= v
  <2>1. n - v \in T /\ n - v \in Nat /\ x \in Nat
    BY <1>1
  <2>2. <<n - v, x>> \notin Less
    BY <1>2, <2>1
  <2>3. ~(n - v < x)
    BY <2>1, <2>2 DEF Less
  <2> QED BY <1>3, <2>3
<1> HIDE DEF T
<1> QED BY <1>4 DEF Max

LEMMA NewestIs ==
  ASSUME BoundsAssumption, RecordsTyped, Live # {}
  PROVE  /\ Newest \in Live /\ Newest \in 1 .. MaxVersions /\ Newest \in DOMAIN records
         /\ \A v \in Live : v <= Newest
<1>1. \A v \in DOMAIN records : v \in 1 .. MaxVersions
  BY DEF RecordsTyped, VersionRecord, Path
<1>2. Live \in SUBSET (1 .. MaxVersions) /\ MaxVersions \in Nat
  BY <1>1 DEF Live, BoundsAssumption
<1>3. PICK n, S : n = MaxVersions /\ S = Live
  OBVIOUS
<1>4. Max(S) \in S /\ \A v \in S : v <= Max(S)
  BY <1>2, <1>3, GreatestIs
<1> QED BY <1>2, <1>3, <1>4 DEF Newest, Live

-----------------------------------------------------------------------------
(* Requests.                                                               *)

Others(r) ==
  \A q \in Request \ {r} :
    /\ pc'[q] = pc[q] /\ kind'[q] = kind[q] /\ path'[q] = path[q]
    /\ content'[q] = content[q]

Kinds == {"none", "upload", "modify", "delete"}
Paths0 == Path \cup {NoPath}
Contents == Request \cup {NoContent}

LEMMA RequestStep ==
  ASSUME RequestsTyped, NEW r \in Request, NEW label \in Labels, NEW what \in Kinds,
         NEW p \in Paths0, NEW s \in Paths0, NEW c \in Contents, NEW t \in SUBSET Path,
         pc' = [pc EXCEPT ![r] = label], kind' = [kind EXCEPT ![r] = what],
         path' = [path EXCEPT ![r] = p], source' = [source EXCEPT ![r] = s],
         content' = [content EXCEPT ![r] = c], todo' = [todo EXCEPT ![r] = t]
  PROVE  /\ RequestsTyped' /\ Others(r)
         /\ pc'[r] = label /\ kind'[r] = what /\ path'[r] = p /\ content'[r] = c
BY DEF RequestsTyped, Others, Kinds, Paths0, Contents

LEMMA FinishStep ==
  ASSUME RequestsTyped, NEW r \in Request, Finish(r)
  PROVE  RequestsTyped' /\ Others(r) /\ pc'[r] = "idle" /\ kind'[r] = "none"
<1>1. /\ "idle" \in Labels /\ "none" \in Kinds /\ NoPath \in Paths0 /\ NoContent \in Contents
      /\ {} \in SUBSET Path
  BY DEF Labels, Kinds, Paths0, Contents
<1>2. /\ pc' = [pc EXCEPT ![r] = "idle"] /\ kind' = [kind EXCEPT ![r] = "none"]
      /\ path' = [path EXCEPT ![r] = NoPath] /\ source' = [source EXCEPT ![r] = NoPath]
      /\ content' = [content EXCEPT ![r] = NoContent] /\ todo' = [todo EXCEPT ![r] = {}]
  BY DEF Finish, Goto
<1> QED BY <1>1, <1>2, RequestStep

LEMMA Holding ==
  ASSUME RequestsTyped, NEW r \in Request
  PROVE  \E label \in Labels, what \in Kinds : \E p \in Paths0, s \in Paths0 :
           \E c \in Contents, t \in SUBSET Path :
             /\ label = pc[r] /\ what = kind[r] /\ p = path[r] /\ s = source[r]
             /\ c = content[r] /\ t = todo[r]
             /\ pc = [pc EXCEPT ![r] = label]
             /\ kind = [kind EXCEPT ![r] = what] /\ path = [path EXCEPT ![r] = p]
             /\ source = [source EXCEPT ![r] = s] /\ content = [content EXCEPT ![r] = c]
             /\ todo = [todo EXCEPT ![r] = t]
<1>1. /\ pc[r] \in Labels /\ kind[r] \in Kinds /\ path[r] \in Paths0 /\ source[r] \in Paths0
      /\ content[r] \in Contents /\ todo[r] \in SUBSET Path
  BY DEF RequestsTyped, Kinds, Paths0, Contents
<1>2. /\ pc = [pc EXCEPT ![r] = pc[r]] /\ kind = [kind EXCEPT ![r] = kind[r]]
      /\ path = [path EXCEPT ![r] = path[r]] /\ source = [source EXCEPT ![r] = source[r]]
      /\ content = [content EXCEPT ![r] = content[r]] /\ todo = [todo EXCEPT ![r] = todo[r]]
  BY DEF RequestsTyped
<1>3. PICK label \in Labels, what \in Kinds : label = pc[r] /\ what = kind[r]
  BY <1>1
<1>4. PICK p \in Paths0, s \in Paths0 : p = path[r] /\ s = source[r]
  BY <1>1
<1>5. PICK c \in Contents, t \in SUBSET Path : c = content[r] /\ t = todo[r]
  BY <1>1
<1> WITNESS label \in Labels, what \in Kinds
<1> WITNESS p \in Paths0, s \in Paths0
<1> WITNESS c \in Contents, t \in SUBSET Path
<1> QED BY <1>2, <1>3, <1>4, <1>5

\* A request goes on with what it has.
LEMMA GotoStep ==
  ASSUME RequestsTyped, NEW r \in Request, NEW label \in Labels, Goto(r, label),
         UNCHANGED <<kind, path, source, content, todo>>
  PROVE  RequestsTyped' /\ Others(r) /\ pc'[r] = label
<1>1. pc' = [pc EXCEPT ![r] = label] /\ UNCHANGED <<kind, path, source, content, todo>>
  BY DEF Goto
<1>2. RequestsTyped'
  BY <1>1 DEF RequestsTyped
<1>3. Others(r) /\ pc'[r] = label
  BY <1>1 DEF RequestsTyped, Others
<1> QED BY <1>2, <1>3

\* Or with its path only.
LEMMA ForgetStep ==
  ASSUME RequestsTyped, NEW r \in Request, NEW label \in Labels, Goto(r, label), Forget(r)
  PROVE  RequestsTyped' /\ Others(r) /\ pc'[r] = label /\ UNCHANGED <<kind, path>>
<1>1. /\ kind[r] \in Kinds /\ path[r] \in Paths0 /\ todo[r] \in SUBSET Path
      /\ NoPath \in Paths0 /\ NoContent \in Contents
  BY DEF RequestsTyped, Kinds, Paths0, Contents
<1>2. /\ kind = [kind EXCEPT ![r] = kind[r]] /\ path = [path EXCEPT ![r] = path[r]]
      /\ todo = [todo EXCEPT ![r] = todo[r]]
  BY DEF RequestsTyped
<1>3. PICK what \in Kinds, p \in Paths0, t \in SUBSET Path : what = kind[r] /\ p = path[r] /\ t = todo[r]
  BY <1>1
<1>4. /\ pc' = [pc EXCEPT ![r] = label] /\ kind' = [kind EXCEPT ![r] = what]
      /\ path' = [path EXCEPT ![r] = p] /\ source' = [source EXCEPT ![r] = NoPath]
      /\ content' = [content EXCEPT ![r] = NoContent] /\ todo' = [todo EXCEPT ![r] = t]
  BY <1>2, <1>3 DEF Goto, Forget
<1>5. RequestsTyped' /\ Others(r) /\ pc'[r] = label
  BY <1>1, <1>4, RequestStep
<1> QED BY <1>5 DEF Forget

\* The others have what they had.
LEMMA TypesStay ==
  ASSUME FilesTyped, NEW r \in Request, Others(r), RequestsTyped', RecordsTyped', BytesTyped',
         Has(r)', purged => purged', cuts' \in 0 .. MaxCuts
  PROVE  FilesTyped'
<1> SUFFICES ASSUME NEW q \in Request, q # r PROVE Has(q)'
  BY DEF FilesTyped
<1> QED BY DEF FilesTyped, Has, Others

LEMMA Facts ==
  ASSUME FilesInv
  PROVE  /\ FilesTyped /\ RequestsTyped /\ RecordsTyped /\ BytesTyped /\ cuts \in 0 .. MaxCuts
         /\ Separate /\ Claimed /\ Numbered /\ Followed
         /\ \A r \in Request : Has(r) /\ pc[r] \in Labels
BY DEF FilesInv, FilesTyped, RequestsTyped

LEMMA SamePaths ==
  ASSUME UNCHANGED records
  PROVE  Paths' = Paths
BY DEF Paths

-----------------------------------------------------------------------------
(* Steps that change neither records nor bytes.                            *)

\* What a request is about to write to is its own.
Alone(r) ==
  pc'[r] \in Owning =>
    \A q \in Request \ {r} : pc[q] \in Owning => path[q] # path'[r]

LEMMA ApartStays ==
  ASSUME Apart, NEW r \in Request, Others(r), Alone(r)
  PROVE  Apart'
BY DEF Apart, Others, Alone

LEMMA PlacesStay ==
  ASSUME \A q \in Request : Placed(q), NEW r \in Request, Others(r), Placed(r)',
         UNCHANGED <<records, bytes>>
  PROVE  \A q \in Request : Placed(q)'
<1> SUFFICES ASSUME NEW q \in Request, q # r PROVE Placed(q)'
  OBVIOUS
<1>1. Paths' = Paths
  BY SamePaths
<1>2. /\ pc'[q] = pc[q] /\ path'[q] = path[q] /\ content'[q] = content[q] /\ Placed(q)
      /\ bytes' = bytes
  BY DEF Others
<1> QED BY <1>1, <1>2 DEF Placed, Vacant

LEMMA QuietStep ==
  ASSUME FilesInv, NEW r \in Request, Others(r), RequestsTyped', Has(r)',
         UNCHANGED <<records, bytes, purged>>, cuts' \in 0 .. MaxCuts,
         clashed => clashed', lost => lost', cuts' = 0 => cuts = 0,
         ~clashed' /\ ~purged => Placed(r)' /\ Alone(r),
         cuts' = 0 /\ ~lost' /\ ~clashed' /\ ~purged /\ pc[r] \in Writing
           => pc'[r] \in Writing /\ path'[r] = path[r],
         ~purged /\ pc'[r] \in Adding => \A w \in 1 .. path'[r].version - 1 : w \in DOMAIN records,
         pc'[r] # "demote", pc[r] = "demote" => cuts' # 0
  PROVE  FilesInv'
<1>1. FilesTyped'
  <2>1. RecordsTyped' /\ BytesTyped'
    BY Facts DEF RecordsTyped, BytesTyped
  <2> QED BY <2>1, TypesStay, Facts
<1>2. Paths' = Paths
  BY SamePaths
<1>3. Separate'
  <2> SUFFICES ASSUME ~clashed', ~purged
               PROVE  Apart' /\ (\A q \in Request : Placed(q)') /\ Described'
    BY DEF Separate
  <2>1. Apart /\ (\A q \in Request : Placed(q)) /\ Described
    BY Facts DEF Separate
  <2>2. Apart' /\ (\A q \in Request : Placed(q)')
    BY <2>1, ApartStays, PlacesStay
  <2> QED BY <2>1, <2>2 DEF Described
<1>4. Claimed'
  <2> SUFFICES ASSUME cuts' = 0, ~lost', ~clashed', ~purged, NEW x \in DOMAIN bytes, x \notin Paths
               PROVE  \E q \in Request : pc'[q] \in Writing /\ path'[q] = x
    BY <1>2 DEF Claimed
  <2>1. PICK q \in Request : pc[q] \in Writing /\ path[q] = x
    BY Facts DEF Claimed
  <2> QED BY <2>1 DEF Others
<1>5. Numbered'
  <2> SUFFICES ASSUME ~purged
               PROVE  /\ \A q \in Request :
                           pc'[q] \in Adding => \A w \in 1 .. path'[q].version - 1 : w \in DOMAIN records
                      /\ \A q \in Request : pc'[q] = "demote" => path'[q].version \in DOMAIN records
    BY Facts DEF Numbered
  <2> QED BY Facts DEF Numbered, Others
<1>6. Followed'
  <2> SUFFICES ASSUME cuts' = 0, ~purged, NEW v \in DOMAIN records, NEW w \in DOMAIN records,
                      v < w, records[v].current
               PROVE  \E q \in Request : pc'[q] = "demote" /\ v < path'[q].version
    BY DEF Followed
  <2>1. PICK q \in Request : pc[q] = "demote" /\ v < path[q].version
    BY Facts DEF Followed
  <2> QED BY <2>1 DEF Others
<1> QED BY <1>1, <1>3, <1>4, <1>5, <1>6 DEF FilesInv

\* A request that ends has left nothing.
LEMMA FinishQuietly ==
  ASSUME FilesInv, NEW r \in Request, Finish(r),
         UNCHANGED <<records, bytes, purged, clashed>>, cuts' \in 0 .. MaxCuts,
         lost => lost', cuts' = 0 => cuts = 0,
         pc[r] \in Writing => lost' \/ cuts' # 0,
         pc[r] = "demote" => cuts' # 0
  PROVE  FilesInv'
<1>1. RequestsTyped' /\ Others(r) /\ pc'[r] = "idle" /\ kind'[r] = "none"
  BY FinishStep, Facts
<1>2. Has(r)'
  BY <1>1 DEF Has, Adding
<1>3. Placed(r)' /\ Alone(r) /\ pc'[r] \notin Adding
  BY <1>1 DEF Placed, Alone, Owning, Writing, Adding
<1> QED BY <1>1, <1>2, <1>3, QuietStep

LEMMA AddKeeps ==
  ASSUME FilesInv, NEW r \in Request, pc[r] = "idle", NEW what \in {"upload", "modify"},
         NEW p \in Path, NEW from \in Path \cup {NoPath}, Add(r, what, p, from),
         ~purged => \A w \in 1 .. p.version - 1 : w \in DOMAIN records
  PROVE  FilesInv'
<1>1. /\ pc' = [pc EXCEPT ![r] = "exists"] /\ kind' = [kind EXCEPT ![r] = what]
      /\ path' = [path EXCEPT ![r] = p] /\ source' = [source EXCEPT ![r] = from]
      /\ content' = [content EXCEPT ![r] = r]
      /\ UNCHANGED <<records, bytes, todo, clashed, lost, purged, cuts>>
  BY DEF Add, Goto, history
<1>2. /\ RequestsTyped' /\ Others(r)
      /\ pc'[r] = "exists" /\ kind'[r] = what /\ path'[r] = p /\ content'[r] = r
  <2>1. RequestsTyped
    BY Facts
  <2>2. RequestsTyped'
    BY <1>1, <2>1 DEF RequestsTyped, Labels
  <2> QED BY <1>1, <2>1, <2>2 DEF RequestsTyped, Others
<1>3. Has(r)'
  BY <1>2 DEF Has, Adding
<1>4. Placed(r)' /\ Alone(r)
  BY <1>2 DEF Placed, Alone, Owning, Writing
<1> QED BY <1>1, <1>2, <1>3, <1>4, QuietStep, Facts DEF Writing

LEMMA NextPath ==
  ASSUME FilesInv, BoundsAssumption, Live # {}, Newest < MaxVersions
  PROVE  /\ Newest \in Nat /\ Newest + 1 \in 1 .. MaxVersions /\ records[Newest].path \in Path
         /\ ~purged => \A w \in 1 .. Newest + 1 - 1 : w \in DOMAIN records
<1>1. Newest \in 1 .. MaxVersions /\ Newest \in DOMAIN records
  BY NewestIs, Facts
<1>2. records[Newest].path \in Path
  BY <1>1, Facts DEF RecordsTyped, VersionRecord
<1>3. 1 .. Newest + 1 - 1 = 1 .. Newest
  BY <1>1
<1>4. ~purged => \A w \in 1 .. Newest : w \in DOMAIN records
  BY <1>1, Facts DEF Numbered
<1> QED BY <1>1, <1>2, <1>3, <1>4 DEF BoundsAssumption

LEMMA AddingKeeps ==
  ASSUME FilesInv, BoundsAssumption, NEW r \in Request,
         \/ \E n \in Name :
              \/ Create(r, n)
              \/ Upload(r, n)
         \/ Modify(r)
  PROVE  FilesInv'
<1>1. ASSUME NEW n \in Name, Create(r, n) PROVE FilesInv'
  <2>1. PICK p : p = [version |-> 1, name |-> n]
    OBVIOUS
  <2>2. p \in Path /\ 1 .. p.version - 1 = {} /\ NoPath \in Path \cup {NoPath}
    BY <2>1 DEF Path, BoundsAssumption
  <2>3. pc[r] = "idle" /\ Add(r, "upload", p, NoPath)
    BY <1>1, <2>1 DEF Create
  <2> QED BY <2>2, <2>3, AddKeeps
<1>2. ASSUME NEW n \in Name, Upload(r, n) PROVE FilesInv'
  <2>1. PICK p : p = [version |-> Newest + 1, name |-> n]
    OBVIOUS
  <2>2. pc[r] = "idle" /\ Live # {} /\ Newest < MaxVersions /\ Add(r, "upload", p, NoPath)
    BY <1>2, <2>1 DEF Upload
  <2>3. p \in Path /\ p.version = Newest + 1 /\ NoPath \in Path \cup {NoPath}
    BY <2>1, <2>2, NextPath DEF Path
  <2>4. ~purged => \A w \in 1 .. p.version - 1 : w \in DOMAIN records
    <3>1. ~purged => \A w \in 1 .. Newest + 1 - 1 : w \in DOMAIN records
      BY <2>2, NextPath
    <3>2. p.version = Newest + 1 /\ Newest \in Nat
      BY <2>2, <2>3, NextPath
    <3> QED BY <3>1, <3>2
  <2> QED BY <2>2, <2>3, <2>4, AddKeeps
<1>3. CASE Modify(r)
  <2>1. PICK latest : latest = records[Newest].path
    OBVIOUS
  <2>2. PICK p : p = [latest EXCEPT !.version = Newest + 1]
    OBVIOUS
  <2>3. pc[r] = "idle" /\ Live # {} /\ Newest < MaxVersions /\ Add(r, "modify", p, latest)
    BY <1>3, <2>1, <2>2 DEF Modify
  <2>4. latest \in Path /\ Newest + 1 \in 1 .. MaxVersions
    BY <2>1, <2>3, NextPath
  <2>5. p \in Path /\ p.version = Newest + 1 /\ latest \in Path \cup {NoPath}
    BY <2>2, <2>4 DEF Path
  <2>6. ~purged => \A w \in 1 .. p.version - 1 : w \in DOMAIN records
    <3>1. ~purged => \A w \in 1 .. Newest + 1 - 1 : w \in DOMAIN records
      BY <2>3, NextPath
    <3>2. p.version = Newest + 1 /\ Newest \in Nat
      BY <2>3, <2>5, NextPath
    <3> QED BY <3>1, <3>2
  <2> QED BY <2>3, <2>5, <2>6, AddKeeps
<1> QED BY <1>1, <1>2, <1>3

LEMMA ExistsKeeps ==
  ASSUME FilesInv, NEW r \in Request, Exists(r)
  PROVE  FilesInv'
<1>1. pc[r] = "exists" /\ UNCHANGED <<records, bytes, lost, purged, cuts>>
  BY DEF Exists
<1>2. CASE ~Vacant(path[r])
  <2>1. Finish(r) /\ UNCHANGED clashed
    BY <1>2 DEF Exists
  <2> QED BY <1>1, <2>1, FinishQuietly, Facts DEF Writing
<1>3. CASE Vacant(path[r])
  <2>1. /\ Goto(r, "store") /\ UNCHANGED <<kind, path, source, content, todo>>
        /\ clashed' = (clashed \/ \E q \in Request : pc[q] = "store" /\ path[q] = path[r])
    BY <1>3 DEF Exists
  <2>2. RequestsTyped' /\ Others(r) /\ pc'[r] = "store"
    BY <2>1, GotoStep, Facts DEF Labels
  <2>3. Has(r)'
    BY <1>1, <2>1, <2>2, Facts DEF Has, Adding
  <2>4. ~clashed' /\ ~purged => Placed(r)' /\ Alone(r)
    <3> SUFFICES ASSUME ~clashed', ~purged PROVE Placed(r)' /\ Alone(r)
      OBVIOUS
    <3>1. ~clashed /\ \A q \in Request : pc[q] = "store" => path[q] # path[r]
      BY <2>1
    <3>2. (\A q \in Request : Placed(q)) /\ Described
      BY <3>1, Facts DEF Separate
    <3>3. path[r] \notin Paths
      BY <1>3, <3>2 DEF Described, Vacant, Paths
    <3>4. Placed(r)'
      <4>1. Paths' = Paths
        BY <1>1, SamePaths
      <4> QED BY <1>1, <1>3, <2>1, <2>2, <3>3, <4>1 DEF Placed, Owning, Writing, Vacant
    <3>5. \A q \in Request : pc[q] \in Writing => path[q] # path[r]
      BY <1>3, <3>2 DEF Placed, Vacant
    <3> QED BY <2>1, <3>1, <3>4, <3>5 DEF Alone, Owning
  <2>5. ~purged => \A w \in 1 .. path'[r].version - 1 : w \in DOMAIN records
    BY <1>1, <2>1, Facts DEF Numbered, Adding
  <2>6. cuts' \in 0 .. MaxCuts /\ (clashed => clashed') /\ pc[r] \notin Writing
    BY <1>1, <2>1, Facts DEF Writing
  <2> QED BY <1>1, <2>2, <2>3, <2>4, <2>5, <2>6, QuietStep
<1> QED BY <1>2, <1>3

LEMMA RejectKeeps ==
  ASSUME FilesInv, NEW r \in Request, Undone(r), pc[r] \in Writing \ {"undo"},
         UNCHANGED <<records, bytes, clashed, lost, purged, cuts>>
  PROVE  FilesInv'
<1>1. RequestsTyped' /\ Others(r) /\ pc'[r] = "undo" /\ UNCHANGED <<kind, path>>
  BY ForgetStep, Facts DEF Undone, Labels
<1>2. Has(r)'
  BY <1>1, Facts DEF Has, Adding, Writing
<1>3. ~clashed' /\ ~purged => Placed(r)' /\ Alone(r)
  <2> SUFFICES ASSUME ~clashed, ~purged PROVE Placed(r)' /\ Alone(r)
    OBVIOUS
  <2>1. Apart /\ Placed(r)
    BY Facts DEF Separate
  <2>2. Paths' = Paths
    BY SamePaths
  <2>3. Placed(r)'
    BY <1>1, <2>1, <2>2 DEF Placed, Owning, Writing, Vacant
  <2>4. Alone(r)
    BY <1>1, <2>1 DEF Alone, Apart, Owning, Writing
  <2> QED BY <2>3, <2>4
<1>4. pc'[r] \notin Adding /\ pc'[r] \in Writing /\ path'[r] = path[r] /\ pc[r] # "demote"
  BY <1>1 DEF Adding, Writing
<1> QED BY <1>1, <1>2, <1>3, <1>4, QuietStep, Facts

LEMMA MeasureKeeps ==
  ASSUME FilesInv, NEW r \in Request, Measure(r)
  PROVE  FilesInv'
<1>1. /\ pc[r] = "measure" /\ path[r] \in DOMAIN bytes
      /\ content' = [content EXCEPT ![r] = bytes[path[r]]] /\ pc' = [pc EXCEPT ![r] = "record"]
      /\ UNCHANGED <<records, bytes, kind, path, source, todo, clashed, lost, purged, cuts>>
  BY DEF Measure, Goto, history
<1>2. bytes[path[r]] \in Request
  BY <1>1, Facts DEF BytesTyped
<1>3. RequestsTyped' /\ Others(r) /\ pc'[r] = "record" /\ content'[r] = bytes[path[r]]
  BY <1>1, <1>2, Facts DEF RequestsTyped, Others, Labels
<1>4. Has(r)'
  BY <1>1, <1>2, <1>3, Facts DEF Has, Adding
<1>5. ~clashed' /\ ~purged => Placed(r)' /\ Alone(r)
  <2> SUFFICES ASSUME ~clashed, ~purged PROVE Placed(r)' /\ Alone(r)
    BY <1>1
  <2>1. Apart /\ Placed(r)
    BY Facts DEF Separate
  <2>2. Paths' = Paths
    BY <1>1, SamePaths
  <2>3. Placed(r)'
    BY <1>1, <1>3, <2>1, <2>2 DEF Placed, Owning, Writing, Vacant
  <2>4. Alone(r)
    BY <1>1, <1>3, <2>1 DEF Alone, Apart, Owning, Writing
  <2> QED BY <2>3, <2>4
<1>6. pc'[r] \in Writing /\ path'[r] = path[r] /\ pc[r] # "demote" /\ pc'[r] # "demote"
  BY <1>1, <1>3 DEF Writing
<1>7. ~purged => \A w \in 1 .. path'[r].version - 1 : w \in DOMAIN records
  BY <1>1, Facts DEF Numbered, Adding
<1> QED BY <1>1, <1>3, <1>4, <1>5, <1>6, <1>7, QuietStep, Facts

LEMMA EndingKeeps ==
  ASSUME FilesInv, BoundsAssumption, NEW r \in Request,
         \/ Refuse(r)
         \/ Cut(r)
         \/ Reject(r)
  PROVE  FilesInv'
<1>1. CASE Refuse(r)
  <2>1. /\ pc[r] \in {"exists", "store"} /\ Finish(r)
        /\ UNCHANGED <<records, bytes, clashed, lost, purged, cuts>>
    BY <1>1 DEF Refuse, history
  <2> QED BY <2>1, FinishQuietly, Facts DEF Writing
<1>2. CASE Cut(r)
  <2>1. /\ Finish(r) /\ cuts < MaxCuts /\ cuts' = cuts + 1
        /\ UNCHANGED <<records, bytes, clashed, lost, purged>>
    BY <1>2 DEF Cut
  <2>2. cuts' \in 0 .. MaxCuts /\ cuts' # 0
    BY <2>1, Facts DEF BoundsAssumption
  <2> QED BY <2>1, <2>2, FinishQuietly
<1>3. CASE Reject(r)
  <2>1. /\ pc[r] \in {"record", "edit", "measure"} /\ Undone(r)
        /\ UNCHANGED <<records, bytes, clashed, lost, purged, cuts>>
    BY <1>3 DEF Reject, history
  <2> QED BY <2>1, RejectKeeps DEF Writing
<1> QED BY <1>1, <1>2, <1>3

-----------------------------------------------------------------------------
(* Steps that change the bytes at a path.                                  *)

LEMMA BytesStep ==
  ASSUME FilesInv, NEW r \in Request, Others(r), RequestsTyped', Has(r)', BytesTyped',
         UNCHANGED <<records, clashed, lost, purged, cuts>>,
         pc[r] \in Owning, NEW p \in Path, p = path[r],
         \A x \in Path \ {p} : /\ x \in DOMAIN bytes' <=> x \in DOMAIN bytes
                               /\ x \in DOMAIN bytes => bytes'[x] = bytes[x],
         pc'[r] \in {"idle", "edit", "measure", "record"},
         pc'[r] # "idle" => path'[r] = p /\ p \in DOMAIN bytes' /\ pc[r] \in Adding,
         pc'[r] = "record" => bytes'[p] = content'[r],
         pc'[r] = "idle" => p \notin DOMAIN bytes'
  PROVE  FilesInv'
<1>1. FilesTyped'
  <2>1. RecordsTyped'
    BY Facts DEF RecordsTyped
  <2> QED BY <2>1, TypesStay, Facts
<1>2. Paths' = Paths
  BY SamePaths
<1>3. Separate'
  <2> SUFFICES ASSUME ~clashed, ~purged
               PROVE  Apart' /\ (\A q \in Request : Placed(q)') /\ Described'
    BY DEF Separate
  <2>1. Apart /\ (\A q \in Request : Placed(q)) /\ Described
    BY Facts DEF Separate
  <2>2. Alone(r)
    BY <2>1 DEF Alone, Apart, Owning, Writing
  <2>3. Apart'
    BY <2>1, <2>2, ApartStays
  <2>4. p \notin Paths
    BY <2>1 DEF Placed
  <2>5. Placed(r)'
    BY <1>2, <2>4 DEF Placed, Owning, Writing
  <2>6. ASSUME NEW q \in Request, q # r PROVE Placed(q)'
    <3>1. /\ pc'[q] = pc[q] /\ path'[q] = path[q] /\ content'[q] = content[q] /\ Placed(q)
      BY <2>1, <2>6 DEF Others
    <3>2. pc[q] \in Owning => path[q] # p /\ path[q] \in Path
      BY <2>1, <2>6, Facts DEF Apart, Has, Owning, Writing, Adding
    <3> QED BY <1>2, <3>1, <3>2 DEF Placed, Vacant, Owning, Writing
  <2>7. Described'
    <3>1. \A v \in DOMAIN records : records[v].path \in Path \ {p}
      BY <2>4, Facts DEF RecordsTyped, VersionRecord, Paths
    <3> QED BY <2>1, <3>1 DEF Described
  <2> QED BY <2>3, <2>5, <2>6, <2>7
<1>4. Claimed'
  <2> SUFFICES ASSUME cuts = 0, ~lost, ~clashed, ~purged, NEW x \in DOMAIN bytes', x \notin Paths
               PROVE  \E q \in Request : pc'[q] \in Writing /\ path'[q] = x
    BY <1>2 DEF Claimed
  <2>1. CASE x = p
    BY <2>1 DEF Writing
  <2>2. CASE x # p
    <3>1. x \in DOMAIN bytes
      BY <2>2 DEF BytesTyped
    <3>2. PICK q \in Request : pc[q] \in Writing /\ path[q] = x
      BY <3>1, Facts DEF Claimed
    <3> QED BY <2>2, <3>2 DEF Others
  <2> QED BY <2>1, <2>2
<1>5. Numbered'
  <2> SUFFICES ASSUME ~purged
               PROVE  /\ \A q \in Request :
                           pc'[q] \in Adding => \A w \in 1 .. path'[q].version - 1 : w \in DOMAIN records
                      /\ \A q \in Request : pc'[q] = "demote" => path'[q].version \in DOMAIN records
    BY Facts DEF Numbered
  <2>1. pc'[r] \in Adding => pc[r] \in Adding /\ path'[r] = path[r]
    BY DEF Adding
  <2> QED BY <2>1, Facts DEF Numbered, Others
<1>6. Followed'
  <2> SUFFICES ASSUME cuts = 0, ~purged, NEW v \in DOMAIN records, NEW w \in DOMAIN records,
                      v < w, records[v].current
               PROVE  \E q \in Request : pc'[q] = "demote" /\ v < path'[q].version
    BY DEF Followed
  <2>1. PICK q \in Request : pc[q] = "demote" /\ v < path[q].version
    BY Facts DEF Followed
  <2>2. q # r
    BY <2>1 DEF Owning, Writing
  <2> QED BY <2>1, <2>2 DEF Others
<1> QED BY <1>1, <1>3, <1>4, <1>5, <1>6 DEF FilesInv

LEMMA StoreKeeps ==
  ASSUME FilesInv, NEW r \in Request, Store(r)
  PROVE  FilesInv'
<1>1. /\ pc[r] = "store" /\ UNCHANGED <<kind, path, source, content, todo>>
      /\ UNCHANGED <<records, clashed, lost, purged, cuts>>
  BY DEF Store, history
<1>2. PICK label \in {"record", "edit"} : \E b \in Request :
        /\ bytes' = Put(bytes, path[r], b) /\ Goto(r, label)
        /\ label = "record" => b = content[r]
  <2>1. content[r] \in Request
    BY <1>1, Facts DEF Has, Adding
  <2>2. source[r] \in DOMAIN bytes => bytes[source[r]] \in Request
    BY Facts DEF BytesTyped
  <2>3. CASE bytes' = Put(bytes, path[r], content[r]) /\ Goto(r, "record")
    BY <2>1, <2>3
  <2>4. CASE /\ source[r] \in DOMAIN bytes
             /\ bytes' = Put(bytes, path[r], bytes[source[r]]) /\ Goto(r, "edit")
    BY <2>2, <2>4
  <2> QED BY <2>3, <2>4 DEF Store
<1>3. PICK b \in Request : /\ bytes' = Put(bytes, path[r], b) /\ Goto(r, label)
                           /\ label = "record" => b = content[r]
  BY <1>2
<1>4. PICK p \in Path : p = path[r]
  BY <1>1, Facts DEF Has, Adding
<1>5. RequestsTyped' /\ Others(r) /\ pc'[r] = label
  BY <1>1, <1>3, GotoStep, Facts DEF Labels
<1>6. /\ DOMAIN bytes' = DOMAIN bytes \cup {p} /\ bytes'[p] = b
      /\ \A x \in DOMAIN bytes : x # p => bytes'[x] = bytes[x]
  <2>1. PICK f : f = bytes
    OBVIOUS
  <2>2. bytes' = Put(f, p, b)
    BY <1>3, <1>4, <2>1
  <2>3. /\ DOMAIN Put(f, p, b) = DOMAIN f \cup {p} /\ Put(f, p, b)[p] = b
        /\ \A x \in DOMAIN f : x # p => Put(f, p, b)[x] = f[x]
    BY DEF Put
  <2> QED BY <2>1, <2>2, <2>3
<1>7. BytesTyped'
  BY <1>6, Facts DEF BytesTyped
<1>8. Has(r)'
  BY <1>1, <1>4, <1>5, Facts DEF Has, Adding
<1>9. pc[r] \in Owning /\ pc[r] \in Adding /\ path'[r] = p /\ content'[r] = content[r]
  BY <1>1, <1>4 DEF Owning, Adding
<1> QED BY <1>1, <1>3, <1>4, <1>5, <1>6, <1>7, <1>8, <1>9, BytesStep

LEMMA EditKeeps ==
  ASSUME FilesInv, NEW r \in Request, Edit(r)
  PROVE  FilesInv'
<1>1. /\ pc[r] = "edit" /\ path[r] \in DOMAIN bytes /\ Goto(r, "measure")
      /\ bytes' = [bytes EXCEPT ![path[r]] = content[r]]
      /\ UNCHANGED <<kind, path, source, content, todo>>
      /\ UNCHANGED <<records, clashed, lost, purged, cuts>>
  BY DEF Edit, history
<1>2. PICK p \in Path : p = path[r]
  BY <1>1, Facts DEF Has, Adding
<1>3. RequestsTyped' /\ Others(r) /\ pc'[r] = "measure"
  BY <1>1, GotoStep, Facts DEF Labels
<1>4. content[r] \in Request
  BY <1>1, Facts DEF Has, Adding
<1>5. /\ DOMAIN bytes' = DOMAIN bytes /\ bytes'[p] = content[r]
      /\ \A x \in DOMAIN bytes : x # p => bytes'[x] = bytes[x]
  BY <1>1, <1>2
<1>6. BytesTyped'
  BY <1>4, <1>5, Facts DEF BytesTyped
<1>7. Has(r)'
  BY <1>1, <1>2, <1>3, <1>4, Facts DEF Has, Adding
<1>8. pc[r] \in Owning /\ pc[r] \in Adding /\ path'[r] = p /\ p \in DOMAIN bytes'
  BY <1>1, <1>2, <1>5 DEF Owning, Writing, Adding
<1> QED BY <1>1, <1>2, <1>3, <1>5, <1>6, <1>7, <1>8, BytesStep

LEMMA UndoKeeps ==
  ASSUME FilesInv, NEW r \in Request, Undo(r)
  PROVE  FilesInv'
<1>1. /\ pc[r] = "undo" /\ Finish(r) /\ bytes' = Restrict(bytes, DOMAIN bytes \ {path[r]})
      /\ UNCHANGED <<records, clashed, lost, purged, cuts>>
  BY DEF Undo, history
<1>2. PICK p \in Path : p = path[r]
  BY <1>1, Facts DEF Has
<1>3. RequestsTyped' /\ Others(r) /\ pc'[r] = "idle" /\ kind'[r] = "none"
  BY <1>1, FinishStep, Facts
<1>4. /\ DOMAIN bytes' = DOMAIN bytes \ {p}
      /\ \A x \in DOMAIN bytes \ {p} : bytes'[x] = bytes[x]
  BY <1>1, <1>2, RestrictIs
<1>5. BytesTyped'
  BY <1>4, Facts DEF BytesTyped
<1>6. Has(r)'
  BY <1>3 DEF Has, Adding
<1>7. pc[r] \in Owning
  BY <1>1 DEF Owning, Writing
<1> QED BY <1>1, <1>2, <1>3, <1>4, <1>5, <1>6, <1>7, BytesStep

-----------------------------------------------------------------------------
(* Steps that change the records.                                          *)

\* A request records its version: nobody has recorded it, or any that follows it.
LEMMA RecordedStep ==
  ASSUME FilesInv, BoundsAssumption, NEW r \in Request, pc[r] = "record",
         path[r].version \notin DOMAIN records,
         records' = Put(records, path[r].version, NewRecord(r)), Goto(r, "demote"), Forget(r),
         UNCHANGED <<bytes, clashed, lost, purged, cuts>>
  PROVE  FilesInv'
<1>1. RequestsTyped' /\ Others(r) /\ pc'[r] = "demote" /\ UNCHANGED <<kind, path>>
  BY ForgetStep, Facts DEF Labels
<1>2. PICK p \in Path : p = path[r]
  BY Facts DEF Has, Adding
<1>3. content[r] \in Request
  BY Facts DEF Has, Adding
<1>4. PICK n \in 1 .. MaxVersions : n = p.version
  BY DEF Path
<1>5. PICK new \in VersionRecord : /\ new = NewRecord(r) /\ new.path = p /\ new.content = content[r]
                                   /\ new.current /\ ~new.deleted
  <2>1. NewRecord(r) = [path |-> p, content |-> content[r], current |-> TRUE, deleted |-> FALSE]
    BY <1>2 DEF NewRecord
  <2>2. NewRecord(r) \in VersionRecord
    BY <1>3, <2>1 DEF VersionRecord
  <2>3. PICK new \in VersionRecord : new = NewRecord(r)
    BY <2>2
  <2>4. new.path = p /\ new.content = content[r] /\ new.current /\ ~new.deleted
    BY <2>1, <2>3
  <2> QED BY <2>3, <2>4
<1>6. /\ DOMAIN records' = DOMAIN records \cup {n} /\ records'[n] = new /\ n \notin DOMAIN records
      /\ \A v \in DOMAIN records : records'[v] = records[v]
  <2>1. records' = Put(records, n, new) /\ n \notin DOMAIN records
    BY <1>2, <1>4, <1>5
  <2> QED BY <2>1 DEF Put
<1>7. n \in Nat /\ \A v \in DOMAIN records : v \in 1 .. MaxVersions
  BY <1>4, Facts DEF RecordsTyped, VersionRecord, Path, BoundsAssumption
<1>8. FilesTyped'
  <2>1. RecordsTyped'
    BY <1>4, <1>5, <1>6, Facts DEF RecordsTyped
  <2>2. BytesTyped'
    BY Facts DEF BytesTyped
  <2>3. Has(r)'
    BY <1>1, <1>2, Facts DEF Has, Adding
  <2> QED BY <1>1, <2>1, <2>2, <2>3, TypesStay, Facts
<1>9. Paths' = Paths \cup {p}
  BY <1>5, <1>6 DEF Paths
<1>10. Separate'
  <2> SUFFICES ASSUME ~clashed, ~purged
               PROVE  Apart' /\ (\A q \in Request : Placed(q)') /\ Described'
    BY DEF Separate
  <2>1. Apart /\ (\A q \in Request : Placed(q)) /\ Described
    BY Facts DEF Separate
  <2>2. pc'[r] \notin Owning /\ pc[r] \in Owning /\ pc[r] \in Writing
    BY <1>1 DEF Owning, Writing
  <2>3. Alone(r)
    BY <2>2 DEF Alone
  <2>4. Apart'
    BY <1>1, <2>1, <2>3, ApartStays
  <2>5. ASSUME NEW q \in Request PROVE Placed(q)'
    <3>1. CASE q = r
      BY <1>1, <3>1 DEF Placed, Owning, Writing
    <3>2. CASE q # r
      <4>1. pc'[q] = pc[q] /\ path'[q] = path[q] /\ content'[q] = content[q] /\ Placed(q)
        BY <1>1, <2>1, <3>2 DEF Others
      <4>2. pc[q] \in Owning => path[q] # p
        BY <1>2, <2>1, <2>2, <3>2 DEF Apart
      <4> QED BY <1>9, <4>1, <4>2 DEF Placed, Vacant
    <3> QED BY <3>1, <3>2
  <2>6. Described'
    BY <1>2, <1>5, <1>6, <2>1, <2>2 DEF Described, Placed
  <2> QED BY <2>4, <2>5, <2>6
<1>11. Claimed'
  <2> SUFFICES ASSUME cuts = 0, ~lost, ~clashed, ~purged, NEW x \in DOMAIN bytes, x \notin Paths, x # p
               PROVE  \E q \in Request : pc'[q] \in Writing /\ path'[q] = x
    BY <1>9 DEF Claimed
  <2>1. PICK q \in Request : pc[q] \in Writing /\ path[q] = x
    BY Facts DEF Claimed
  <2> QED BY <1>1, <1>2, <2>1 DEF Others
<1>12. ~purged => /\ \A w \in 1 .. n - 1 : w \in DOMAIN records
                  /\ \A v \in DOMAIN records : v < n
  <2> SUFFICES ASSUME ~purged
               PROVE  /\ \A w \in 1 .. n - 1 : w \in DOMAIN records
                      /\ \A v \in DOMAIN records : v < n
    OBVIOUS
  <2>1. \A w \in 1 .. n - 1 : w \in DOMAIN records
    BY <1>2, <1>4, Facts DEF Numbered, Adding
  <2>2. ASSUME NEW v \in DOMAIN records PROVE v < n
    <3>1. ~(n \in 1 .. v)
      BY <1>6, <2>2, Facts DEF Numbered
    <3> QED BY <1>4, <1>7, <3>1
  <2> QED BY <2>1, <2>2
<1>13. Numbered'
  <2> SUFFICES ASSUME ~purged PROVE Numbered'
    BY DEF Numbered
  <2>1. \A v \in DOMAIN records' : \A w \in 1 .. v : w \in DOMAIN records'
    <3>1. \A v \in DOMAIN records : \A w \in 1 .. v : w \in DOMAIN records
      BY Facts DEF Numbered
    <3>2. \A w \in 1 .. n : w \in 1 .. n - 1 \/ w = n
      BY <1>7
    <3> QED BY <1>6, <1>12, <3>1, <3>2
  <2>2. \A q \in Request : pc'[q] \in Adding =>
          \A w \in 1 .. path'[q].version - 1 : w \in DOMAIN records'
    <3>1. pc'[r] \notin Adding
      BY <1>1 DEF Adding
    <3> QED BY <1>1, <1>6, <3>1, Facts DEF Numbered, Others
  <2>3. \A q \in Request : pc'[q] = "demote" => path'[q].version \in DOMAIN records'
    BY <1>1, <1>2, <1>4, <1>6, Facts DEF Numbered, Others
  <2>4. \A v, w \in DOMAIN records' : v < w /\ records'[w].deleted => records'[v].deleted
    <3>1. \A v, w \in DOMAIN records : v < w /\ records[w].deleted => records[v].deleted
      BY Facts DEF Numbered
    <3>2. \A v \in DOMAIN records : ~(n < v)
      BY <1>7, <1>12
    <3> QED BY <1>5, <1>6, <3>1, <3>2
  <2>5. \A v \in DOMAIN records' : ~records'[v].current => \E w \in DOMAIN records' : v < w
    BY <1>5, <1>6, Facts DEF Numbered
  <2> QED BY <2>1, <2>2, <2>3, <2>4, <2>5 DEF Numbered
<1>14. Followed'
  <2> SUFFICES ASSUME cuts = 0, ~purged, NEW v \in DOMAIN records', NEW w \in DOMAIN records',
                      v < w, records'[v].current
               PROVE  \E q \in Request : pc'[q] = "demote" /\ v < path'[q].version
    BY DEF Followed
  <2>1. v \in DOMAIN records
    <3>1. v = n => w \in DOMAIN records /\ ~(w < n)
      BY <1>6, <1>7
    <3> QED BY <1>6, <1>12, <3>1
  <2>2. v < path'[r].version
    BY <1>1, <1>2, <1>4, <1>12, <2>1
  <2> QED BY <1>1, <2>2
<1> QED BY <1>8, <1>10, <1>11, <1>13, <1>14 DEF FilesInv

LEMMA RecordKeeps ==
  ASSUME FilesInv, BoundsAssumption, NEW r \in Request, Record(r)
  PROVE  FilesInv'
<1>1. pc[r] = "record" /\ UNCHANGED <<bytes, clashed, purged, cuts>>
  BY DEF Record
<1>2. CASE path[r].version \in DOMAIN records /\ kind[r] = "upload"
  BY <1>1, <1>2, RejectKeeps DEF Record, Writing
<1>3. CASE path[r].version \in DOMAIN records /\ kind[r] # "upload"
  <2>1. UNCHANGED records /\ Finish(r) /\ lost' = TRUE
    BY <1>3 DEF Record
  <2> QED BY <1>1, <2>1, FinishQuietly, Facts
<1>4. CASE path[r].version \notin DOMAIN records
  <2>1. /\ records' = Put(records, path[r].version, NewRecord(r))
        /\ Goto(r, "demote") /\ Forget(r) /\ UNCHANGED lost
    BY <1>4 DEF Record
  <2> QED BY <1>1, <1>4, <2>1, RecordedStep
<1> QED BY <1>2, <1>3, <1>4

\* The same versions are recorded, with their paths and contents.
SameVersions ==
  /\ DOMAIN records' = DOMAIN records
  /\ \A v \in DOMAIN records : /\ records'[v] \in VersionRecord
                               /\ records'[v].path = records[v].path
                               /\ records'[v].content = records[v].content

LEMMA SameVersionsStep ==
  ASSUME FilesInv, SameVersions, UNCHANGED bytes
  PROVE  /\ RecordsTyped' /\ Paths' = Paths /\ BytesTyped'
         /\ Described => Described'
         /\ \A q \in Request : Placed(q) /\ pc'[q] = pc[q] /\ path'[q] = path[q] /\ content'[q] = content[q]
              => Placed(q)'
<1>1. RecordsTyped'
  BY Facts DEF RecordsTyped, SameVersions
<1>2. Paths' = Paths
  BY DEF Paths, SameVersions
<1>3. Described => Described'
  BY DEF Described, SameVersions
<1>4. BytesTyped'
  BY Facts DEF BytesTyped
<1> QED BY <1>1, <1>2, <1>3, <1>4 DEF Placed, Vacant

LEMMA DemoteKeeps ==
  ASSUME FilesInv, NEW r \in Request, Demote(r)
  PROVE  FilesInv'
<1> DEFINE n == path[r].version
<1>1. /\ pc[r] = "demote" /\ Finish(r) /\ UNCHANGED <<bytes, clashed, lost, purged, cuts>>
      /\ records' = [v \in DOMAIN records |->
                       IF v < n THEN [records[v] EXCEPT !.current = FALSE] ELSE records[v]]
  BY DEF Demote, Older, history
<1>2. RequestsTyped' /\ Others(r) /\ pc'[r] = "idle" /\ kind'[r] = "none"
  BY <1>1, FinishStep, Facts
<1>3. ASSUME NEW v \in DOMAIN records
      PROVE  /\ records[v] \in VersionRecord /\ records'[v] \in VersionRecord
             /\ records'[v].path = records[v].path /\ records'[v].content = records[v].content
             /\ records'[v].deleted = records[v].deleted
             /\ records'[v].current = (records[v].current /\ ~(v < n))
  <2>1. records[v] \in VersionRecord
    BY Facts DEF RecordsTyped
  <2>2. records'[v] = IF v < n THEN [records[v] EXCEPT !.current = FALSE] ELSE records[v]
    BY <1>1
  <2>3. CASE v < n
    <3>1. records'[v] = [records[v] EXCEPT !.current = FALSE]
      BY <2>2, <2>3
    <3>2. records'[v] \in VersionRecord /\ records'[v].current = FALSE
      BY <2>1, <3>1 DEF VersionRecord
    <3>3. /\ records'[v].path = records[v].path /\ records'[v].content = records[v].content
          /\ records'[v].deleted = records[v].deleted
      BY <2>1, <3>1 DEF VersionRecord
    <3> QED BY <2>1, <2>3, <3>2, <3>3
  <2>4. CASE ~(v < n)
    <3>1. records[v].current \in BOOLEAN
      BY <2>1 DEF VersionRecord
    <3> QED BY <2>1, <2>2, <2>4, <3>1
  <2> QED BY <2>3, <2>4
<1> HIDE DEF n
<1>4. SameVersions
  BY <1>1, <1>3 DEF SameVersions
<1>5. /\ RecordsTyped' /\ Paths' = Paths /\ BytesTyped'
      /\ Described => Described'
      /\ \A q \in Request : Placed(q) /\ pc'[q] = pc[q] /\ path'[q] = path[q] /\ content'[q] = content[q]
           => Placed(q)'
  BY <1>1, <1>4, SameVersionsStep
<1>6. pc'[r] \notin Owning /\ pc'[r] \notin Adding /\ pc[r] \notin Writing
  BY <1>1, <1>2 DEF Owning, Writing, Adding
<1>7. FilesTyped'
  <2>1. Has(r)'
    BY <1>2, <1>6 DEF Has, Adding
  <2> QED BY <1>1, <1>2, <1>5, <2>1, TypesStay, Facts
<1>8. Separate'
  <2> SUFFICES ASSUME ~clashed, ~purged
               PROVE  Apart' /\ (\A q \in Request : Placed(q)') /\ Described'
    BY <1>1 DEF Separate
  <2>1. Apart /\ (\A q \in Request : Placed(q)) /\ Described
    BY Facts DEF Separate
  <2>2. Alone(r)
    BY <1>6 DEF Alone
  <2>3. Apart'
    BY <1>2, <2>1, <2>2, ApartStays
  <2>4. Placed(r)'
    BY <1>2 DEF Placed, Owning, Writing
  <2>5. \A q \in Request : Placed(q)'
    BY <1>2, <1>5, <2>1, <2>4 DEF Others
  <2> QED BY <1>5, <2>1, <2>3, <2>5
<1>9. Claimed'
  <2> SUFFICES ASSUME cuts = 0, ~lost, ~clashed, ~purged, NEW x \in DOMAIN bytes, x \notin Paths
               PROVE  \E q \in Request : pc'[q] \in Writing /\ path'[q] = x
    BY <1>1, <1>5 DEF Claimed
  <2>1. PICK q \in Request : pc[q] \in Writing /\ path[q] = x
    BY Facts DEF Claimed
  <2> QED BY <1>2, <1>6, <2>1 DEF Others
<1>10. Numbered'
  <2> SUFFICES ASSUME ~purged PROVE Numbered'
    BY <1>1 DEF Numbered
  <2>1. \A v \in DOMAIN records : \A w \in 1 .. v : w \in DOMAIN records
    BY Facts DEF Numbered
  <2>2. \A q \in Request : pc'[q] \in Adding =>
          \A w \in 1 .. path'[q].version - 1 : w \in DOMAIN records
    BY <1>2, <1>6, Facts DEF Numbered, Others
  <2>3. \A q \in Request : pc'[q] = "demote" => path'[q].version \in DOMAIN records
    BY <1>2, Facts DEF Numbered, Others
  <2>4. \A v, w \in DOMAIN records : v < w /\ records'[w].deleted => records'[v].deleted
    BY <1>3, Facts DEF Numbered
  <2>5. \A v \in DOMAIN records : ~records'[v].current => \E w \in DOMAIN records : v < w
    <3>1. n \in DOMAIN records
      BY <1>1, Facts DEF Numbered, n
    <3> QED BY <1>3, <3>1, Facts DEF Numbered
  <2> QED BY <1>4, <2>1, <2>2, <2>3, <2>4, <2>5 DEF Numbered, SameVersions
<1>11. Followed'
  <2> SUFFICES ASSUME cuts = 0, ~purged, NEW v \in DOMAIN records, NEW w \in DOMAIN records,
                      v < w, records'[v].current
               PROVE  \E q \in Request : pc'[q] = "demote" /\ v < path'[q].version
    BY <1>1, <1>4 DEF Followed, SameVersions
  <2>1. records[v].current /\ ~(v < n)
    BY <1>3
  <2>2. PICK q \in Request : pc[q] = "demote" /\ v < path[q].version
    BY <2>1, Facts DEF Followed
  <2>3. q # r
    BY <2>1, <2>2 DEF n
  <2> QED BY <1>2, <2>2, <2>3 DEF Others
<1> QED BY <1>7, <1>8, <1>9, <1>10, <1>11 DEF FilesInv

LEMMA SoftDeleteKeeps ==
  ASSUME FilesInv, SoftDelete
  PROVE  FilesInv'
<1>1. /\ records' = [v \in DOMAIN records |-> [records[v] EXCEPT !.deleted = TRUE]]
      /\ UNCHANGED <<pc, kind, path, source, content, todo>>
      /\ UNCHANGED <<bytes, clashed, lost, purged, cuts>>
  BY DEF SoftDelete, request, history
<1>2. ASSUME NEW v \in DOMAIN records
      PROVE  /\ records[v] \in VersionRecord /\ records'[v] \in VersionRecord
             /\ records'[v].path = records[v].path /\ records'[v].content = records[v].content
             /\ records'[v].deleted /\ records'[v].current = records[v].current
  <2>1. records[v] \in VersionRecord
    BY Facts DEF RecordsTyped
  <2>2. records'[v] = [records[v] EXCEPT !.deleted = TRUE]
    BY <1>1
  <2>3. records'[v] \in VersionRecord /\ records'[v].deleted = TRUE
    BY <2>1, <2>2 DEF VersionRecord
  <2>4. /\ records'[v].path = records[v].path /\ records'[v].content = records[v].content
        /\ records'[v].current = records[v].current
    BY <2>1, <2>2 DEF VersionRecord
  <2> QED BY <2>1, <2>3, <2>4
<1>3. SameVersions
  BY <1>1, <1>2 DEF SameVersions
<1>4. /\ RecordsTyped' /\ Paths' = Paths /\ BytesTyped'
      /\ Described => Described'
      /\ \A q \in Request : Placed(q) /\ pc'[q] = pc[q] /\ path'[q] = path[q] /\ content'[q] = content[q]
           => Placed(q)'
  BY <1>1, <1>3, SameVersionsStep
<1>5. FilesTyped'
  BY <1>1, <1>4, Facts DEF FilesTyped, RequestsTyped, Has
<1>6. Separate'
  BY <1>1, <1>4, Facts DEF Separate, Apart
<1>7. Claimed'
  BY <1>1, <1>4, Facts DEF Claimed
<1>8. Numbered'
  <2> SUFFICES ASSUME ~purged PROVE Numbered'
    BY <1>1 DEF Numbered
  <2>1. \A v \in DOMAIN records : \A w \in 1 .. v : w \in DOMAIN records
    BY Facts DEF Numbered
  <2>2. \A q \in Request : pc'[q] \in Adding =>
          \A w \in 1 .. path'[q].version - 1 : w \in DOMAIN records
    BY <1>1, Facts DEF Numbered
  <2>3. \A q \in Request : pc'[q] = "demote" => path'[q].version \in DOMAIN records
    BY <1>1, Facts DEF Numbered
  <2>4. \A v, w \in DOMAIN records : v < w /\ records'[w].deleted => records'[v].deleted
    BY <1>2
  <2>5. \A v \in DOMAIN records : ~records'[v].current => \E w \in DOMAIN records : v < w
    BY <1>2, Facts DEF Numbered
  <2> QED BY <1>3, <2>1, <2>2, <2>3, <2>4, <2>5 DEF Numbered, SameVersions
<1>9. Followed'
  <2> SUFFICES ASSUME cuts = 0, ~purged, NEW v \in DOMAIN records, NEW w \in DOMAIN records,
                      v < w, records'[v].current
               PROVE  \E q \in Request : pc'[q] = "demote" /\ v < path'[q].version
    BY <1>1, <1>3 DEF Followed, SameVersions
  <2>1. records[v].current
    BY <1>2
  <2> QED BY <1>1, <2>1, Facts DEF Followed
<1> QED BY <1>5, <1>6, <1>7, <1>8, <1>9 DEF FilesInv

-----------------------------------------------------------------------------
(* Deleting for good, after which only the types are promised.             *)

LEMMA PurgedStep ==
  ASSUME FilesTyped', purged'
  PROVE  FilesInv'
BY DEF FilesInv, Separate, Claimed, Numbered, Followed

LEMMA DeletingKeeps ==
  ASSUME FilesInv, NEW r \in Request,
         \/ HardDelete(r)
         \/ Purge(r)
         \/ ListAgain(r)
         \/ Erase(r)
  PROVE  FilesInv'
<1>1. Paths \in SUBSET Path
  BY Facts DEF RecordsTyped, VersionRecord, Paths
<1>2. Has(r)
  BY Facts
<1>3. CASE HardDelete(r)
  <2>1. /\ pc' = [pc EXCEPT ![r] = "purge"] /\ kind' = [kind EXCEPT ![r] = "delete"]
        /\ todo' = [todo EXCEPT ![r] = Paths] /\ purged' = TRUE
        /\ UNCHANGED <<records, bytes, path, source, content, cuts>>
    BY <1>3 DEF HardDelete, Goto
  <2>2. RequestsTyped' /\ Others(r) /\ pc'[r] = "purge" /\ kind'[r] = "delete"
    <3>1. RequestsTyped
      BY Facts
    <3>2. RequestsTyped'
      BY <1>1, <2>1, <3>1 DEF RequestsTyped, Labels
    <3> QED BY <2>1, <3>1, <3>2 DEF RequestsTyped, Others
  <2>3. Has(r)' /\ RecordsTyped' /\ BytesTyped'
    BY <2>1, <2>2, Facts DEF Has, Adding, RecordsTyped, BytesTyped
  <2> QED BY <2>1, <2>2, <2>3, TypesStay, PurgedStep, Facts
<1>4. CASE Purge(r)
  <2>1. PICK p \in todo[r] : /\ bytes' = Restrict(bytes, DOMAIN bytes \ {p})
                             /\ todo' = [todo EXCEPT ![r] = @ \ {p}]
    BY <1>4 DEF Purge
  <2>2. pc[r] = "purge" /\ UNCHANGED <<records, pc, kind, path, source, content, clashed, lost, purged, cuts>>
    BY <1>4 DEF Purge, history
  <2>3. purged
    BY <1>2, <2>2 DEF Has
  <2>4. RequestsTyped' /\ Others(r)
    BY <2>1, <2>2, Facts DEF RequestsTyped, Others
  <2>5. /\ DOMAIN bytes' = DOMAIN bytes \ {p}
        /\ \A x \in DOMAIN bytes \ {p} : bytes'[x] = bytes[x]
    BY <2>1, RestrictIs
  <2>6. Has(r)' /\ RecordsTyped' /\ BytesTyped'
    BY <1>2, <2>2, <2>5, Facts DEF Has, RecordsTyped, BytesTyped
  <2> QED BY <2>2, <2>3, <2>4, <2>6, TypesStay, PurgedStep, Facts
<1>5. CASE ListAgain(r)
  <2>1. /\ pc[r] = "purge" /\ pc' = [pc EXCEPT ![r] = "erase"] /\ todo' = [todo EXCEPT ![r] = Paths]
        /\ UNCHANGED <<records, bytes, kind, path, source, content, clashed, lost, purged, cuts>>
    BY <1>5 DEF ListAgain, Goto, history
  <2>2. purged
    BY <1>2, <2>1 DEF Has
  <2>3. RequestsTyped' /\ Others(r) /\ pc'[r] = "erase"
    <3>1. RequestsTyped
      BY Facts
    <3>2. RequestsTyped'
      BY <1>1, <2>1, <3>1 DEF RequestsTyped, Labels
    <3> QED BY <2>1, <3>1, <3>2 DEF RequestsTyped, Others
  <2>4. Has(r)' /\ RecordsTyped' /\ BytesTyped'
    BY <1>2, <2>1, <2>2, <2>3, Facts DEF Has, Adding, RecordsTyped, BytesTyped
  <2> QED BY <2>1, <2>2, <2>3, <2>4, TypesStay, PurgedStep, Facts
<1>6. CASE Erase(r)
  <2>1. pc[r] = "erase" /\ UNCHANGED <<bytes, clashed, lost, purged, cuts>>
    BY <1>6 DEF Erase, history
  <2>2. purged /\ BytesTyped'
    BY <1>2, <2>1, Facts DEF Has, BytesTyped
  <2>3. CASE todo[r] = {}
    <3>1. Finish(r) /\ UNCHANGED records
      BY <1>6, <2>3 DEF Erase
    <3>2. RequestsTyped' /\ Others(r) /\ pc'[r] = "idle" /\ kind'[r] = "none"
      BY <3>1, FinishStep, Facts
    <3>3. Has(r)' /\ RecordsTyped'
      BY <3>1, <3>2, Facts DEF Has, Adding, RecordsTyped
    <3> QED BY <2>1, <2>2, <3>2, <3>3, TypesStay, PurgedStep, Facts
  <2>4. CASE todo[r] # {}
    <3>1. PICK v : v = Max({p.version : p \in todo[r]})
      OBVIOUS
    <3>2. /\ records' = Restrict(records, DOMAIN records \ {v})
          /\ todo' = [todo EXCEPT ![r] = {p \in @ : p.version # v}]
          /\ UNCHANGED <<pc, kind, path, source, content>>
      BY <1>6, <2>4, <3>1 DEF Erase
    <3>3. RequestsTyped' /\ Others(r)
      BY <3>2, Facts DEF RequestsTyped, Others
    <3>4. /\ DOMAIN records' = DOMAIN records \ {v}
          /\ \A x \in DOMAIN records \ {v} : records'[x] = records[x]
      BY <3>2, RestrictIs
    <3>5. Has(r)' /\ RecordsTyped'
      BY <1>2, <2>1, <3>2, <3>4, Facts DEF Has, RecordsTyped
    <3> QED BY <2>1, <2>2, <3>3, <3>5, TypesStay, PurgedStep, Facts
  <2> QED BY <2>3, <2>4
<1> QED BY <1>3, <1>4, <1>5, <1>6

-----------------------------------------------------------------------------
LEMMA FilesInit ==
  ASSUME Init
  PROVE  FilesInv
<1>1. DOMAIN records = {} /\ DOMAIN bytes = {}
  BY DEF Init
<1>2. \A r \in Request : pc[r] = "idle" /\ kind[r] = "none"
  BY DEF Init
<1>3. RequestsTyped
  BY DEF Init, RequestsTyped, Labels
<1>4. FilesTyped
  BY <1>1, <1>2, <1>3, BoundsAssumption
     DEF Init, FilesTyped, RecordsTyped, BytesTyped, Has, Adding, BoundsAssumption
<1>5. Separate /\ Claimed /\ Numbered /\ Followed
  BY <1>1, <1>2 DEF Separate, Apart, Placed, Described, Claimed, Numbered, Followed, Owning, Writing, Adding
<1> QED BY <1>4, <1>5 DEF FilesInv

LEMMA FilesStep ==
  ASSUME FilesInv, [Next]_vars
  PROVE  FilesInv'
<1>1. CASE UNCHANGED vars
  <2>1. /\ UNCHANGED <<records, bytes>> /\ UNCHANGED <<pc, kind, path, source, content, todo>>
        /\ UNCHANGED <<clashed, lost, purged, cuts>>
    BY <1>1 DEF vars, request, history
  <2>2. FilesTyped'
    BY <2>1, Facts DEF FilesTyped, RequestsTyped, RecordsTyped, BytesTyped, Has
  <2>3. Separate'
    BY <2>1, Facts DEF Separate, Apart, Placed, Described, Vacant, Paths
  <2>4. Claimed' /\ Numbered' /\ Followed'
    BY <2>1, Facts DEF Claimed, Numbered, Followed, Paths
  <2> QED BY <2>2, <2>3, <2>4 DEF FilesInv
<1>2. ASSUME NEW r \in Request,
             \/ \E n \in Name : Create(r, n) \/ Upload(r, n)
             \/ Modify(r) \/ Exists(r) \/ Store(r) \/ Edit(r) \/ Measure(r) \/ Record(r) \/ Demote(r)
             \/ Reject(r) \/ Undo(r) \/ Refuse(r) \/ Cut(r)
             \/ HardDelete(r) \/ Purge(r) \/ ListAgain(r) \/ Erase(r)
      PROVE  FilesInv'
  <2>1. CASE \/ \E n \in Name :
                  \/ Create(r, n)
                  \/ Upload(r, n)
             \/ Modify(r)
    BY <2>1, AddingKeeps, BoundsAssumption
  <2>2. CASE Exists(r)
    BY <2>2, ExistsKeeps
  <2>3. CASE Store(r)
    BY <2>3, StoreKeeps
  <2>4. CASE Edit(r)
    BY <2>4, EditKeeps
  <2>5. CASE Measure(r)
    BY <2>5, MeasureKeeps
  <2>6. CASE Record(r)
    BY <2>6, RecordKeeps, BoundsAssumption
  <2>7. CASE Demote(r)
    BY <2>7, DemoteKeeps
  <2>8. CASE \/ Refuse(r)
             \/ Cut(r)
             \/ Reject(r)
    BY <2>8, EndingKeeps, BoundsAssumption
  <2>9. CASE Undo(r)
    BY <2>9, UndoKeeps
  <2>10. CASE \/ HardDelete(r)
              \/ Purge(r)
              \/ ListAgain(r)
              \/ Erase(r)
    BY <2>10, DeletingKeeps
  <2> QED BY <1>2, <2>1, <2>2, <2>3, <2>4, <2>5, <2>6, <2>7, <2>8, <2>9, <2>10
<1> QED BY <1>1, <1>2, SoftDeleteKeeps DEF Next

LEMMA FilesStay == Spec => []FilesInv
<1>1. FilesInv /\ [Next]_vars => FilesInv'
  BY FilesStep
<1> QED BY <1>1, FilesInit, PTL DEF Spec

\* Whatever uploads and edits race, are rejected or cut short, the bytes of every version are those
\* its record describes, unless two requests were about to write to one path or the file is being
\* deleted for good; and bytes without a record belong to a request at work, as long as besides no
\* request is cut short and no edit loses its version.
THEOREM BytesStay == Spec => []BytesHold
<1>1. FilesInv => BytesHold
  <2> SUFFICES ASSUME FilesInv PROVE BytesHold
    OBVIOUS
  <2>1. TypeOK
    <3>1. DOMAIN records \subseteq 1 .. MaxVersions
      BY Facts DEF RecordsTyped, VersionRecord, Path
    <3>2. IsFiniteSet(DOMAIN records)
      <4>1. MaxVersions \in Int /\ 1 \in Int
        BY BoundsAssumption DEF BoundsAssumption
      <4>2. IsFiniteSet(1 .. MaxVersions)
        BY <4>1, FS_Interval
      <4> QED BY <3>1, <4>2, FS_Subset
    <3>3. Range(bytes) \subseteq Request
      BY Facts DEF BytesTyped, Range
    <3> QED BY <3>2, <3>3, Facts DEF TypeOK, RecordsTyped, VersionRecord, BytesTyped, RequestsTyped, Has
  <2>2. BytesKept
    BY Facts DEF BytesKept, Separate, Described
  <2>3. NothingLeftBehind
    BY Facts DEF NothingLeftBehind, Claimed, Reachable
  <2> QED BY <2>1, <2>2, <2>3 DEF BytesHold
<1> QED BY <1>1, FilesStay, PTL

\* Listings show the version that downloads serve, and show it once as soon as nobody has older
\* versions left to demote.
THEOREM VersionsStay == Spec => []VersionsHold
<1>1. FilesInv => VersionsHold
  <2> SUFFICES ASSUME FilesInv PROVE VersionsHold
    OBVIOUS
  <2>1. CurrentIsNewest
    <3> SUFFICES ASSUME ~purged, Live # {}, ~records[Newest].current PROVE FALSE
      BY DEF CurrentIsNewest
    <3>1. Newest \in Live /\ Newest \in DOMAIN records /\ \A v \in Live : v <= Newest
      BY NewestIs, BoundsAssumption, Facts
    <3>2. PICK w \in DOMAIN records : Newest < w
      BY <3>1, Facts DEF Numbered
    <3>3. records[w].deleted => records[Newest].deleted
      BY <3>1, <3>2, Facts DEF Numbered
    <3>4. w \in Live
      BY <3>1, <3>3 DEF Live
    <3>5. w \in Nat /\ Newest \in Nat
      BY <3>1, Facts DEF RecordsTyped, VersionRecord, Path
    <3> QED BY <3>1, <3>2, <3>4, <3>5
  <2>2. OneCurrent
    <3> SUFFICES ASSUME cuts = 0, ~purged, \A r \in Request : pc[r] # "demote",
                        NEW v \in Live, NEW w \in Live, records[v].current, records[w].current
                 PROVE  v = w
      BY DEF OneCurrent
    <3>1. v \in DOMAIN records /\ w \in DOMAIN records
      BY DEF Live
    <3>2. v \in Nat /\ w \in Nat
      BY <3>1, Facts DEF RecordsTyped, VersionRecord, Path
    <3>3. ~(v < w) /\ ~(w < v)
      BY <3>1, Facts DEF Followed
    <3> QED BY <3>2, <3>3
  <2> QED BY <2>1, <2>2 DEF VersionsHold
<1> QED BY <1>1, FilesStay, PTL

-----------------------------------------------------------------------------
(***************************************************************************)
(* The files of one user: ShelfInv.                                        *)
(***************************************************************************)
Uploading == {"early", "quota", "same", "insert"}
Updating == {"newest", "apply", "answer"}

What == Content \cup {Fresh, Changed}

Row ==
  [file : 1 .. MaxFiles, version : 1 .. MaxAsked + 1, content : What, tag : What,
   moment : 0 .. MaxMoment, latest : BOOLEAN, deleted : BOOLEAN]

Cursor == [moment : 0 .. MaxMoment + 1, file : 0 .. MaxFiles + 1]

TaskTyped ==
  /\ stage \in [Client -> Uploading \cup Updating \cup {"idle", "demote"}]
  /\ file \in [Client -> 0 .. MaxFiles] /\ number \in [Client -> 0 .. MaxAsked + 1]
  /\ brought \in [Client -> What]

ShelfTyped ==
  /\ rows \subseteq Row /\ IsFiniteSet(rows)
  /\ begun \in 0 .. MaxFiles /\ asked \in 0 .. MaxAsked
  /\ TaskTyped
  /\ noted \subseteq Client /\ shown \in BOOLEAN
  /\ page \in [of : {"none", "more", "over"}, after : Cursor]
  /\ listed \in [1 .. MaxFiles -> Nat] /\ steady \subseteq 1 .. MaxFiles

\* Nobody brings a version whose number the requests so far do not reach.
Within(c) ==
  stage[c] \in Uploading =>
    file[c] \in 1 .. MaxFiles /\ number[c] \in 1 .. MaxAsked + 1 /\ number[c] <= asked + 1

Counted ==
  /\ \A x \in rows : x.version <= asked + 1
  /\ \A c \in Client : Within(c)

\* The unique index.
Indexed(S) == \A x, y \in S : x.file = y.file /\ x.version = y.version => x = y

\* Who has been told that there is room.
Admitted == {c \in Client : stage[c] \in {"same", "insert"}}

Roomy == Used + Cardinality(Admitted) <= Quota + Cardinality(Client) - 1

Top(x, f) == x \in Kept(f) /\ \A y \in Kept(f) : y.version <= x.version

\* What an update has found or done is about the newest version, until somebody changes the file.
UpToDate(c) ==
  c \notin noted =>
    /\ stage[c] = "apply" => \E x \in rows : Top(x, file[c]) /\ x.version = number[c]
    /\ stage[c] = "answer" => \E x \in rows : Top(x, file[c]) /\ x.tag = brought[c]

\* A steady file has one row, which was listed if the cursor is past it.
Turned(f) ==
  \E x \in Listable :
    /\ x.file = f /\ \A y \in Listable : y.file = f => y = x
    /\ listed[f] = IF page.of = "more" /\ Below(x, page.after) THEN 0 ELSE 1

Opened ==
  page.of = "none" =>
    steady = {} /\ page.after = NoCursor /\ \A f \in 1 .. MaxFiles : listed[f] = 0

ShelfInv ==
  /\ ShelfTyped /\ Counted /\ Indexed(rows) /\ Roomy
  /\ (\A c \in Client : UpToDate(c)) /\ shown
  /\ Opened /\ \A f \in steady : Turned(f)

-----------------------------------------------------------------------------
(* Operators.                                                              *)

\* Rows of one file that are replaced, each by one of the same version.
Reworked(old, new, f) ==
  /\ new \subseteq Row /\ IsFiniteSet(new) /\ Cardinality(new) <= Cardinality(old)
  /\ Indexed(new)
  /\ \A y \in new : \E x \in old : y.file = x.file /\ y.version = x.version
  /\ \A x : x.file # f => (x \in new <=> x \in old)

LEMMA ReworkedBy ==
  ASSUME NEW old \in SUBSET Row, IsFiniteSet(old), Indexed(old), NEW f, NEW g \in [old -> Row],
         \A x \in old : g[x].file = x.file /\ g[x].version = x.version,
         \A x \in old : x.file # f => g[x] = x
  PROVE  Reworked(old, {g[x] : x \in old}, f)
<1> DEFINE new == {g[x] : x \in old}
<1>1. new \subseteq Row
  OBVIOUS
<1>2. IsFiniteSet(new) /\ Cardinality(new) <= Cardinality(old)
  <2>1. g \in Surjection(old, new)
    BY DEF Surjection
  <2> QED BY <2>1, FS_Surjection
<1>3. \A y \in new : \E x \in old : y = g[x]
  OBVIOUS
<1>4. Indexed(new)
  <2> SUFFICES ASSUME NEW y \in new, NEW z \in new, y.file = z.file, y.version = z.version PROVE y = z
    BY DEF Indexed
  <2>1. PICK x \in old : y = g[x]
    BY <1>3
  <2>2. PICK w \in old : z = g[w]
    BY <1>3
  <2>3. x = w
    BY <2>1, <2>2 DEF Indexed
  <2> QED BY <2>1, <2>2, <2>3
<1>5. \A y \in new : \E x \in old : y.file = x.file /\ y.version = x.version
  BY <1>3
<1>6. ASSUME NEW x, x.file # f PROVE x \in new <=> x \in old
  <2>1. ASSUME x \in new PROVE x \in old
    <3>1. PICK w \in old : x = g[w]
      BY <2>1, <1>3
    <3> QED BY <3>1, <1>6
  <2>2. ASSUME x \in old PROVE x \in new
    BY <2>2, <1>6
  <2> QED BY <2>1, <2>2
<1> HIDE DEF new
<1>7. Reworked(old, new, f)
  BY <1>1, <1>2, <1>4, <1>5, <1>6 DEF Reworked
<1> QED BY <1>7 DEF new

-----------------------------------------------------------------------------
(* Changes of rows.                                                        *)

LEMMA ShelfFacts ==
  ASSUME ShelfInv
  PROVE  ShelfTyped /\ Counted /\ Indexed(rows) /\ Roomy /\ (\A c \in Client : UpToDate(c)) /\ shown
         /\ Opened /\ \A f \in steady : Turned(f)
BY DEF ShelfInv

LEMMA UnflagReworks ==
  ASSUME ShelfInv, NEW c \in Client, Unflag(c)
  PROVE  Reworked(rows, rows', file[c])
<1> DEFINE g == [x \in rows |-> IF x.file = file[c] /\ x.version < number[c] THEN [x EXCEPT !.latest = FALSE] ELSE x]
<1>1. \A x \in rows : x \in Row
  BY ShelfFacts DEF ShelfTyped
<1>2. \A x \in rows : [x EXCEPT !.latest = FALSE] \in Row
  BY <1>1 DEF Row
<1>3. g \in [rows -> Row]
  BY <1>1, <1>2
<1>4. \A x \in rows : g[x].file = x.file /\ g[x].version = x.version
  BY <1>1 DEF Row
<1>5. rows' = {g[x] : x \in rows}
  BY DEF Unflag
<1>6. \A x \in rows : x.file # file[c] => g[x] = x
  OBVIOUS
<1>7. rows \in SUBSET Row /\ IsFiniteSet(rows) /\ Indexed(rows)
  BY ShelfFacts DEF ShelfTyped
<1> HIDE DEF g
<1> QED BY <1>3, <1>4, <1>5, <1>6, <1>7, ReworkedBy

LEMMA ApplyReworks ==
  ASSUME ShelfInv, NEW c \in Client, ApplyUpdate(c)
  PROVE  Reworked(rows, rows', file[c])
<1> DEFINE g == [x \in rows |-> IF x.file = file[c] /\ x.version = number[c] THEN [x EXCEPT !.tag = brought[c]] ELSE x]
<1>1. \A x \in rows : x \in Row
  BY ShelfFacts DEF ShelfTyped
<1>2. brought[c] \in What
  BY ShelfFacts DEF ShelfTyped, TaskTyped
<1>3. \A x \in rows : [x EXCEPT !.tag = brought[c]] \in Row
  BY <1>1, <1>2 DEF Row
<1>4. g \in [rows -> Row]
  BY <1>1, <1>3
<1>5. \A x \in rows : g[x].file = x.file /\ g[x].version = x.version
  BY <1>1 DEF Row
<1>6. rows' = {g[x] : x \in rows}
  BY DEF ApplyUpdate
<1>7. \A x \in rows : x.file # file[c] => g[x] = x
  OBVIOUS
<1>8. rows \in SUBSET Row /\ IsFiniteSet(rows) /\ Indexed(rows)
  BY ShelfFacts DEF ShelfTyped
<1> HIDE DEF g
<1> QED BY <1>4, <1>5, <1>6, <1>7, <1>8, ReworkedBy

LEMMA PutAwayReworks ==
  ASSUME ShelfInv, NEW f, PutAway(f)
  PROVE  Reworked(rows, rows', f)
<1> DEFINE g == [x \in rows |-> IF x.file = f THEN [x EXCEPT !.deleted = TRUE] ELSE x]
<1>1. \A x \in rows : x \in Row
  BY ShelfFacts DEF ShelfTyped
<1>2. \A x \in rows : [x EXCEPT !.deleted = TRUE] \in Row
  BY <1>1 DEF Row
<1>3. g \in [rows -> Row]
  BY <1>1, <1>2
<1>4. \A x \in rows : g[x].file = x.file /\ g[x].version = x.version
  BY <1>1 DEF Row
<1>5. rows' = {g[x] : x \in rows}
  BY DEF PutAway
<1>6. \A x \in rows : x.file # f => g[x] = x
  OBVIOUS
<1>7. rows \in SUBSET Row /\ IsFiniteSet(rows) /\ Indexed(rows)
  BY ShelfFacts DEF ShelfTyped
<1> HIDE DEF g
<1> QED BY <1>3, <1>4, <1>5, <1>6, <1>7, ReworkedBy

-----------------------------------------------------------------------------
(* What a change means to the others.                                      *)

\* The rows of other files are what they were.
Elsewhere(f) == \A x : x.file # f => (x \in rows' <=> x \in rows)

\* Updates of others under way have been told.
LEMMA OthersKnow ==
  ASSUME ShelfInv, NEW f, NEW by, Touch(f, by), Elsewhere(f), NEW c \in Client, c \notin by,
         stage'[c] = stage[c], file'[c] = file[c], number'[c] = number[c], brought'[c] = brought[c]
  PROVE  UpToDate(c)'
<1> SUFFICES ASSUME c \notin noted', stage[c] \in {"apply", "answer"}
    PROVE /\ stage[c] = "apply" => \E x \in rows' : Top(x, file[c])' /\ x.version = number[c]
          /\ stage[c] = "answer" => \E x \in rows' : Top(x, file[c])' /\ x.tag = brought[c]
  BY DEF UpToDate, Top, Kept
<1>1. c \notin noted /\ file[c] # f
  BY DEF Touch
<1>2. PICK x \in rows : /\ Top(x, file[c])
                        /\ stage[c] = "apply" => x.version = number[c]
                        /\ stage[c] = "answer" => x.tag = brought[c]
  BY <1>1, ShelfFacts DEF UpToDate
<1>3. PICK h : h = file[c]
  OBVIOUS
<1>4. \A y : y \in Kept(h)' <=> y \in Kept(h)
  BY <1>1, <1>3 DEF Elsewhere, Kept
<1>5. Top(x, h)'
  BY <1>2, <1>3, <1>4 DEF Top
<1>6. x \in rows'
  BY <1>5 DEF Top, Kept
<1> QED BY <1>2, <1>3, <1>5, <1>6 DEF Top, Kept

\* So have those who list.
LEMMA ListingGoesOn ==
  ASSUME ShelfInv, NEW f, NEW by, Touch(f, by), Elsewhere(f)
  PROVE  Opened' /\ \A h \in steady' : Turned(h)'
<1>1. steady' = steady \ {f} /\ page' = page /\ listed' = listed
  BY DEF Touch
<1>2. Opened'
  BY <1>1, ShelfFacts DEF Opened
<1>3. ASSUME NEW h \in steady' PROVE Turned(h)'
  <2>1. h \in steady /\ h # f
    BY <1>1
  <2>2. PICK x \in Listable :
          /\ x.file = h /\ \A y \in Listable : y.file = h => y = x
          /\ listed[h] = IF page.of = "more" /\ Below(x, page.after) THEN 0 ELSE 1
    BY <2>1, ShelfFacts DEF Turned
  <2>3. \A y : y.file = h => (y \in Listable' <=> y \in Listable)
    BY <2>1 DEF Elsewhere, Listable
  <2>4. x \in Listable' /\ \A y \in Listable' : y.file = h => y = x
    BY <2>2, <2>3
  <2> QED BY <1>1, <2>2, <2>4 DEF Turned, Below
<1> QED BY <1>2, <1>3

\* Nothing is said of an update without a row that is new.
LEMMA SameRows ==
  ASSUME ShelfInv, UNCHANGED rows, NEW c \in Client, noted' = noted,
         stage'[c] = stage[c], file'[c] = file[c], number'[c] = number[c], brought'[c] = brought[c]
  PROVE  UpToDate(c)'
BY ShelfFacts DEF UpToDate, Top, Kept

LEMMA SameListing ==
  ASSUME ShelfInv, UNCHANGED <<rows, listing>>
  PROVE  Opened' /\ \A h \in steady' : Turned(h)'
BY ShelfFacts DEF Opened, Turned, listing, Listable, Below

-----------------------------------------------------------------------------
(* Steps.                                                                  *)

LEMMA AdmittedIs ==
  /\ IsFiniteSet(Admitted) /\ Cardinality(Admitted) \in Nat /\ Cardinality(Admitted) <= Cardinality(Client)
  /\ IsFiniteSet(Admitted') /\ Cardinality(Admitted') \in Nat /\ Cardinality(Admitted') <= Cardinality(Client)
  /\ Cardinality(Client) \in Nat
  /\ Admitted' \subseteq Admitted => Cardinality(Admitted') <= Cardinality(Admitted)
<1>1. IsFiniteSet(Client)
  BY ShelfAssumption DEF ShelfAssumption
<1>2. PICK A \in SUBSET Client : A = Admitted
  BY DEF Admitted
<1>3. PICK B \in SUBSET Client : B = Admitted'
  BY DEF Admitted
<1>4. IsFiniteSet(A) /\ IsFiniteSet(B) /\ Cardinality(A) <= Cardinality(Client) /\ Cardinality(B) <= Cardinality(Client)
  BY <1>1, FS_Subset
<1>5. B \subseteq A => Cardinality(B) <= Cardinality(A)
  BY <1>4, FS_Subset
<1>6. Cardinality(A) \in Nat /\ Cardinality(B) \in Nat /\ Cardinality(Client) \in Nat
  BY <1>1, <1>4, FS_CardinalityType
<1> QED BY <1>2, <1>3, <1>4, <1>5, <1>6

LEMMA RoomStays ==
  ASSUME ShelfInv, IsFiniteSet(rows'), Cardinality(rows') <= Cardinality(rows),
         \A c \in Client : stage'[c] \in {"same", "insert"} => stage[c] \in {"same", "insert"}
  PROVE  Roomy'
<1>1. Admitted' \subseteq Admitted
  BY DEF Admitted
<1>2. PICK a \in Nat : a = Cardinality(Admitted)
  BY AdmittedIs
<1>3. PICK b \in Nat : b = Cardinality(Admitted')
  BY AdmittedIs
<1>4. b <= a
  BY <1>1, <1>2, <1>3, AdmittedIs
<1>5. Cardinality(rows) \in Nat /\ Cardinality(rows') \in Nat
  BY ShelfFacts, FS_CardinalityType DEF ShelfTyped
<1>6. Cardinality(Client) \in Nat /\ Quota \in Nat
  BY AdmittedIs, ShelfAssumption DEF ShelfAssumption
<1>7. Cardinality(rows) + a <= Quota + Cardinality(Client) - 1
  BY <1>2, ShelfFacts DEF Roomy, Used
<1>8. Cardinality(rows') + b <= Quota + Cardinality(Client) - 1
  BY <1>4, <1>5, <1>6, <1>7
<1> QED BY <1>3, <1>8 DEF Roomy, Used

\* What the others are at.
Aside(by) ==
  \A c \in Client \ by :
    stage'[c] = stage[c] /\ file'[c] = file[c] /\ number'[c] = number[c] /\ brought'[c] = brought[c]

LEMMA OthersWithin ==
  ASSUME ShelfInv, NEW by, Aside(by), asked' \in asked .. MaxAsked, \A c \in by : Within(c)',
         NEW c \in Client
  PROVE  Within(c)'
<1>1. CASE c \in by
  BY <1>1
<1>2. CASE c \notin by
  <2>1. Within(c)
    BY ShelfFacts DEF Counted
  <2>2. number[c] \in Nat /\ asked \in Nat /\ MaxAsked \in Nat
    BY ShelfFacts, ShelfAssumption DEF ShelfTyped, TaskTyped, ShelfAssumption
  <2>3. asked' \in Nat /\ asked <= asked'
    BY <2>2
  <2>4. SUFFICES ASSUME stage[c] \in Uploading
        PROVE  file[c] \in 1 .. MaxFiles /\ number[c] \in 1 .. MaxAsked + 1 /\ number[c] <= asked' + 1
    BY <1>2 DEF Aside, Within
  <2> QED BY <2>1, <2>2, <2>3, <2>4 DEF Within
<1> QED BY <1>1, <1>2

\* A step that changes no row.
LEMMA TaskKeeps ==
  ASSUME ShelfInv, NEW c \in Client, UNCHANGED <<rows, listing>>, Aside({c}),
         asked' \in asked .. MaxAsked, begun' \in 0 .. MaxFiles, TaskTyped',
         noted' = noted \/ noted' = noted \ {c}, shown',
         Within(c)', UpToDate(c)', Roomy'
  PROVE  ShelfInv'
<1>1. ShelfTyped'
  <2>1. asked \in 0 .. MaxAsked /\ MaxAsked \in Nat
    BY ShelfFacts, ShelfAssumption DEF ShelfTyped, ShelfAssumption
  <2>2. asked' \in 0 .. MaxAsked
    BY <2>1
  <2>3. noted' \subseteq Client
    BY ShelfFacts DEF ShelfTyped
  <2> QED BY <2>2, <2>3, ShelfFacts DEF ShelfTyped, listing
<1>2. Counted'
  <2>1. \A d \in Client : Within(d)'
    BY OthersWithin
  <2>2. ASSUME NEW x \in rows PROVE x.version <= asked' + 1
    <3>1. x.version <= asked + 1
      BY ShelfFacts DEF Counted
    <3>2. x \in Row /\ asked \in Nat /\ MaxAsked \in Nat
      BY ShelfFacts, ShelfAssumption DEF ShelfTyped, ShelfAssumption
    <3>3. x.version \in Nat
      BY <3>2 DEF Row
    <3> QED BY <3>1, <3>2, <3>3
  <2> QED BY <2>1, <2>2 DEF Counted
<1>3. Indexed(rows)'
  BY ShelfFacts DEF Indexed
<1>4. ASSUME NEW d \in Client, d # c PROVE UpToDate(d)'
  <2>1. UpToDate(d)
    BY ShelfFacts
  <2>2. d \in noted' <=> d \in noted
    BY <1>4
  <2>3. stage'[d] = stage[d] /\ file'[d] = file[d] /\ number'[d] = number[d] /\ brought'[d] = brought[d]
    BY <1>4 DEF Aside
  <2> QED BY <2>1, <2>2, <2>3 DEF UpToDate, Top, Kept
<1>5. Opened' /\ \A h \in steady' : Turned(h)'
  BY SameListing
<1> QED BY <1>1, <1>2, <1>3, <1>4, <1>5 DEF ShelfInv

\* A step that replaces rows of one file.
LEMMA RowsKeep ==
  ASSUME ShelfInv, NEW f, NEW by \in SUBSET Client, Touch(f, by), Aside(by),
         rows' \subseteq Row, IsFiniteSet(rows'), Indexed(rows'), Elsewhere(f),
         \A x \in rows' : x.version <= asked' + 1,
         asked' \in asked .. MaxAsked, begun' \in 0 .. MaxFiles, TaskTyped', shown' = shown,
         \A c \in by : Within(c)' /\ UpToDate(c)', Roomy'
  PROVE  ShelfInv'
<1>1. ShelfTyped'
  <2>1. asked \in 0 .. MaxAsked /\ MaxAsked \in Nat
    BY ShelfFacts, ShelfAssumption DEF ShelfTyped, ShelfAssumption
  <2>2. asked' \in 0 .. MaxAsked
    BY <2>1
  <2>3. noted' \subseteq Client /\ steady' \subseteq 1 .. MaxFiles /\ UNCHANGED <<page, listed>>
    BY ShelfFacts DEF ShelfTyped, Touch
  <2> QED BY <2>2, <2>3, ShelfFacts DEF ShelfTyped
<1>2. Counted'
  <2>1. \A d \in Client : Within(d)'
    BY OthersWithin
  <2> QED BY <2>1 DEF Counted
<1>3. ASSUME NEW d \in Client, d \notin by PROVE UpToDate(d)'
  BY <1>3, OthersKnow DEF Aside
<1>4. Opened' /\ \A h \in steady' : Turned(h)'
  BY ListingGoesOn
<1> QED BY <1>1, <1>2, <1>3, <1>4, ShelfFacts DEF ShelfInv

-----------------------------------------------------------------------------
LEMMA NewestRowIs ==
  ASSUME ShelfInv, NEW f, Kept(f) # {}
  PROVE  /\ Top(NewestIn(Kept(f)), f)
         /\ \A x : Top(x, f) => x = NewestIn(Kept(f))
<1>1. Kept(f) \in SUBSET rows /\ IsFiniteSet(rows) /\ rows \subseteq Row
  BY ShelfFacts DEF Kept, ShelfTyped
<1>2. IsFiniteSet(Kept(f))
  BY <1>1, FS_Subset
<1>3. \A x \in Kept(f) : x.version \in Nat
  BY <1>1 DEF Row
<1>4. PICK S : S = Kept(f)
  OBVIOUS
<1> DEFINE R == {p \in S \X S : p[2].version < p[1].version}
<1>5. \A x \in S : <<x, x>> \notin R
  BY <1>3, <1>4
<1>6. \A x, y, z \in S : <<x, y>> \in R /\ <<y, z>> \in R => <<x, z>> \in R
  BY <1>3, <1>4
<1>7. \A x, y \in S : <<y, x>> \notin R => y.version <= x.version
  BY <1>3, <1>4
<1> HIDE DEF R
<1>8. \E x \in S : \A y \in S : <<y, x>> \notin R
  BY <1>2, <1>4, <1>5, <1>6, ExtremeExists
<1>9. \E x \in S : \A y \in S : y.version <= x.version
  BY <1>7, <1>8
<1>10. NewestIn(S) \in S /\ \A y \in S : y.version <= NewestIn(S).version
  BY <1>9 DEF NewestIn
<1>11. Top(NewestIn(Kept(f)), f)
  BY <1>4, <1>10 DEF Top
<1>12. ASSUME NEW x, Top(x, f) PROVE x = NewestIn(Kept(f))
  <2>1. PICK y \in Kept(f) : y = NewestIn(Kept(f)) /\ Top(y, f)
    BY <1>11 DEF Top
  <2>2. x \in Kept(f) /\ x.version <= y.version /\ y.version <= x.version
    BY <1>12, <2>1 DEF Top
  <2>3. x.version = y.version
    BY <1>3, <2>1, <2>2
  <2>4. x.file = y.file /\ x \in rows /\ y \in rows
    BY <2>1, <2>2 DEF Kept
  <2> QED BY <2>1, <2>3, <2>4, ShelfFacts DEF Indexed
<1> QED BY <1>11, <1>12

-----------------------------------------------------------------------------
(* Each action.                                                            *)

Stages == Uploading \cup Updating \cup {"idle", "demote"}

LEMMA Goes ==
  ASSUME ShelfInv, NEW c \in Client, NEW label \in Stages, Proceed(c, label)
  PROVE  TaskTyped' /\ Aside({c}) /\ stage'[c] = label /\ UNCHANGED <<file, number, brought>>
BY ShelfFacts DEF ShelfTyped, TaskTyped, Proceed, Aside, Stages

LEMMA Ends ==
  ASSUME ShelfInv, NEW c \in Client, Finished(c)
  PROVE  TaskTyped' /\ Aside({c}) /\ stage'[c] = "idle"
<1>1. 0 \in 0 .. MaxFiles /\ 0 \in 0 .. MaxAsked + 1
  BY ShelfAssumption DEF ShelfAssumption
<1>2. Fresh \in What
  BY DEF What
<1> QED BY <1>1, <1>2, ShelfFacts DEF ShelfTyped, TaskTyped, Finished, Aside

LEMMA Begins ==
  ASSUME ShelfInv, NEW c \in Client, NEW label \in Stages, NEW f \in 1 .. MaxFiles, NEW n \in 0 .. MaxAsked + 1,
         NEW what \in What, Ask(c, label, f, n, what)
  PROVE  /\ TaskTyped' /\ Aside({c}) /\ stage'[c] = label /\ file'[c] = f /\ number'[c] = n
         /\ asked' \in asked .. MaxAsked /\ asked' = asked + 1
<1>1. f \in 0 .. MaxFiles
  BY ShelfAssumption DEF ShelfAssumption
<1>2. asked \in Nat /\ MaxAsked \in Nat
  BY ShelfFacts, ShelfAssumption DEF ShelfTyped, ShelfAssumption
<1>3. asked' \in asked .. MaxAsked /\ asked' = asked + 1
  BY <1>2 DEF Ask
<1> QED BY <1>1, <1>3, ShelfFacts DEF ShelfTyped, TaskTyped, Ask, Aside, Stages

LEMMA NotAsking ==
  ASSUME ShelfInv, UNCHANGED counts
  PROVE  asked' \in asked .. MaxAsked /\ begun' \in 0 .. MaxFiles /\ asked' = asked
<1>1. asked \in 0 .. MaxAsked /\ begun \in 0 .. MaxFiles /\ MaxAsked \in Nat
  BY ShelfFacts, ShelfAssumption DEF ShelfTyped, ShelfAssumption
<1> QED BY <1>1 DEF counts

\* Steps of a request that leave the rows alone and admit nobody.
LEMMA NoRowKeeps ==
  ASSUME ShelfInv, NEW c \in Client, UNCHANGED <<rows, listing>>, Aside({c}),
         asked' \in asked .. MaxAsked, begun' \in 0 .. MaxFiles, TaskTyped',
         noted' = noted \/ noted' = noted \ {c}, shown',
         Within(c)', UpToDate(c)',
         stage'[c] \in {"same", "insert"} => stage[c] \in {"same", "insert"}
  PROVE  ShelfInv'
<1>1. \A d \in Client : stage'[d] \in {"same", "insert"} => stage[d] \in {"same", "insert"}
  BY DEF Aside
<1>2. IsFiniteSet(rows) /\ Cardinality(rows) \in Nat
  BY ShelfFacts, FS_CardinalityType DEF ShelfTyped
<1>3. Roomy'
  <2>1. IsFiniteSet(rows') /\ Cardinality(rows') <= Cardinality(rows)
    BY <1>2
  <2> QED BY <1>1, <2>1, RoomStays
<1> QED BY <1>3, TaskKeeps

LEMMA AskingKeeps ==
  ASSUME ShelfInv, NEW c \in Client, NEW label \in {"early", "newest"}, NEW f \in 1 .. MaxFiles,
         NEW n \in 0 .. MaxAsked + 1, NEW what \in What, Ask(c, label, f, n, what),
         label = "early" => n \in 1 .. asked + 2,
         UNCHANGED <<rows, noted, shown, listing>>, begun' \in 0 .. MaxFiles
  PROVE  ShelfInv'
<1>1. label \in Stages
  BY DEF Stages, Uploading, Updating
<1>2. /\ TaskTyped' /\ Aside({c}) /\ stage'[c] = label /\ file'[c] = f /\ number'[c] = n
      /\ asked' \in asked .. MaxAsked /\ asked' = asked + 1
  BY <1>1, Begins
<1>3. Within(c)'
  <2> SUFFICES ASSUME label = "early"
      PROVE  f \in 1 .. MaxFiles /\ n \in 1 .. MaxAsked + 1 /\ n <= asked' + 1
    BY <1>2 DEF Within, Uploading
  <2>1. asked \in Nat /\ MaxAsked \in Nat /\ n \in Nat
    BY ShelfFacts, ShelfAssumption DEF ShelfTyped, ShelfAssumption
  <2> QED BY <1>2, <2>1
<1>4. UpToDate(c)'
  BY <1>2 DEF UpToDate
<1> QED BY <1>2, <1>3, <1>4, NoRowKeeps, ShelfFacts

LEMMA NewFileKeeps ==
  ASSUME ShelfInv, NEW c \in Client, NEW what \in Content, NewFile(c, what)
  PROVE  ShelfInv'
<1>1. begun \in 0 .. MaxFiles /\ begun < MaxFiles /\ MaxFiles \in Nat /\ MaxAsked \in Nat /\ asked \in Nat
  BY ShelfFacts, ShelfAssumption DEF ShelfTyped, ShelfAssumption, NewFile
<1>2. begun + 1 \in 1 .. MaxFiles /\ begun + 1 \in 0 .. MaxFiles /\ 1 \in 0 .. MaxAsked + 1 /\ 1 \in 1 .. asked + 2
  BY <1>1
<1>3. what \in What
  BY DEF What
<1>4. Ask(c, "early", begun + 1, 1, what) /\ UNCHANGED <<rows, noted, shown, listing>> /\ begun' = begun + 1
  BY DEF NewFile
<1>5. PICK f \in 1 .. MaxFiles : f = begun + 1
  BY <1>2
<1>6. PICK n \in 0 .. MaxAsked + 1 : n = 1
  BY <1>2
<1> QED BY <1>2, <1>3, <1>4, <1>5, <1>6, AskingKeeps

LEMMA NewVersionKeeps ==
  ASSUME ShelfInv, NEW c \in Client, NEW f \in 1 .. MaxFiles, NEW what \in Content, NewVersion(c, f, what)
  PROVE  ShelfInv'
<1>1. Kept(f) # {} /\ Ask(c, "early", f, NewestIn(Kept(f)).version + 1, what)
  BY DEF NewVersion
<1>2. PICK x \in rows : x = NewestIn(Kept(f))
  BY <1>1, NewestRowIs DEF Top, Kept
<1>3. x.version <= asked + 1 /\ x \in Row
  BY ShelfFacts DEF Counted, ShelfTyped
<1>4. x.version \in 1 .. MaxAsked + 1 /\ asked \in Nat /\ MaxAsked \in Nat /\ asked < MaxAsked
  BY <1>1, <1>3, ShelfFacts, ShelfAssumption DEF Row, ShelfTyped, ShelfAssumption, Ask
<1>5. PICK n \in 0 .. MaxAsked + 1 : n = x.version + 1 /\ n \in 1 .. asked + 2
  <2>1. x.version + 1 \in 0 .. MaxAsked + 1 /\ x.version + 1 \in 1 .. asked + 2
    BY <1>3, <1>4
  <2> QED BY <2>1
<1>6. what \in What /\ UNCHANGED <<rows, begun, noted, shown, listing>>
  BY DEF What, NewVersion
<1>7. begun' \in 0 .. MaxFiles
  BY <1>6, ShelfFacts DEF ShelfTyped
<1>8. Ask(c, "early", f, n, what)
  BY <1>1, <1>2, <1>5
<1> QED BY <1>5, <1>6, <1>7, <1>8, AskingKeeps

LEMMA AskUpdateKeeps ==
  ASSUME ShelfInv, NEW c \in Client, NEW f \in 1 .. MaxFiles, AskUpdate(c, f)
  PROVE  ShelfInv'
<1>1. 0 \in 0 .. MaxAsked + 1 /\ Changed \in What
  BY ShelfAssumption DEF ShelfAssumption, What
<1>2. begun' \in 0 .. MaxFiles
  BY ShelfFacts DEF ShelfTyped, AskUpdate
<1>3. Ask(c, "newest", f, 0, Changed) /\ UNCHANGED <<rows, noted, shown, listing>>
  BY DEF AskUpdate
<1> QED BY <1>1, <1>2, <1>3, AskingKeeps

LEMMA EarlyCheckKeeps ==
  ASSUME ShelfInv, NEW c \in Client, EarlyCheck(c)
  PROVE  ShelfInv'
<1>1. stage[c] = "early" /\ UNCHANGED <<rows, counts, noted, shown, listing>> /\ (Proceed(c, "quota") \/ Finished(c))
  BY DEF EarlyCheck
<1>2. TaskTyped' /\ Aside({c}) /\ UpToDate(c)' /\ Within(c)' /\ stage'[c] \in {"quota", "idle"}
  <2>1. CASE Proceed(c, "quota")
    <3>1. "quota" \in Stages
      BY DEF Stages, Uploading
    <3>2. TaskTyped' /\ Aside({c}) /\ stage'[c] = "quota" /\ UNCHANGED <<file, number, brought>>
      BY <2>1, <3>1, Goes
    <3>3. Within(c)'
      BY <1>1, <3>2, ShelfFacts, NotAsking DEF Within, Counted, Uploading
    <3> QED BY <3>2, <3>3 DEF UpToDate
  <2>2. CASE Finished(c)
    <3>1. TaskTyped' /\ Aside({c}) /\ stage'[c] = "idle"
      BY <2>2, Ends
    <3> QED BY <3>1 DEF UpToDate, Within, Uploading
  <2> QED BY <1>1, <2>1, <2>2
<1> QED BY <1>1, <1>2, NotAsking, NoRowKeeps, ShelfFacts

LEMMA FindSameKeeps ==
  ASSUME ShelfInv, NEW c \in Client, FindSame(c)
  PROVE  ShelfInv'
<1>1. stage[c] = "same" /\ UNCHANGED <<rows, counts, noted, shown, listing>> /\ (Proceed(c, "insert") \/ Finished(c))
  BY DEF FindSame
<1>2. TaskTyped' /\ Aside({c}) /\ UpToDate(c)' /\ Within(c)'
  <2>1. CASE Proceed(c, "insert")
    <3>1. "insert" \in Stages
      BY DEF Stages, Uploading
    <3>2. TaskTyped' /\ Aside({c}) /\ stage'[c] = "insert" /\ UNCHANGED <<file, number, brought>>
      BY <2>1, <3>1, Goes
    <3>3. Within(c)'
      BY <1>1, <3>2, ShelfFacts, NotAsking DEF Within, Counted, Uploading
    <3> QED BY <3>2, <3>3 DEF UpToDate
  <2>2. CASE Finished(c)
    <3>1. TaskTyped' /\ Aside({c}) /\ stage'[c] = "idle"
      BY <2>2, Ends
    <3> QED BY <3>1 DEF UpToDate, Within, Uploading
  <2> QED BY <1>1, <2>1, <2>2
<1> QED BY <1>1, <1>2, NotAsking, NoRowKeeps, ShelfFacts

LEMMA CheckQuotaKeeps ==
  ASSUME ShelfInv, NEW c \in Client, CheckQuota(c)
  PROVE  ShelfInv'
<1>1. stage[c] = "quota" /\ UNCHANGED <<rows, counts, noted, shown, listing>>
  BY DEF CheckQuota
<1>2. CASE Fits
  <2>1. PICK label \in {"same", "insert"} : Proceed(c, label)
    BY <1>2 DEF CheckQuota
  <2>2. label \in Stages
    BY DEF Stages, Uploading
  <2>3. TaskTyped' /\ Aside({c}) /\ stage'[c] = label /\ UNCHANGED <<file, number, brought>>
    BY <2>1, <2>2, Goes
  <2>4. Within(c)'
    BY <1>1, <2>3, ShelfFacts, NotAsking DEF Within, Counted, Uploading
  <2>5. UpToDate(c)'
    BY <2>3 DEF UpToDate
  <2>6. Roomy'
    <3>1. PICK b \in Nat : b = Cardinality(Admitted')
      BY AdmittedIs
    <3>2. PICK n \in Nat : n = Cardinality(Client)
      BY AdmittedIs
    <3>3. b <= n
      BY <3>1, <3>2, AdmittedIs
    <3>4. PICK u \in Nat : u = Cardinality(rows)
      BY ShelfFacts, FS_CardinalityType DEF ShelfTyped
    <3>5. u + 1 <= Quota /\ Quota \in Nat
      BY <1>2, <3>4, ShelfAssumption DEF Fits, Used, ShelfAssumption
    <3>6. u + b <= Quota + n - 1
      BY <3>3, <3>5
    <3> QED BY <1>1, <3>1, <3>2, <3>4, <3>6 DEF Roomy, Used
  <2> QED BY <1>1, <2>3, <2>4, <2>5, <2>6, NotAsking, TaskKeeps, ShelfFacts
<1>3. CASE ~Fits
  <2>1. TaskTyped' /\ Aside({c}) /\ stage'[c] = "idle"
    BY <1>3, Ends DEF CheckQuota
  <2>2. UpToDate(c)' /\ Within(c)'
    BY <2>1 DEF UpToDate, Within, Uploading
  <2> QED BY <1>1, <2>1, <2>2, NotAsking, NoRowKeeps, ShelfFacts
<1> QED BY <1>2, <1>3

LEMMA InsertKeeps ==
  ASSUME ShelfInv, NEW c \in Client, InsertVersion(c)
  PROVE  ShelfInv'
<1>1. stage[c] = "insert" /\ UNCHANGED <<counts, shown>>
  BY DEF InsertVersion
<1>2. CASE \E x \in rows : x.file = file[c] /\ x.version = number[c]
  <2>1. Finished(c) /\ UNCHANGED <<rows, noted, listing>>
    BY <1>2 DEF InsertVersion
  <2>2. TaskTyped' /\ Aside({c}) /\ stage'[c] = "idle"
    BY <2>1, Ends
  <2>3. UpToDate(c)' /\ Within(c)'
    BY <2>2 DEF UpToDate, Within, Uploading
  <2> QED BY <1>1, <2>1, <2>2, <2>3, NotAsking, NoRowKeeps, ShelfFacts
<1>3. CASE ~\E x \in rows : x.file = file[c] /\ x.version = number[c]
  <2>1. PICK t \in 0 .. MaxMoment : rows' = rows \cup {NewRow(file[c], number[c], brought[c], t)}
    BY <1>3 DEF InsertVersion
  <2>2. Proceed(c, "demote") /\ Touch(file[c], {c})
    BY <1>3 DEF InsertVersion
  <2>3. TaskTyped' /\ Aside({c}) /\ stage'[c] = "demote"
    <3>1. "demote" \in Stages
      BY DEF Stages
    <3> QED BY <2>2, <3>1, Goes
  <2>4. file[c] \in 1 .. MaxFiles /\ number[c] \in 1 .. MaxAsked + 1 /\ number[c] <= asked + 1
    BY <1>1, ShelfFacts DEF Counted, Within, Uploading
  <2>5. PICK x : x = NewRow(file[c], number[c], brought[c], t)
    OBVIOUS
  <2>6. x.file = file[c] /\ x.version = number[c]
    BY <2>5 DEF NewRow
  <2>7. x \in Row
    <3>1. brought[c] \in What /\ Fresh \in What
      BY ShelfFacts DEF ShelfTyped, TaskTyped, What
    <3> QED BY <2>4, <2>5, <3>1 DEF Row, NewRow
  <2>8. rows' = rows \cup {x} /\ x \notin rows
    BY <1>3, <2>1, <2>5, <2>6
  <2>9. rows \subseteq Row /\ IsFiniteSet(rows)
    BY ShelfFacts DEF ShelfTyped
  <2>10. IsFiniteSet(rows') /\ Cardinality(rows') = Cardinality(rows) + 1
    BY <2>8, <2>9, FS_AddElement
  <2>11. Indexed(rows')
    BY <1>3, <2>6, <2>8, ShelfFacts DEF Indexed
  <2>12. Elsewhere(file[c])
    BY <2>6, <2>8 DEF Elsewhere
  <2>13. \A y \in rows' : y.version <= asked' + 1
    BY <2>4, <2>6, <2>8, <1>1, NotAsking, ShelfFacts DEF Counted
  <2>14. Roomy'
    <3>1. PICK A \in SUBSET Client : A = Admitted
      BY DEF Admitted
    <3>2. Admitted' = A \ {c} /\ c \in A
      BY <1>1, <2>3, <3>1 DEF Admitted, Aside
    <3>3. IsFiniteSet(A) /\ Cardinality(A) \in Nat
      BY <3>1, AdmittedIs
    <3>4. Cardinality(Admitted') = Cardinality(A) - 1
      BY <3>2, <3>3, FS_RemoveElement
    <3>5. PICK n \in Nat : n = Cardinality(Client)
      BY AdmittedIs
    <3>6. PICK u \in Nat : u = Cardinality(rows)
      BY <2>9, FS_CardinalityType
    <3>7. u + Cardinality(A) <= Quota + n - 1 /\ Quota \in Nat
      BY <3>1, <3>5, <3>6, ShelfFacts, ShelfAssumption DEF Roomy, Used, ShelfAssumption
    <3>8. (u + 1) + (Cardinality(A) - 1) <= Quota + n - 1
      BY <3>3, <3>7
    <3> QED BY <2>10, <3>4, <3>5, <3>6, <3>8 DEF Roomy, Used
  <2>15. UpToDate(c)' /\ Within(c)'
    BY <2>3 DEF UpToDate, Within, Uploading
  <2>16. rows' \subseteq Row
    BY <2>7, <2>8, <2>9
  <2>17. PICK f : f = file[c]
    OBVIOUS
  <2>18. Touch(f, {c}) /\ Elsewhere(f)
    BY <2>2, <2>12, <2>17
  <2> QED BY <1>1, <2>3, <2>10, <2>11, <2>13, <2>14, <2>15, <2>16, <2>18, NotAsking, RowsKeep
<1> QED BY <1>2, <1>3

LEMMA ReworkingKeeps ==
  ASSUME ShelfInv, NEW f, NEW by \in SUBSET Client, Touch(f, by), Aside(by),
         Reworked(rows, rows', f), asked' \in asked .. MaxAsked, begun' = begun, TaskTyped', shown' = shown,
         \A c \in by : Within(c)' /\ UpToDate(c)' /\ stage'[c] \notin {"same", "insert"}
  PROVE  ShelfInv'
<1>1. /\ rows' \subseteq Row /\ IsFiniteSet(rows') /\ Indexed(rows')
      /\ Elsewhere(f) /\ Cardinality(rows') <= Cardinality(rows)
      /\ \A y \in rows' : \E x \in rows : y.file = x.file /\ y.version = x.version
  BY DEF Reworked, Elsewhere
<1>2. ASSUME NEW y \in rows' PROVE y.version <= asked' + 1
  <2>1. PICK x \in rows : y.version = x.version
    BY <1>1
  <2>2. x.version <= asked + 1
    BY ShelfFacts DEF Counted
  <2>3. x \in Row /\ asked \in Nat /\ MaxAsked \in Nat
    BY ShelfFacts, ShelfAssumption DEF ShelfTyped, ShelfAssumption
  <2>4. x.version \in Nat
    BY <2>3 DEF Row
  <2>5. asked' \in Nat /\ asked <= asked'
    BY <2>3
  <2> QED BY <2>1, <2>2, <2>3, <2>4, <2>5
<1>3. Roomy'
  <2>1. \A c \in Client : stage'[c] \in {"same", "insert"} => stage[c] \in {"same", "insert"}
    BY DEF Aside
  <2> QED BY <1>1, <2>1, RoomStays
<1>4. begun' \in 0 .. MaxFiles
  BY ShelfFacts DEF ShelfTyped
<1> QED BY <1>1, <1>2, <1>3, <1>4, RowsKeep

LEMMA UnflagKeeps ==
  ASSUME ShelfInv, NEW c \in Client, Unflag(c)
  PROVE  ShelfInv'
<1>1. Finished(c) /\ Touch(file[c], {c}) /\ UNCHANGED <<counts, shown>>
  BY DEF Unflag
<1>2. TaskTyped' /\ Aside({c}) /\ stage'[c] = "idle"
  BY <1>1, Ends
<1>3. Within(c)' /\ UpToDate(c)'
  BY <1>2 DEF Within, UpToDate, Uploading
<1>4. PICK f : f = file[c]
  OBVIOUS
<1>5. Reworked(rows, rows', f) /\ Touch(f, {c}) /\ begun' = begun /\ shown' = shown
  BY <1>1, <1>4, UnflagReworks DEF counts
<1> QED BY <1>1, <1>2, <1>3, <1>5, NotAsking, ReworkingKeeps

LEMMA PutAwayKeeps ==
  ASSUME ShelfInv, NEW f \in 1 .. MaxFiles, PutAway(f)
  PROVE  ShelfInv'
<1>1. UNCHANGED <<begun, stage, file, number, brought, shown>> /\ Touch(f, {}) /\ asked < MaxAsked /\ asked' = asked + 1
  BY DEF PutAway, task
<1>2. TaskTyped' /\ Aside({})
  BY <1>1, ShelfFacts DEF ShelfTyped, TaskTyped, Aside
<1>3. asked' \in asked .. MaxAsked
  BY <1>1, ShelfFacts, ShelfAssumption DEF ShelfTyped, ShelfAssumption
<1> QED BY <1>1, <1>2, <1>3, PutAwayReworks, ReworkingKeeps

LEMMA ApplyUpdateKeeps ==
  ASSUME ShelfInv, NEW c \in Client, ApplyUpdate(c)
  PROVE  ShelfInv'
<1>1. stage[c] = "apply" /\ Proceed(c, "answer") /\ Touch(file[c], {c}) /\ UNCHANGED <<counts, shown>>
  BY DEF ApplyUpdate
<1>2. TaskTyped' /\ Aside({c}) /\ stage'[c] = "answer" /\ UNCHANGED <<file, number, brought>>
  <2>1. "answer" \in Stages
    BY DEF Stages, Updating
  <2> QED BY <1>1, <2>1, Goes
<1>3. Within(c)'
  BY <1>2 DEF Within, Uploading
<1>4. PICK f : f = file[c]
  OBVIOUS
<1>5. PICK n : n = number[c]
  OBVIOUS
<1>6. PICK b : b = brought[c]
  OBVIOUS
<1>7. rows' = {IF x.file = f /\ x.version = n THEN [x EXCEPT !.tag = b] ELSE x : x \in rows}
  BY <1>4, <1>5, <1>6 DEF ApplyUpdate
<1>8. \A x \in rows : x \in Row
  BY ShelfFacts DEF ShelfTyped
<1>9. UpToDate(c)'
  <2> SUFFICES ASSUME c \notin noted' PROVE \E y \in rows' : Top(y, f)' /\ y.tag = b
    BY <1>2, <1>4, <1>6 DEF UpToDate, Top, Kept
  <2>1. c \notin noted
    BY <1>1 DEF Touch
  <2>2. PICK x \in rows : Top(x, f) /\ x.version = n
    BY <1>1, <1>4, <1>5, <2>1, ShelfFacts DEF UpToDate
  <2>3. PICK y : y = [x EXCEPT !.tag = b]
    OBVIOUS
  <2>4. y.file = x.file /\ y.version = x.version /\ y.deleted = x.deleted /\ y.tag = b
    BY <1>8, <2>3 DEF Row
  <2>5. x.file = f /\ ~x.deleted
    BY <2>2 DEF Top, Kept
  <2>6. y \in rows'
    BY <1>7, <2>2, <2>3, <2>5
  <2>7. ASSUME NEW z \in rows', z.file = f, ~z.deleted PROVE z.version <= y.version
    <3>1. PICK w \in rows : z = IF w.file = f /\ w.version = n THEN [w EXCEPT !.tag = b] ELSE w
      BY <1>7, <2>7
    <3>2. w.file = z.file /\ w.version = z.version /\ w.deleted = z.deleted
      BY <1>8, <3>1 DEF Row
    <3>3. w \in Kept(f)
      BY <2>7, <3>2 DEF Kept
    <3> QED BY <2>2, <2>4, <3>2, <3>3 DEF Top
  <2>8. Top(y, f)'
    BY <2>4, <2>5, <2>6, <2>7 DEF Top, Kept
  <2> QED BY <2>4, <2>6, <2>8
<1>10. Reworked(rows, rows', f) /\ Touch(f, {c}) /\ begun' = begun /\ shown' = shown
  BY <1>1, <1>4, ApplyReworks DEF counts
<1> QED BY <1>1, <1>2, <1>3, <1>9, <1>10, NotAsking, ReworkingKeeps

LEMMA FindNewestKeeps ==
  ASSUME ShelfInv, NEW c \in Client, FindNewest(c)
  PROVE  ShelfInv'
<1>1. stage[c] = "newest" /\ noted' = noted \ {c} /\ UNCHANGED <<rows, counts, shown, listing>>
  BY DEF FindNewest
<1>2. CASE Kept(file[c]) = {}
  <2>1. TaskTyped' /\ Aside({c}) /\ stage'[c] = "idle"
    BY <1>2, Ends DEF FindNewest
  <2>2. Within(c)' /\ UpToDate(c)'
    BY <2>1 DEF Within, UpToDate, Uploading
  <2> QED BY <1>1, <2>1, <2>2, NotAsking, NoRowKeeps, ShelfFacts
<1>3. CASE Kept(file[c]) # {}
  <2>1. PICK x \in rows : x = NewestIn(Kept(file[c])) /\ Top(x, file[c])
    BY <1>3, NewestRowIs DEF Top, Kept
  <2>2. x.version \in 0 .. MaxAsked + 1
    BY ShelfFacts, ShelfAssumption DEF ShelfTyped, Row, ShelfAssumption
  <2>3. /\ stage' = [stage EXCEPT ![c] = "apply"] /\ number' = [number EXCEPT ![c] = x.version]
        /\ UNCHANGED <<file, brought>>
    BY <1>3, <2>1 DEF FindNewest, Chosen
  <2>4. "apply" \in Stages
    BY DEF Stages, Updating
  <2>5. TaskTyped' /\ Aside({c}) /\ stage'[c] = "apply" /\ number'[c] = x.version
    BY <2>2, <2>3, <2>4, ShelfFacts DEF ShelfTyped, TaskTyped, Aside, Stages
  <2>6. Within(c)'
    BY <2>5 DEF Within, Uploading
  <2>7. UpToDate(c)'
    BY <1>1, <2>1, <2>3, <2>5 DEF UpToDate, Top, Kept
  <2> QED BY <1>1, <2>5, <2>6, <2>7, NotAsking, NoRowKeeps, ShelfFacts
<1> QED BY <1>2, <1>3

LEMMA AnswerUpdateKeeps ==
  ASSUME ShelfInv, NEW c \in Client, AnswerUpdate(c)
  PROVE  ShelfInv'
<1>1. stage[c] = "answer" /\ Finished(c) /\ UNCHANGED <<rows, counts, noted, listing>>
  BY DEF AnswerUpdate
<1>2. TaskTyped' /\ Aside({c}) /\ stage'[c] = "idle"
  BY <1>1, Ends
<1>3. Within(c)' /\ UpToDate(c)'
  BY <1>2 DEF Within, UpToDate, Uploading
<1>4. c \in noted \/ (Kept(file[c]) # {} /\ NewestIn(Kept(file[c])).tag = brought[c])
  <2> SUFFICES ASSUME c \notin noted PROVE Kept(file[c]) # {} /\ NewestIn(Kept(file[c])).tag = brought[c]
    OBVIOUS
  <2>1. PICK x \in rows : Top(x, file[c]) /\ x.tag = brought[c]
    BY <1>1, ShelfFacts DEF UpToDate
  <2>2. Kept(file[c]) # {}
    BY <2>1 DEF Top
  <2>3. x = NewestIn(Kept(file[c]))
    BY <2>1, <2>2, NewestRowIs
  <2> QED BY <2>1, <2>2, <2>3
<1>5. shown'
  BY <1>4, ShelfFacts DEF AnswerUpdate
<1> QED BY <1>1, <1>2, <1>3, <1>5, NotAsking, NoRowKeeps

-----------------------------------------------------------------------------
(* The listing.                                                            *)

\* Steps of the listing.
LEMMA ListingKeeps ==
  ASSUME ShelfInv, UNCHANGED <<rows, counts, task, noted, shown>>,
         page' \in [of : {"none", "more", "over"}, after : Cursor], listed' \in [1 .. MaxFiles -> Nat],
         steady' \subseteq 1 .. MaxFiles, Opened', \A f \in steady' : Turned(f)'
  PROVE  ShelfInv'
<1>1. UNCHANGED <<stage, file, number, brought, begun, asked>>
  BY DEF task, counts
<1>2. ShelfTyped'
  BY <1>1, ShelfFacts DEF ShelfTyped, TaskTyped
<1>3. Counted' /\ Indexed(rows)' /\ shown'
  BY <1>1, ShelfFacts DEF Counted, Within, Indexed
<1>4. Roomy'
  <2>1. IsFiniteSet(rows) /\ Cardinality(rows) \in Nat
    BY ShelfFacts, FS_CardinalityType DEF ShelfTyped
  <2>2. IsFiniteSet(rows') /\ Cardinality(rows') <= Cardinality(rows)
    BY <2>1
  <2>3. \A c \in Client : stage'[c] \in {"same", "insert"} => stage[c] \in {"same", "insert"}
    BY <1>1
  <2> QED BY <2>2, <2>3, RoomStays
<1>5. \A c \in Client : UpToDate(c)'
  BY <1>1, ShelfFacts DEF UpToDate, Top, Kept
<1> QED BY <1>2, <1>3, <1>4, <1>5 DEF ShelfInv

LEMMA StartListingKeeps ==
  ASSUME ShelfInv, StartListing
  PROVE  ShelfInv'
<1>1. page.of = "none" /\ page' = [of |-> "more", after |-> NoCursor]
      /\ UNCHANGED <<rows, counts, task, noted, shown, listed>>
  BY DEF StartListing
<1>2. steady' = {f \in 1 .. MaxFiles : Cardinality({x \in Listable : x.file = f}) = 1}
  BY DEF StartListing
<1>3. page' \in [of : {"none", "more", "over"}, after : Cursor]
  <2>1. NoCursor \in Cursor
    BY ShelfAssumption DEF NoCursor, Cursor, ShelfAssumption
  <2> QED BY <1>1, <2>1
<1>4. Opened'
  BY <1>1 DEF Opened
<1>5. ASSUME NEW f \in steady' PROVE Turned(f)'
  <2>1. f \in 1 .. MaxFiles /\ Cardinality({x \in Listable : x.file = f}) = 1
    BY <1>2
  <2>2. PICK S \in SUBSET rows : S = {x \in Listable : x.file = f}
    BY DEF Listable
  <2>3. IsFiniteSet(S)
    BY FS_Subset, ShelfFacts DEF ShelfTyped
  <2>4. PICK x : S = {x}
    BY <2>1, <2>2, <2>3, FS_Singleton
  <2>5. x \in Listable /\ x.file = f /\ \A y \in Listable : y.file = f => y = x
    BY <2>2, <2>4
  <2>6. x \in Row
    BY <2>5, ShelfFacts DEF Listable, ShelfTyped
  <2>7. Below(x, NoCursor)
    <3>1. x.moment \in 0 .. MaxMoment /\ MaxMoment \in Nat
      BY <2>6, ShelfAssumption DEF Row, ShelfAssumption
    <3> QED BY <3>1 DEF Below, NoCursor
  <2>8. listed[f] = 0
    BY <1>1, <2>1, ShelfFacts DEF Opened
  <2>9. page'.of = "more" /\ page'.after = NoCursor /\ listed' = listed /\ Listable' = Listable
    BY <1>1 DEF Listable
  <2>10. Below(x, page'.after)
    BY <2>7, <2>9
  <2> QED BY <2>5, <2>8, <2>9, <2>10 DEF Turned, Below
<1>6. listed' \in [1 .. MaxFiles -> Nat] /\ steady' \subseteq 1 .. MaxFiles
  BY <1>1, <1>2, ShelfFacts DEF ShelfTyped
<1>7. UNCHANGED <<rows, counts, task, noted, shown>>
  BY <1>1
<1> QED BY <1>3, <1>4, <1>5, <1>6, <1>7, ListingKeeps

LEMMA BeforeIsOrder ==
  ASSUME NEW x \in Row, NEW y \in Row, NEW z \in Row
  PROVE  /\ ~Before(x, x)
         /\ Before(x, y) /\ Before(y, z) => Before(x, z)
         /\ (x.file = y.file /\ x.version = y.version) \/ Before(x, y) \/ Before(y, x)
<1>1. /\ x.moment \in Nat /\ x.file \in Nat /\ x.version \in Nat
      /\ y.moment \in Nat /\ y.file \in Nat /\ y.version \in Nat
      /\ z.moment \in Nat /\ z.file \in Nat /\ z.version \in Nat
  BY ShelfAssumption DEF Row, ShelfAssumption
<1> QED BY <1>1 DEF Before

\* What a page has, of what there is below the cursor.
PageOf(rest) == {x \in rest : Cardinality({y \in rest : Before(y, x)}) < PerPage}

LEMMA PageIs ==
  ASSUME NEW rest \in SUBSET Row, IsFiniteSet(rest), Indexed(rest), PageOf(rest) # rest
  PROVE  \E x \in PageOf(rest) :
           /\ \A y \in PageOf(rest) : y = x \/ Before(y, x)
           /\ \A z \in rest \ PageOf(rest) : Before(x, z)
<1> DEFINE Preds(x) == {y \in rest : Before(y, x)}
           R == {p \in rest \X rest : Before(p[1], p[2])}
           B == {p \in rest \X rest : Before(p[2], p[1])}
<1>1. \A x \in rest : <<x, x>> \notin R /\ <<x, x>> \notin B
  BY BeforeIsOrder
<1>2. /\ \A x, y, z \in rest : <<x, y>> \in R /\ <<y, z>> \in R => <<x, z>> \in R
      /\ \A x, y, z \in rest : <<x, y>> \in B /\ <<y, z>> \in B => <<x, z>> \in B
  <2>1. \A x, y, z \in rest : Before(x, y) /\ Before(y, z) => Before(x, z)
    BY BeforeIsOrder
  <2> QED BY <2>1
<1>3. \A x, y \in rest : (<<x, y>> \in R <=> Before(x, y)) /\ (<<x, y>> \in B <=> Before(y, x))
  OBVIOUS
<1>4. \A x \in rest : IsFiniteSet(Preds(x)) /\ Cardinality(Preds(x)) \in Nat
  <2> SUFFICES ASSUME NEW x \in rest PROVE IsFiniteSet(Preds(x)) /\ Cardinality(Preds(x)) \in Nat
    OBVIOUS
  <2>1. Preds(x) \in SUBSET rest
    OBVIOUS
  <2>2. IsFiniteSet(Preds(x))
    BY <2>1, FS_Subset
  <2> QED BY <2>2, FS_CardinalityType
<1>5. PageOf(rest) = {x \in rest : Cardinality(Preds(x)) < PerPage}
  BY DEF PageOf
<1>6. PICK here \in SUBSET rest : here = PageOf(rest)
  BY DEF PageOf
<1>7. IsFiniteSet(here) /\ rest # {}
  BY <1>6, FS_Subset DEF PageOf
<1> HIDE DEF R, B
<1>8. here # {}
  <2>1. PICK x \in rest : \A y \in rest : <<y, x>> \notin R
    BY <1>1, <1>2, <1>7, ExtremeExists
  <2>2. Preds(x) = {}
    BY <1>3, <2>1
  <2>3. Cardinality(Preds(x)) = 0 /\ 0 < PerPage
    BY <2>2, FS_EmptySet, ShelfAssumption DEF ShelfAssumption
  <2> QED BY <1>5, <1>6, <2>3
<1>9. PICK x \in here : \A y \in here : <<y, x>> \notin B
  <2>1. \A u \in here : <<u, u>> \notin B
    BY <1>1
  <2>2. \A u, v, w \in here : <<u, v>> \in B /\ <<v, w>> \in B => <<u, w>> \in B
    BY <1>2
  <2> QED BY <1>7, <1>8, <2>1, <2>2, ExtremeExists
<1>10. ASSUME NEW y \in here, y # x PROVE Before(y, x)
  <2>1. ~Before(x, y)
    BY <1>3, <1>9
  <2>2. ~(x.file = y.file /\ x.version = y.version)
    BY <1>10 DEF Indexed
  <2> QED BY <2>1, <2>2, BeforeIsOrder
<1>11. ASSUME NEW z \in rest \ here PROVE Before(x, z)
  <2>1. SUFFICES ASSUME Before(z, x) PROVE FALSE
    <3>1. ~(x.file = z.file /\ x.version = z.version)
      BY <1>11 DEF Indexed
    <3> QED BY <2>1, <3>1, BeforeIsOrder
  <2>2. \A y \in rest : Before(y, z) => Before(y, x)
    BY <2>1, BeforeIsOrder
  <2>3. Preds(z) \in SUBSET Preds(x)
    BY <2>2
  <2>4. Cardinality(Preds(z)) <= Cardinality(Preds(x))
    <3> HIDE DEF Preds
    <3> QED BY <1>4, <2>3, FS_Subset
  <2>5. Cardinality(Preds(x)) < PerPage /\ PerPage \in Nat
    BY <1>5, <1>6, ShelfAssumption DEF ShelfAssumption
  <2>6. Cardinality(Preds(z)) \in Nat /\ Cardinality(Preds(x)) \in Nat
    BY <1>4
  <2>7. Cardinality(Preds(z)) < PerPage
    BY <2>4, <2>5, <2>6
  <2> QED BY <1>5, <1>6, <1>11, <2>7
<1> QED BY <1>6, <1>10, <1>11

LEMMA ReadPageKeeps ==
  ASSUME ShelfInv, ReadPage
  PROVE  ShelfInv'
<1>1. PICK rest : rest = {x \in Listable : Below(x, page.after)}
  OBVIOUS
<1>2. PICK here : here = PageOf(rest)
  OBVIOUS
<1>3. rows \subseteq Row /\ rest \in SUBSET rows /\ here \in SUBSET rest /\ IsFiniteSet(rows)
  BY <1>1, <1>2, ShelfFacts DEF ShelfTyped, Listable, PageOf
<1>4. IsFiniteSet(here) /\ IsFiniteSet(rest)
  <2>1. IsFiniteSet(rest)
    BY <1>3, FS_Subset
  <2> QED BY <1>3, <2>1, FS_Subset
<1>5. page.of = "more" /\ UNCHANGED <<rows, counts, task, noted, shown, steady>>
  BY DEF ReadPage
<1>6. listed' = [f \in 1 .. MaxFiles |-> listed[f] + Cardinality({x \in here : x.file = f})]
  BY <1>1, <1>2 DEF ReadPage, PageOf
<1>7. page' = IF here = rest THEN [of |-> "over", after |-> NoCursor]
              ELSE [of |-> "more",
                    after |-> CursorOf(CHOOSE x \in here : \A y \in here : y = x \/ Before(y, x))]
  BY <1>1, <1>2 DEF ReadPage, PageOf
<1>8. \A f : IsFiniteSet({x \in here : x.file = f}) /\ Cardinality({x \in here : x.file = f}) \in Nat
  <2> SUFFICES ASSUME NEW f PROVE IsFiniteSet({x \in here : x.file = f}) /\ Cardinality({x \in here : x.file = f}) \in Nat
    OBVIOUS
  <2>1. PICK S \in SUBSET here : S = {x \in here : x.file = f}
    OBVIOUS
  <2>2. IsFiniteSet(S)
    BY <1>4, FS_Subset
  <2>3. Cardinality(S) \in Nat
    BY <2>2, FS_CardinalityType
  <2> QED BY <2>1, <2>2, <2>3
<1>9. listed' \in [1 .. MaxFiles -> Nat]
  <2>1. ASSUME NEW f \in 1 .. MaxFiles PROVE listed[f] + Cardinality({x \in here : x.file = f}) \in Nat
    <3>1. listed[f] \in Nat
      BY ShelfFacts DEF ShelfTyped
    <3>2. PICK n \in Nat : n = Cardinality({x \in here : x.file = f})
      BY <1>8
    <3> QED BY <3>1, <3>2
  <2>2. PICK g : g = [f \in 1 .. MaxFiles |-> Cardinality({x \in here : x.file = f})]
    OBVIOUS
  <2>3. \A f \in 1 .. MaxFiles : listed[f] + g[f] \in Nat
    BY <2>1, <2>2
  <2>4. listed' = [f \in 1 .. MaxFiles |-> listed[f] + g[f]]
    BY <1>6, <2>2
  <2> QED BY <2>3, <2>4
\* What the page adds to a steady file.
<1>10. ASSUME NEW f \in steady, NEW x \in Listable, x.file = f, \A y \in Listable : y.file = f => y = x
       PROVE  listed'[f] = IF x \in here THEN listed[f] + 1 ELSE listed[f]
  <2>1. f \in 1 .. MaxFiles /\ listed[f] \in Nat
    BY ShelfFacts DEF ShelfTyped
  <2>2. here \subseteq Listable
    BY <1>1, <1>3
  <2>3. CASE x \in here
    <3>1. {y \in here : y.file = f} = {x}
      BY <1>10, <2>2, <2>3
    <3> QED BY <1>6, <2>1, <2>3, <3>1, FS_Singleton
  <2>4. CASE x \notin here
    <3>1. {y \in here : y.file = f} = {}
      BY <1>10, <2>2, <2>4
    <3> QED BY <1>6, <2>1, <2>4, <3>1, FS_EmptySet
  <2> QED BY <2>3, <2>4
<1>11. \A f \in steady : \E x \in Listable :
          /\ x.file = f /\ \A y \in Listable : y.file = f => y = x
          /\ listed[f] = IF x \in rest THEN 0 ELSE 1
          /\ listed'[f] = IF x \in here THEN listed[f] + 1 ELSE listed[f]
  BY <1>1, <1>5, <1>10, ShelfFacts DEF Turned
<1>12. UNCHANGED <<rows, counts, task, noted, shown>> /\ steady' \subseteq 1 .. MaxFiles /\ Listable' = Listable
  BY <1>5, ShelfFacts DEF ShelfTyped, Listable
<1>13. CASE here = rest
  <2>1. page' = [of |-> "over", after |-> NoCursor]
    BY <1>7, <1>13
  <2>2. NoCursor \in Cursor
    BY ShelfAssumption DEF NoCursor, Cursor, ShelfAssumption
  <2>3. page' \in [of : {"none", "more", "over"}, after : Cursor] /\ page'.of = "over"
    BY <2>1, <2>2
  <2>4. Opened'
    BY <2>3 DEF Opened
  <2>5. ASSUME NEW f \in steady' PROVE Turned(f)'
    <3>1. PICK x \in Listable :
            /\ x.file = f /\ \A y \in Listable : y.file = f => y = x
            /\ listed'[f] = 1
      BY <1>5, <1>11, <1>13
    <3> QED BY <1>12, <2>3, <3>1 DEF Turned
  <2> QED BY <1>9, <1>12, <2>3, <2>4, <2>5, ListingKeeps
<1>14. CASE here # rest
  <2>1. Indexed(rest) /\ rest \in SUBSET Row
    BY <1>3, ShelfFacts DEF Indexed
  <2>2. PICK l \in here :
          /\ \A y \in here : y = l \/ Before(y, l)
          /\ \A z \in rest \ here : Before(l, z)
    BY <1>2, <1>4, <1>14, <2>1, PageIs
  <2>3. ASSUME NEW k \in here, \A y \in here : y = k \/ Before(y, k) PROVE k = l
    <3>1. k \in Row /\ l \in Row
      BY <1>3
    <3> QED BY <2>2, <2>3, <3>1, BeforeIsOrder
  <2>4. l = CHOOSE x \in here : \A y \in here : y = x \/ Before(y, x)
    BY <2>2, <2>3
  <2>5. page' = [of |-> "more", after |-> CursorOf(l)]
    BY <1>7, <1>14, <2>4
  <2>6. l \in Row /\ l \in Listable /\ Below(l, page.after)
    BY <1>1, <1>3
  <2>7. page' \in [of : {"none", "more", "over"}, after : Cursor] /\ page'.of = "more" /\ page'.after = CursorOf(l)
    <3>1. CursorOf(l) \in Cursor
      BY <2>6, ShelfAssumption DEF CursorOf, Cursor, Row, ShelfAssumption
    <3> QED BY <2>5, <3>1
  <2>8. Opened'
    BY <2>7 DEF Opened
  <2>9. ASSUME NEW f \in steady' PROVE Turned(f)'
    <3>1. PICK x \in Listable :
            /\ x.file = f /\ \A y \in Listable : y.file = f => y = x
            /\ listed[f] = IF x \in rest THEN 0 ELSE 1
            /\ listed'[f] = IF x \in here THEN listed[f] + 1 ELSE listed[f]
      BY <1>5, <1>11
    <3>2. x \in Row /\ l \in Row
      BY <2>6, ShelfFacts DEF Listable, ShelfTyped
    <3>3. /\ x.moment \in Nat /\ x.file \in Nat /\ x.version \in Nat
          /\ l.moment \in Nat /\ l.file \in Nat /\ l.version \in Nat
      BY <3>2, ShelfAssumption DEF Row, ShelfAssumption
    <3>4. CASE x \in here
      <4>1. listed'[f] = 1
        BY <1>3, <3>1, <3>4
      <4>2. ~Below(x, CursorOf(l))
        <5>1. x = l \/ Before(x, l)
          BY <2>2, <3>4
        <5> QED BY <3>3, <5>1 DEF Below, Before, CursorOf
      <4>3. ~Below(x, page'.after)
        BY <2>7, <4>2
      <4> QED BY <1>12, <3>1, <4>1, <4>3 DEF Turned, Below
    <3>5. CASE x \in rest \ here
      <4>1. listed'[f] = 0
        BY <3>1, <3>5
      <4>2. Before(l, x) /\ x # l
        BY <2>2, <3>5
      <4>3. x.file # l.file
        BY <2>6, <3>1, <4>2
      <4>4. Below(x, CursorOf(l))
        BY <3>3, <4>2, <4>3 DEF Below, Before, CursorOf
      <4>5. Below(x, page'.after)
        BY <2>7, <4>4
      <4> QED BY <1>12, <2>7, <3>1, <4>1, <4>5 DEF Turned, Below
    <3>6. CASE x \notin rest
      <4>1. listed'[f] = 1
        BY <1>3, <3>1, <3>6
      <4>2. ~Below(x, page.after)
        BY <1>1, <3>6
      <4>3. ~Below(x, CursorOf(l))
        <5>1. page.after.moment \in Nat /\ page.after.file \in Nat
          BY ShelfFacts, ShelfAssumption DEF ShelfTyped, Cursor, ShelfAssumption
        <5> QED BY <2>6, <3>3, <4>2, <5>1 DEF Below, CursorOf
      <4>4. ~Below(x, page'.after)
        BY <2>7, <4>3
      <4> QED BY <1>12, <3>1, <4>1, <4>4 DEF Turned, Below
    <3> QED BY <3>4, <3>5, <3>6
  <2> QED BY <1>9, <1>12, <2>7, <2>8, <2>9, ListingKeeps
<1> QED BY <1>13, <1>14

-----------------------------------------------------------------------------
LEMMA ShelfStarts == ShelfInit => ShelfInv
<1> SUFFICES ASSUME ShelfInit PROVE ShelfInv
  OBVIOUS
<1> DEFINE n == AtFirst
<1>1. PICK moments \in [1 .. n -> 0 .. MaxMoment], contents \in [1 .. n -> Content] :
        rows = {NewRow(f, 1, contents[f], moments[f]) : f \in 1 .. n}
  BY DEF ShelfInit, ShelfOf
<1>2. /\ begun = n /\ asked = 0 /\ stage = [c \in Client |-> "idle"] /\ file = [c \in Client |-> 0]
      /\ number = [c \in Client |-> 0] /\ brought = [c \in Client |-> Fresh]
      /\ noted = {} /\ shown = TRUE /\ page = [of |-> "none", after |-> NoCursor]
      /\ listed = [f \in 1 .. MaxFiles |-> 0] /\ steady = {}
  BY DEF ShelfInit, ShelfOf
<1>3. /\ n \in Nat /\ n <= MaxFiles /\ n <= Quota /\ MaxFiles \in Nat /\ MaxAsked \in Nat /\ MaxMoment \in Nat
      /\ Quota \in Nat
  BY ShelfAssumption DEF ShelfAssumption
<1> HIDE DEF n
<1>4. PICK g : g = [f \in 1 .. n |-> NewRow(f, 1, contents[f], moments[f])]
  OBVIOUS
<1>5. rows = {g[f] : f \in 1 .. n}
  BY <1>1, <1>4
<1>6. ASSUME NEW f \in 1 .. n PROVE g[f] \in Row /\ g[f].file = f /\ g[f].version = 1
  <2>1. f \in 1 .. MaxFiles /\ 1 \in 1 .. MaxAsked + 1 /\ contents[f] \in What /\ Fresh \in What
    BY <1>3 DEF What
  <2> QED BY <1>4, <2>1 DEF Row, NewRow
<1>7. rows \subseteq Row
  BY <1>5, <1>6
<1>8. IsFiniteSet(1 .. n) /\ Cardinality(1 .. n) = n
  <2>1. 1 \in Int /\ n \in Int
    BY <1>3
  <2>2. IsFiniteSet(1 .. n) /\ Cardinality(1 .. n) = IF 1 > n THEN 0 ELSE n - 1 + 1
    BY <2>1, FS_Interval
  <2> QED BY <1>3, <2>2
<1>9. IsFiniteSet(rows) /\ Cardinality(rows) <= n
  <2>1. g \in Surjection(1 .. n, rows)
    BY <1>4, <1>5 DEF Surjection
  <2> QED BY <1>8, <2>1, FS_Surjection
<1>10. ShelfTyped
  <2>1. page \in [of : {"none", "more", "over"}, after : Cursor]
    BY <1>2, <1>3 DEF NoCursor, Cursor
  <2>2. TaskTyped
    BY <1>2, <1>3 DEF TaskTyped, What
  <2>3. begun \in 0 .. MaxFiles /\ asked \in 0 .. MaxAsked /\ noted \subseteq Client /\ shown \in BOOLEAN
    BY <1>2, <1>3
  <2>4. listed \in [1 .. MaxFiles -> Nat] /\ steady \subseteq 1 .. MaxFiles
    BY <1>2
  <2> QED BY <1>7, <1>9, <2>1, <2>2, <2>3, <2>4 DEF ShelfTyped
<1>11. Counted
  BY <1>2, <1>5, <1>6 DEF Counted, Within, Uploading
<1>12. Indexed(rows)
  BY <1>5, <1>6 DEF Indexed
<1>13. Roomy
  <2>1. Admitted = {}
    BY <1>2 DEF Admitted
  <2>2. Cardinality(Admitted) = 0
    BY <2>1, FS_EmptySet
  <2>3. IsFiniteSet(Client) /\ Client # {}
    BY ShelfAssumption DEF ShelfAssumption
  <2>4. Cardinality(Client) \in Nat /\ Cardinality(Client) # 0
    BY <2>3, FS_CardinalityType, FS_EmptySet
  <2>5. Cardinality(rows) \in Nat
    BY <1>9, FS_CardinalityType
  <2> QED BY <1>3, <1>9, <2>2, <2>4, <2>5 DEF Roomy, Used
<1>14. \A c \in Client : UpToDate(c)
  BY <1>2 DEF UpToDate
<1>15. Opened
  BY <1>2 DEF Opened
<1>16. shown /\ \A f \in steady : Turned(f)
  BY <1>2
<1> QED BY <1>10, <1>11, <1>12, <1>13, <1>14, <1>15, <1>16 DEF ShelfInv

LEMMA ShelfStep == ShelfInv /\ [ShelfNext]_shelfVars => ShelfInv'
<1> SUFFICES ASSUME ShelfInv, [ShelfNext]_shelfVars PROVE ShelfInv'
  OBVIOUS
<1>1. CASE UNCHANGED shelfVars
  <2>1. UNCHANGED <<rows, begun, asked, stage, file, number, brought, noted, shown, page, listed, steady>>
    BY <1>1 DEF shelfVars, counts, task, listing
  <2>2. UNCHANGED <<rows, counts, task, noted, shown>>
    BY <2>1 DEF counts, task
  <2>3. Opened' /\ \A f \in steady' : Turned(f)'
    BY <2>1, SameListing DEF listing
  <2> QED BY <2>1, <2>2, <2>3, ShelfFacts, ListingKeeps DEF ShelfTyped
<1>2. CASE \E c \in Client, what \in Content : NewFile(c, what)
  BY <1>2, NewFileKeeps
<1>3. CASE \E c \in Client, what \in Content, f \in 1 .. MaxFiles : NewVersion(c, f, what)
  BY <1>3, NewVersionKeeps
<1>4. CASE \E c \in Client, f \in 1 .. MaxFiles : AskUpdate(c, f)
  BY <1>4, AskUpdateKeeps
<1>5. CASE \E c \in Client : EarlyCheck(c) \/ CheckQuota(c) \/ FindSame(c) \/ InsertVersion(c) \/ Unflag(c)
  BY <1>5, EarlyCheckKeeps, CheckQuotaKeeps, FindSameKeeps, InsertKeeps, UnflagKeeps
<1>6. CASE \E c \in Client : FindNewest(c) \/ ApplyUpdate(c) \/ AnswerUpdate(c)
  BY <1>6, FindNewestKeeps, ApplyUpdateKeeps, AnswerUpdateKeeps
<1>7. CASE \E f \in 1 .. MaxFiles : PutAway(f)
  BY <1>7, PutAwayKeeps
<1>8. CASE StartListing \/ ReadPage
  BY <1>8, StartListingKeeps, ReadPageKeeps
<1> QED BY <1>1, <1>2, <1>3, <1>4, <1>5, <1>6, <1>7, <1>8 DEF ShelfNext

LEMMA ShelfStays == ShelfSpec => []ShelfInv
<1> QED BY ShelfStarts, ShelfStep, PTL DEF ShelfSpec

\* However many uploads are checked at once, what is stored passes the quota by no more than the
\* others that were let in with the one that filled it.
THEOREM QuotaStays == ShelfSpec => []QuotaBounded
<1>1. ShelfInv => QuotaBounded
  <2> SUFFICES ASSUME ShelfInv PROVE QuotaBounded
    OBVIOUS
  <2>1. PICK a \in Nat : a = Cardinality(Admitted)
    BY AdmittedIs
  <2>2. Cardinality(rows) \in Nat /\ Cardinality(Client) \in Nat /\ Quota \in Nat
    BY ShelfFacts, FS_CardinalityType, AdmittedIs, ShelfAssumption DEF ShelfTyped, ShelfAssumption
  <2>3. Cardinality(rows) + a <= Quota + Cardinality(Client) - 1
    BY <2>1, ShelfFacts DEF Roomy, Used
  <2> QED BY <2>2, <2>3 DEF QuotaBounded, Used
<1> QED BY <1>1, ShelfStays, PTL

\* Whoever follows the cursors to the end has seen every file that nobody touched exactly once,
\* whatever was added, changed or deleted around it.
THEOREM PagesStayWhole == ShelfSpec => []PagesAreWhole
<1>1. ShelfInv => PagesAreWhole
  BY ShelfFacts DEF PagesAreWhole, Turned
<1> QED BY <1>1, ShelfStays, PTL

\* An update answers with what it stored, on the newest version, unless somebody changed the file
\* between its two reads.
THEOREM UpdatesStayShown == ShelfSpec => []UpdatesAreShown
<1>1. ShelfInv => UpdatesAreShown
  BY ShelfFacts DEF UpdatesAreShown
<1> QED BY <1>1, ShelfStays, PTL

-----------------------------------------------------------------------------
(***************************************************************************)
(* The audit log: LogInv.                                                  *)
(***************************************************************************)
ReaderRecord ==
  [pages : BOOLEAN, cursor : Event \cup {Start}, page : Nat, got : Seq(Event), had : SUBSET Event]

LogTyped ==
  /\ clock \in 0 .. MaxTime /\ log \subseteq Event /\ IsFiniteSet(log) /\ reader \in ReaderRecord

\* An identifier is given once.
Identified ==
  /\ \A e, f \in log : e.id = f.id => e = f
  /\ \A e \in log \cup reader.had : e.id \in used

Descending(s) == \A i, j \in 1 .. Len(s) : i < j => Earlier(s[j], s[i])

Holds(s, e) == \E i \in 1 .. Len(s) : s[i] = e

\* What the reader was given ends at its cursor, and what it was not given follows there.
Followable ==
  /\ Descending(reader.got)
  /\ reader.pages =>
       /\ \A i \in 1 .. Len(reader.got) : reader.got[i] = reader.cursor \/ Earlier(reader.cursor, reader.got[i])
       /\ \A e \in reader.had \cap log : Holds(reader.got, e) \/ Earlier(e, reader.cursor)
  /\ ~reader.pages /\ reader.got # <<>> => \A e \in reader.had \cap log : Holds(reader.got, e)

LogInv == LogTyped /\ Identified /\ Followable

-----------------------------------------------------------------------------
(* Sorting.                                                                *)

LEMMA EventIs ==
  ASSUME NEW x \in Event
  PROVE  x.at \in Nat /\ x.id \in Nat /\ x.at <= MaxTime
<1>1. x.at \in 0 .. MaxTime /\ x.id \in LogId
  BY DEF Event
<1>2. LogId \subseteq Nat
  BY LogAssumption DEF LogAssumption
<1>3. MaxTime \in Nat
  BY LogAssumption DEF LogAssumption
<1>4. x.at \in Nat /\ x.at <= MaxTime
  BY <1>1, <1>3
<1>5. x.id \in Nat
  BY <1>1, <1>2
<1> QED BY <1>4, <1>5

LEMMA EarlierIsOrder ==
  ASSUME NEW e \in Event \cup {Start}, NEW f \in Event \cup {Start}, NEW g \in Event \cup {Start}
  PROVE  /\ ~Earlier(e, e)
         /\ Earlier(e, f) /\ Earlier(f, g) => Earlier(e, g)
         /\ e.id = f.id \/ Earlier(e, f) \/ Earlier(f, e)
<1>1. /\ e.at \in Nat /\ f.at \in Nat /\ g.at \in Nat
      /\ e.id \in Nat /\ f.id \in Nat /\ g.id \in Nat
  <2>1. \A x \in Event : x.at \in Nat /\ x.id \in Nat
    BY EventIs
  <2>2. Start.at \in Nat /\ Start.id \in Nat
    BY LogAssumption DEF Start, LogAssumption
  <2> QED BY <2>1, <2>2
<1> QED BY <1>1 DEF Earlier

OnePerId(S) == \A e, f \in S : e.id = f.id => e = f

Sorts(s, n) == \A i, j \in 1 .. n : i < j => Earlier(s[j], s[i])

Sortable(n) ==
  \A S \in SUBSET Event :
    IsFiniteSet(S) /\ OnePerId(S) /\ Cardinality(S) = n => \E s \in [1 .. n -> S] : Sorts(s, n)

LEMMA SortsOneMore ==
  ASSUME NEW n \in Nat, n # 0, Sortable(n - 1)
  PROVE  Sortable(n)
<1> SUFFICES ASSUME NEW S \in SUBSET Event, IsFiniteSet(S), OnePerId(S), Cardinality(S) = n
             PROVE  \E s \in [1 .. n -> S] : Sorts(s, n)
  BY DEF Sortable
<1> DEFINE R == {p \in S \X S : Earlier(p[1], p[2])}
<1>1. S # {}
  BY FS_EmptySet
<1>2. PICK m \in S : \A e \in S : ~Earlier(e, m)
  <2>1. \A e \in S : <<e, e>> \notin R
    BY EarlierIsOrder
  <2>2. \A e, f, g \in S : <<e, f>> \in R /\ <<f, g>> \in R => <<e, g>> \in R
    <3>1. \A e, f, g \in S : Earlier(e, f) /\ Earlier(f, g) => Earlier(e, g)
      BY EarlierIsOrder
    <3> QED BY <3>1
  <2>3. \A e, f \in S : <<e, f>> \notin R => ~Earlier(e, f)
    OBVIOUS
  <2> HIDE DEF R
  <2>4. \E m \in S : \A e \in S : <<e, m>> \notin R
    BY <1>1, <2>1, <2>2, ExtremeExists
  <2> QED BY <2>3, <2>4
<1>3. PICK T \in SUBSET Event : T = S \ {m}
  OBVIOUS
<1>4. IsFiniteSet(T) /\ Cardinality(T) = n - 1
  BY <1>2, <1>3, FS_RemoveElement
<1>5. OnePerId(T)
  BY <1>3 DEF OnePerId
<1>6. PICK t \in [1 .. n - 1 -> T] : Sorts(t, n - 1)
  BY <1>4, <1>5 DEF Sortable
<1>7. PICK s : s = [i \in 1 .. n |-> IF i < n THEN t[i] ELSE m]
  OBVIOUS
<1>8. \A i \in 1 .. n : IF i < n THEN s[i] = t[i] /\ t[i] \in T ELSE s[i] = m
  BY <1>6, <1>7
<1>9. s \in [1 .. n -> S]
  BY <1>3, <1>7, <1>8
<1>10. Sorts(s, n)
  <2> SUFFICES ASSUME NEW i \in 1 .. n, NEW j \in 1 .. n, i < j PROVE Earlier(s[j], s[i])
    BY DEF Sorts
  <2>1. CASE j < n
    <3>1. i \in 1 .. n - 1 /\ j \in 1 .. n - 1
      BY <2>1
    <3>2. Earlier(t[j], t[i])
      BY <1>6, <3>1 DEF Sorts
    <3> QED BY <1>8, <2>1, <3>1, <3>2
  <2>2. CASE ~(j < n)
    <3>1. s[j] = m /\ s[i] = t[i] /\ t[i] \in T
      BY <1>8, <2>2
    <3>2. t[i] \in S /\ t[i] # m
      BY <1>3, <3>1
    <3>3. t[i].id # m.id
      BY <3>2 DEF OnePerId
    <3>4. Earlier(m, t[i])
      BY <1>2, <3>2, <3>3, EarlierIsOrder
    <3> QED BY <3>1, <3>4
  <2> QED BY <2>1, <2>2
<1> QED BY <1>9, <1>10

\* Any finite set can be sorted: there is no smallest size at which it cannot.
LEMMA AllSortable == \A n \in Nat : Sortable(n)
<1> DEFINE Bad == {n \in Nat : ~Sortable(n)}
<1> SUFFICES ASSUME Bad # {} PROVE FALSE
  OBVIOUS
<1>1. PICK n \in Bad : \A k \in Bad : <<k, n>> \notin Less
  <2>1. Bad \subseteq Nat
    OBVIOUS
  <2> HIDE DEF Bad
  <2> QED BY <2>1, LessIsWellFounded, WFMin
<1>2. CASE n = 0
  <2>1. Sortable(0)
    <3> SUFFICES ASSUME NEW S \in SUBSET Event PROVE \E s \in [1 .. 0 -> S] : Sorts(s, 0)
      BY DEF Sortable
    <3>1. PICK s : s = [i \in 1 .. 0 |-> Start]
      OBVIOUS
    <3>2. s \in [1 .. 0 -> S]
      BY <3>1
    <3>3. Sorts(s, 0)
      BY DEF Sorts
    <3> QED BY <3>2, <3>3
  <2> QED BY <1>2, <2>1
<1>3. CASE n # 0
  <2>1. n \in Nat /\ n - 1 \in Nat
    BY <1>3
  <2>2. <<n - 1, n>> \in Less
    BY <2>1 DEF Less
  <2>3. Sortable(n - 1)
    BY <1>1, <2>1, <2>2
  <2> QED BY <1>3, <2>1, <2>3, SortsOneMore
<1> QED BY <1>2, <1>3

\* A sorted set is a sequence of all its elements.
LEMMA SortedIs ==
  ASSUME NEW S \in SUBSET Event, IsFiniteSet(S), OnePerId(S)
  PROVE  /\ Sorted(S) \in Seq(S) /\ Len(Sorted(S)) = Cardinality(S) /\ Descending(Sorted(S))
         /\ \A e \in S : Holds(Sorted(S), e)
<1>1. PICK n \in Nat : n = Cardinality(S)
  BY FS_CardinalityType
<1>2. \E s \in [1 .. n -> S] : Sorts(s, n)
  BY <1>1, AllSortable DEF Sortable
<1>3. Sorted(S) = CHOOSE s \in [1 .. n -> S] : \A i, j \in 1 .. n : i < j => Earlier(s[j], s[i])
  BY <1>1 DEF Sorted
<1>4. PICK s \in [1 .. n -> S] : s = Sorted(S) /\ Sorts(s, n)
  BY <1>2, <1>3 DEF Sorts
<1>5. s \in Seq(S) /\ Len(s) = n
  <2>1. s \in Seq(S)
    BY <1>4, SeqDef
  <2>2. DOMAIN s = 1 .. n /\ DOMAIN s = 1 .. Len(s) /\ Len(s) \in Nat
    BY <1>4, <2>1, LenProperties
  <2> QED BY <2>1, <2>2
<1>6. Descending(s)
  BY <1>4, <1>5 DEF Descending, Sorts
<1>7. \A e \in S : Holds(s, e)
  <2>1. ASSUME NEW i \in 1 .. n, NEW j \in 1 .. n, s[i] = s[j] PROVE i = j
    <3>1. s[i] \in Event
      BY <1>4
    <3>2. ~Earlier(s[i], s[i])
      BY <3>1, EarlierIsOrder
    <3>3. ~(i < j) /\ ~(j < i)
      BY <1>4, <2>1, <3>2 DEF Sorts
    <3> QED BY <3>3
  <2>2. s \in Injection(1 .. n, S)
    BY <1>4, <2>1 DEF Injection, IsInjective
  <2>3. IsFiniteSet(1 .. n) /\ Cardinality(1 .. n) = n
    <3>1. 1 \in Int /\ n \in Int
      OBVIOUS
    <3>2. IsFiniteSet(1 .. n) /\ Cardinality(1 .. n) = IF 1 > n THEN 0 ELSE n - 1 + 1
      BY <3>1, FS_Interval
    <3> QED BY <3>2
  <2>4. s \in Surjection(1 .. n, S)
    BY <1>1, <2>2, <2>3, FS_Injection
  <2> QED BY <1>5, <2>4 DEF Surjection, Holds
<1> QED BY <1>1, <1>4, <1>5, <1>6, <1>7

-----------------------------------------------------------------------------
(* Steps.                                                                  *)

LEMMA LogFacts ==
  ASSUME LogInv
  PROVE  LogTyped /\ Identified /\ Followable
BY DEF LogInv

LEMMA LogStarts == LogInit => LogInv
<1> SUFFICES ASSUME LogInit PROVE LogInv
  OBVIOUS
<1>1. clock = 0 /\ log = {} /\ reader = NoReader
  BY DEF LogInit
<1>2. reader.pages = FALSE /\ reader.got = <<>> /\ reader.had = {}
  BY <1>1 DEF NoReader
<1>3. LogTyped
  <2>1. NoReader \in ReaderRecord
    <3>1. <<>> \in Seq(Event)
      BY EmptySeq
    <3> QED BY <3>1 DEF NoReader, ReaderRecord
  <2>2. clock \in 0 .. MaxTime /\ IsFiniteSet(log) /\ log \subseteq Event
    BY <1>1, FS_EmptySet, LogAssumption DEF LogAssumption
  <2> QED BY <1>1, <2>1, <2>2 DEF LogTyped
<1>4. Identified
  BY <1>1, <1>2 DEF Identified
<1>5. Followable
  <2>1. Len(reader.got) = 0
    BY <1>2, EmptySeq
  <2> QED BY <1>2, <2>1 DEF Followable, Descending
<1> QED BY <1>3, <1>4, <1>5 DEF LogInv

\* What comes and goes in the log does not concern who has begun to read it.
LEMMA LogChangeKeeps ==
  ASSUME LogInv, UNCHANGED reader, clock' \in 0 .. MaxTime, log' \subseteq Event, IsFiniteSet(log'),
         Identified', reader.had \cap log' \subseteq log
  PROVE  LogInv'
<1>1. LogTyped'
  BY LogFacts DEF LogTyped
<1>2. Followable'
  <2>1. reader'.had \cap log' \subseteq reader.had \cap log
    OBVIOUS
  <2> QED BY <2>1, LogFacts DEF Followable, Descending, Holds, Earlier
<1> QED BY <1>1, <1>2 DEF LogInv

LEMMA RecordEventKeeps ==
  ASSUME LogInv, NEW e \in Event, RecordEvent(e)
  PROVE  LogInv'
<1>1. e.id \notin used /\ log' = log \cup {e} /\ used' = used \cup {e.id} /\ UNCHANGED <<clock, reader>>
  BY DEF RecordEvent
<1>2. log' \subseteq Event /\ IsFiniteSet(log') /\ clock' \in 0 .. MaxTime
  BY <1>1, LogFacts, FS_AddElement DEF LogTyped
<1>3. Identified'
  BY <1>1, LogFacts DEF Identified
<1>4. reader.had \cap log' \subseteq log
  BY <1>1, LogFacts DEF Identified
<1> QED BY <1>1, <1>2, <1>3, <1>4, LogChangeKeeps

LEMMA PurgeLogKeeps ==
  ASSUME LogInv, PurgeLog
  PROVE  LogInv'
<1>1. PICK e : log' = log \ {e} /\ UNCHANGED <<clock, used, reader>>
  BY DEF PurgeLog
<1>2. log' \subseteq Event /\ IsFiniteSet(log') /\ clock' \in 0 .. MaxTime
  BY <1>1, LogFacts, FS_RemoveElement DEF LogTyped
<1>3. Identified' /\ reader.had \cap log' \subseteq log
  BY <1>1, LogFacts DEF Identified
<1> QED BY <1>1, <1>2, <1>3, LogChangeKeeps

LEMMA TickKeeps ==
  ASSUME LogInv, Tick
  PROVE  LogInv'
<1>1. clock < MaxTime /\ clock' = clock + 1 /\ UNCHANGED <<log, used, reader>>
  BY DEF Tick
<1>2. clock' \in 0 .. MaxTime
  BY <1>1, LogFacts, LogAssumption DEF LogTyped, LogAssumption
<1>3. log' \subseteq Event /\ IsFiniteSet(log') /\ Identified'
  BY <1>1, LogFacts DEF LogTyped, Identified
<1> QED BY <1>1, <1>2, <1>3, LogChangeKeeps

LEMMA PrefixIs ==
  ASSUME NEW s, NEW k \in Nat, NEW S, \A i \in 1 .. k : s[i] \in S
  PROVE  /\ SubSeq(s, 1, k) \in Seq(S) /\ Len(SubSeq(s, 1, k)) = k
         /\ \A i \in 1 .. k : SubSeq(s, 1, k)[i] = s[i]
<1>1. 1 \in Int /\ k \in Int
  OBVIOUS
<1>2. PICK t : t = SubSeq(s, 1, k)
  OBVIOUS
<1>3. t \in Seq(S) /\ Len(t) = (IF 1 <= k THEN k - 1 + 1 ELSE 0) /\ \A i \in 1 .. k - 1 + 1 : t[i] = s[1 + i - 1]
  BY <1>1, <1>2, SubSeqProperties
<1>4. Len(t) = k
  <2>1. CASE k = 0
    <3>1. ~(1 <= k)
      BY <2>1
    <3> QED BY <1>3, <2>1, <3>1
  <2>2. CASE k # 0
    <3>1. 1 <= k /\ k - 1 + 1 = k
      BY <2>2
    <3> QED BY <1>3, <3>1
  <2> QED BY <2>1, <2>2
<1>5. ASSUME NEW i \in 1 .. k PROVE t[i] = s[i]
  <2>1. i \in 1 .. k - 1 + 1 /\ 1 + i - 1 = i
    OBVIOUS
  <2> QED BY <1>3, <2>1
<1> QED BY <1>2, <1>3, <1>4, <1>5

\* A reader's next page, from what it goes on from.
Continues(old, start, had, entries, S, following, n, k, g, got, cursor) ==
  /\ old \in Seq(Event) /\ start \in Event \cup {Start} /\ entries \in SUBSET Event
  /\ Descending(old)
  /\ \A i \in 1 .. Len(old) : old[i] = start \/ Earlier(start, old[i])
  /\ \A e \in had \cap entries : Holds(old, e) \/ Earlier(e, start)
  /\ S \in SUBSET entries /\ \A e \in entries : e \in S <=> Earlier(e, start)
  /\ n \in Nat /\ n = Len(following) /\ Descending(following)
  /\ \A i \in 1 .. n : following[i] \in S
  /\ \A e \in S : Holds(following, e)
  /\ k \in Nat /\ k <= n /\ k <= PageSize /\ (k = n \/ k = PageSize)
  /\ g \in Nat /\ g = Len(old)
  /\ got \in Seq(Event) /\ Len(got) = g + k
  /\ \A i \in 1 .. g + k : got[i] = IF i <= g THEN old[i] ELSE following[i - g]
  /\ n > PageSize => cursor = following[k]

LEMMA PageFollows ==
  ASSUME NEW old, NEW start, NEW had, NEW entries, NEW S, NEW following, NEW n, NEW k, NEW g, NEW got, NEW cursor,
         Continues(old, start, had, entries, S, following, n, k, g, got, cursor)
  PROVE  /\ Descending(got)
         /\ n > PageSize =>
              /\ cursor \in Event
              /\ \A i \in 1 .. Len(got) : got[i] = cursor \/ Earlier(cursor, got[i])
              /\ \A e \in had \cap entries : Holds(got, e) \/ Earlier(e, cursor)
         /\ ~(n > PageSize) => \A e \in had \cap entries : Holds(got, e)
<1> USE DEF Continues
<1>1. ASSUME NEW i \in 1 .. g PROVE got[i] = old[i] /\ old[i] \in Event
  <2>1. i \in 1 .. g + k /\ i <= g
    OBVIOUS
  <2>2. got[i] = old[i]
    BY <2>1
  <2>3. old[i] \in Event
    BY ElementOfSeq
  <2> QED BY <2>2, <2>3
<1>2. ASSUME NEW i \in g + 1 .. g + k
       PROVE  /\ i - g \in 1 .. k /\ i - g \in 1 .. n /\ got[i] = following[i - g]
              /\ got[i] \in S /\ got[i] \in Event /\ Earlier(got[i], start)
  <2>1. i \in 1 .. g + k /\ ~(i <= g) /\ i - g \in 1 .. k /\ i - g \in 1 .. n
    OBVIOUS
  <2>2. got[i] = following[i - g]
    BY <2>1
  <2>3. got[i] \in S
    BY <2>1, <2>2
  <2> QED BY <2>1, <2>2, <2>3
<1>3. Descending(got)
  <2> SUFFICES ASSUME NEW i \in 1 .. g + k, NEW j \in 1 .. g + k, i < j PROVE Earlier(got[j], got[i])
    BY DEF Descending
  <2>1. CASE j <= g
    <3>1. i \in 1 .. g /\ j \in 1 .. g
      BY <2>1
    <3>2. Earlier(old[j], old[i])
      BY <3>1 DEF Descending
    <3> QED BY <1>1, <3>1, <3>2
  <2>2. CASE i <= g /\ ~(j <= g)
    <3>1. i \in 1 .. g /\ j \in g + 1 .. g + k
      BY <2>2
    <3>2. got[j] \in Event /\ Earlier(got[j], start)
      BY <1>2, <3>1
    <3>3. got[i] \in Event /\ (got[i] = start \/ Earlier(start, got[i]))
      BY <1>1, <3>1
    <3> QED BY <3>2, <3>3, EarlierIsOrder
  <2>3. CASE ~(i <= g)
    <3>1. i \in g + 1 .. g + k /\ j \in g + 1 .. g + k /\ i - g < j - g
      BY <2>3
    <3>2. /\ got[i] = following[i - g] /\ got[j] = following[j - g]
          /\ i - g \in 1 .. n /\ j - g \in 1 .. n
      BY <1>2, <3>1
    <3>3. Earlier(following[j - g], following[i - g])
      BY <3>1, <3>2 DEF Descending
    <3> QED BY <3>2, <3>3
  <2> QED BY <2>1, <2>2, <2>3
\* Whatever was given before is still held.
<1>4. ASSUME NEW e, Holds(old, e) PROVE Holds(got, e)
  <2>1. PICK i \in 1 .. g : old[i] = e
    BY <1>4 DEF Holds
  <2>2. i \in 1 .. g + k
    OBVIOUS
  <2> QED BY <1>1, <2>1, <2>2 DEF Holds
<1>5. ASSUME NEW i \in 1 .. k PROVE Holds(got, following[i])
  <2>1. g + i \in g + 1 .. g + k /\ g + i \in 1 .. g + k /\ (g + i) - g = i
    OBVIOUS
  <2>2. got[g + i] = following[i]
    BY <1>2, <2>1
  <2> QED BY <2>1, <2>2 DEF Holds
<1>6. ASSUME NEW e \in had \cap entries, ~Holds(got, e)
       PROVE  \E i \in k + 1 .. n : following[i] = e
  <2>1. Earlier(e, start)
    BY <1>4, <1>6
  <2>2. e \in S
    BY <2>1
  <2>3. PICK i \in 1 .. n : following[i] = e
    BY <2>2 DEF Holds
  <2>4. i \notin 1 .. k
    BY <1>5, <1>6, <2>3
  <2> QED BY <2>3, <2>4
<1>7. n > PageSize => k = PageSize /\ k \in 1 .. n /\ k \in 1 .. k /\ cursor = following[k] /\ cursor \in Event
  <2> SUFFICES ASSUME n > PageSize
      PROVE  k = PageSize /\ k \in 1 .. n /\ k \in 1 .. k /\ cursor = following[k] /\ cursor \in Event
    OBVIOUS
  <2>1. k = PageSize /\ k \in 1 .. n /\ k \in 1 .. k
    BY LogAssumption DEF LogAssumption
  <2>2. cursor = following[k]
    BY <2>1
  <2> QED BY <2>1, <2>2
<1>8. ASSUME n > PageSize
       PROVE  /\ \A i \in 1 .. g + k : got[i] = cursor \/ Earlier(cursor, got[i])
              /\ \A e \in had \cap entries : Holds(got, e) \/ Earlier(e, cursor)
  <2>1. k = PageSize /\ k \in 1 .. n /\ k \in 1 .. k /\ cursor = following[k]
    BY <1>7, <1>8
  <2>2. g + k \in g + 1 .. g + k /\ g + k \in 1 .. g + k /\ (g + k) - g = k
    BY <2>1
  <2>3. got[g + k] = cursor
    BY <1>2, <2>1, <2>2
  <2>4. ASSUME NEW i \in 1 .. g + k PROVE got[i] = cursor \/ Earlier(cursor, got[i])
    <3>1. CASE i = g + k
      BY <2>3, <3>1
    <3>2. CASE i # g + k
      <4>1. i < g + k
        BY <3>2
      <4>2. Earlier(got[g + k], got[i])
        BY <1>3, <2>2, <4>1 DEF Descending
      <4> QED BY <2>3, <4>2
    <3> QED BY <3>1, <3>2
  <2>5. ASSUME NEW e \in had \cap entries, ~Holds(got, e) PROVE Earlier(e, cursor)
    <3>1. PICK i \in k + 1 .. n : following[i] = e
      BY <1>6, <2>5
    <3>2. i \in 1 .. n /\ k < i
      BY <2>1
    <3>3. Earlier(following[i], following[k])
      BY <2>1, <3>2 DEF Descending
    <3> QED BY <2>1, <3>1, <3>3
  <2> QED BY <2>4, <2>5
<1>9. ASSUME ~(n > PageSize), NEW e \in had \cap entries PROVE Holds(got, e)
  <2>1. k = n
    BY <1>9, LogAssumption DEF LogAssumption
  <2>2. ~\E i \in k + 1 .. n : following[i] = e
    BY <2>1
  <2> QED BY <1>6, <2>2
<1> QED BY <1>3, <1>7, <1>8, <1>9

LEMMA ListEventsKeeps ==
  ASSUME LogInv, ListEvents
  PROVE  LogInv'
<1>1. PICK from : from = IF reader.pages THEN reader ELSE [NoReader EXCEPT !.pages = TRUE, !.had = log]
  OBVIOUS
<1>2. PICK following : following = Following(from, log)
  OBVIOUS
<1>3. PICK taken : taken = SubSeq(following, 1, Min2(PageSize, Len(following)))
  OBVIOUS
<1>4. reader' = [from EXCEPT !.pages = Len(following) > PageSize,
                             !.page = @ + 1,
                             !.cursor = IF Len(following) > PageSize THEN taken[Len(taken)] ELSE @,
                             !.got = @ \o taken]
      /\ UNCHANGED <<clock, log, used>>
  BY <1>1, <1>2, <1>3 DEF ListEvents
<1>5. PICK entries \in SUBSET Event : entries = log /\ IsFiniteSet(entries) /\ OnePerId(entries)
  BY LogFacts DEF LogTyped, Identified, OnePerId
<1>6. /\ from \in ReaderRecord /\ from.pages
      /\ Descending(from.got)
      /\ \A i \in 1 .. Len(from.got) : from.got[i] = from.cursor \/ Earlier(from.cursor, from.got[i])
      /\ \A e \in from.had \cap entries : Holds(from.got, e) \/ Earlier(e, from.cursor)
      /\ \A e \in from.had : e.id \in used
  <2>1. CASE reader.pages
    BY <1>1, <1>5, <2>1, LogFacts DEF LogTyped, Followable, Identified
  <2>2. CASE ~reader.pages
    <3>1. from = [NoReader EXCEPT !.pages = TRUE, !.had = log]
      BY <1>1, <2>2
    <3>2. from = [pages |-> TRUE, cursor |-> Start, page |-> 1, got |-> <<>>, had |-> log]
      BY <3>1 DEF NoReader
    <3>3. from.pages /\ from.cursor = Start /\ from.got = <<>> /\ from.had = log
      BY <3>2
    <3>4. <<>> \in Seq(Event) /\ Len(from.got) = 0
      BY <3>3, EmptySeq
    <3>5. from \in ReaderRecord
      BY <1>5, <3>2, <3>4 DEF ReaderRecord
    <3>6. \A e \in log : Earlier(e, Start)
      <4>1. ASSUME NEW e \in Event PROVE Earlier(e, Start)
        <5>1. e.at \in 0 .. MaxTime /\ MaxTime \in Nat
          BY LogAssumption DEF Event, LogAssumption
        <5>2. e.at < MaxTime + 1
          BY <5>1
        <5> QED BY <5>2 DEF Earlier, Start
      <4> QED BY <1>5, <4>1
    <3>7. \A e \in log : e.id \in used
      BY LogFacts DEF Identified
    <3> QED BY <3>3, <3>4, <3>5, <3>6, <3>7 DEF Descending
  <2> QED BY <2>1, <2>2
<1>7. PICK got : got = from.got \o taken
  OBVIOUS
<1>8. PICK cursor : cursor = IF Len(following) > PageSize THEN taken[Len(taken)] ELSE from.cursor
  OBVIOUS
<1>9. PICK more : more = (Len(following) > PageSize)
  OBVIOUS
<1>10. /\ got \in Seq(Event) /\ Descending(got)
       /\ more =>
            /\ cursor \in Event
            /\ \A i \in 1 .. Len(got) : got[i] = cursor \/ Earlier(cursor, got[i])
            /\ \A e \in from.had \cap entries : Holds(got, e) \/ Earlier(e, cursor)
       /\ ~more => \A e \in from.had \cap entries : Holds(got, e)
  <2>1. PICK old \in Seq(Event) : old = from.got
    BY <1>6 DEF ReaderRecord
  <2>2. PICK start \in Event \cup {Start} : start = from.cursor
    BY <1>6 DEF ReaderRecord
  <2>3. PICK had : had = from.had
    OBVIOUS
  <2>4. PICK S \in SUBSET entries : S = {e \in entries : Earlier(e, start)}
    OBVIOUS
  <2>5. IsFiniteSet(S) /\ OnePerId(S) /\ S \in SUBSET Event /\ following = Sorted(S)
    BY <1>2, <1>5, <2>2, <2>4, FS_Subset DEF Following, OnePerId
  <2>6. following \in Seq(S) /\ Descending(following) /\ \A e \in S : Holds(following, e)
    BY <2>5, SortedIs
  <2>7. PICK n \in Nat : n = Len(following)
    BY <2>6, LenProperties
  <2>8. \A i \in 1 .. n : following[i] \in S
    BY <2>6, <2>7, ElementOfSeq
  <2>9. PICK k \in Nat : k = Min2(PageSize, n) /\ k <= n /\ k <= PageSize /\ (k = n \/ k = PageSize)
    BY LogAssumption DEF LogAssumption, Min2
  <2>10. taken = SubSeq(following, 1, k)
    BY <1>3, <2>7, <2>9
  <2>11. \A i \in 1 .. k : following[i] \in Event
    <3>1. \A i \in 1 .. k : i \in 1 .. n
      BY <2>9
    <3> QED BY <2>5, <2>8, <3>1
  <2>12. taken \in Seq(Event) /\ Len(taken) = k /\ \A i \in 1 .. k : taken[i] = following[i]
    BY <2>10, <2>11, PrefixIs
  <2>13. PICK g \in Nat : g = Len(old)
    BY LenProperties
  <2>14. /\ got \in Seq(Event) /\ Len(got) = g + k
         /\ \A i \in 1 .. g + k : got[i] = IF i <= g THEN old[i] ELSE taken[i - g]
    <3>1. PICK t \in Seq(Event) : t = taken
      BY <2>12
    <3>2. /\ old \o t \in Seq(Event) /\ Len(old \o t) = Len(old) + Len(t)
          /\ \A i \in 1 .. Len(old) + Len(t) : (old \o t)[i] = IF i <= Len(old) THEN old[i] ELSE t[i - Len(old)]
      BY ConcatProperties
    <3>3. got = old \o t
      BY <1>7, <2>1, <3>1
    <3>4. Len(t) = k
      BY <2>12, <3>1
    <3> QED BY <2>13, <3>1, <3>2, <3>3, <3>4
  <2>15. \A i \in 1 .. g + k : got[i] = IF i <= g THEN old[i] ELSE following[i - g]
    <3>1. \A i \in 1 .. g + k : ~(i <= g) => i - g \in 1 .. k
      OBVIOUS
    <3> QED BY <2>12, <2>14, <3>1
  <2>16. n > PageSize => cursor = following[k]
    <3> SUFFICES ASSUME n > PageSize PROVE cursor = following[k]
      OBVIOUS
    <3>1. k \in 1 .. k
      BY <2>9, LogAssumption DEF LogAssumption
    <3> QED BY <1>8, <2>7, <2>12, <3>1
  <2>17. Descending(old)
    BY <1>6, <2>1
  <2>18. \A i \in 1 .. Len(old) : old[i] = start \/ Earlier(start, old[i])
    BY <1>6, <2>1, <2>2
  <2>19. \A e \in had \cap entries : Holds(old, e) \/ Earlier(e, start)
    BY <1>6, <2>1, <2>2, <2>3
  <2>20. \A e \in entries : e \in S <=> Earlier(e, start)
    BY <2>4
  <2>21. /\ Descending(got)
         /\ n > PageSize =>
              /\ cursor \in Event
              /\ \A i \in 1 .. Len(got) : got[i] = cursor \/ Earlier(cursor, got[i])
              /\ \A e \in had \cap entries : Holds(got, e) \/ Earlier(e, cursor)
         /\ ~(n > PageSize) => \A e \in had \cap entries : Holds(got, e)
    <3>1. Continues(old, start, had, entries, S, following, n, k, g, got, cursor)
      BY <2>6, <2>7, <2>8, <2>9, <2>13, <2>14, <2>15, <2>16, <2>17, <2>18, <2>19, <2>20 DEF Continues
    <3> QED BY <3>1, PageFollows
  <2> QED BY <1>9, <2>3, <2>7, <2>14, <2>21
<1>11. reader' = [from EXCEPT !.pages = more, !.page = @ + 1, !.cursor = cursor, !.got = got]
  BY <1>4, <1>7, <1>8, <1>9
<1>12. PICK next : next = reader'
  OBVIOUS
<1>13. /\ next.pages = more /\ next.cursor = cursor /\ next.got = got /\ next.had = from.had
       /\ next \in ReaderRecord
  <2>1. cursor \in Event \cup {Start}
    BY <1>6, <1>8, <1>9, <1>10 DEF ReaderRecord
  <2>2. from.page + 1 \in Nat
    BY <1>6 DEF ReaderRecord
  <2>3. more \in BOOLEAN
    BY <1>9
  <2> QED BY <1>6, <1>10, <1>11, <1>12, <2>1, <2>2, <2>3 DEF ReaderRecord
<1>14. LogTyped'
  BY <1>4, <1>12, <1>13, LogFacts DEF LogTyped
<1>15. Identified'
  BY <1>4, <1>6, <1>12, <1>13, LogFacts DEF Identified
<1>16. Followable'
  <2>1. log' = entries /\ reader'.pages = more /\ reader'.cursor = cursor /\ reader'.got = got
        /\ reader'.had = from.had
    BY <1>4, <1>5, <1>12, <1>13
  <2>2. Descending(reader.got)'
    BY <1>10, <2>1 DEF Descending, Earlier
  <2>3. \A e : Holds(reader.got, e)' <=> Holds(got, e)
    BY <2>1 DEF Holds
  <2>4. more => \A i \in 1 .. Len(reader'.got) :
          reader'.got[i] = reader'.cursor \/ Earlier(reader'.cursor, reader'.got[i])
    BY <1>10, <2>1
  <2>5. more => \A e \in from.had \cap entries : Holds(reader.got, e)' \/ Earlier(e, reader'.cursor)
    BY <1>10, <2>1, <2>3
  <2>6. ~more => \A e \in from.had \cap entries : Holds(reader.got, e)'
    BY <1>10, <2>3
  <2> QED BY <2>1, <2>2, <2>4, <2>5, <2>6 DEF Followable, Earlier, Holds
<1> QED BY <1>14, <1>15, <1>16 DEF LogInv

LEMMA LogStep == LogInv /\ [LogNext]_logVars => LogInv'
<1> SUFFICES ASSUME LogInv, [LogNext]_logVars PROVE LogInv'
  OBVIOUS
<1>1. CASE UNCHANGED logVars
  <2>1. UNCHANGED <<clock, log, used, reader>>
    BY <1>1 DEF logVars
  <2> QED BY <2>1, LogFacts, LogChangeKeeps DEF LogTyped, Identified
<1>2. CASE LogNext
  BY <1>2, ListEventsKeeps, PurgeLogKeeps, TickKeeps, RecordEventKeeps DEF LogNext
<1> QED BY <1>1, <1>2

\* Whoever pages through the audit log to its end has had every event that was there at the start
\* and still is, once and the newest first, whatever came late and whatever retention deleted.
THEOREM ListingStaysWhole == LogSpec => []ListingIsWhole
<1>1. LogInv => ListingIsWhole
  <2> SUFFICES ASSUME LogInv PROVE ListingIsWhole
    OBVIOUS
  <2>1. Descending(reader.got)
    BY LogFacts DEF Followable
  <2>2. ASSUME ~reader.pages, reader.got # <<>>, NEW e \in reader.had \cap log
        PROVE  e \in {reader.got[i] : i \in 1 .. Len(reader.got)}
    BY <2>2, LogFacts DEF Followable, Holds
  <2> QED BY <2>1, <2>2 DEF ListingIsWhole, Descending
<1>2. LogSpec => []LogInv
  BY LogStarts, LogStep, PTL DEF LogSpec
<1> QED BY <1>1, <1>2, PTL
=============================================================================
