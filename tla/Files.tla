------------------------------- MODULE Files -------------------------------
(***************************************************************************)
(* One stored file and its versions: app/services/file/file_service.py,    *)
(* its records (app/services/data/files_ops.py) and its bytes on a storage *)
(* backend (app/services/file/storage).                                    *)
(*                                                                         *)
(* A version is bytes at a path made of its number and its name, and a     *)
(* record in the database.  A request looks up the newest version, writes  *)
(* the bytes of the next one, then its record: the unique index decides    *)
(* who has the number, after the bytes are there.  One step is one call of *)
(* the database or of the storage backend.                                 *)
(***************************************************************************)
EXTENDS Naturals, FiniteSets, FiniteSetsExt, Functions

CONSTANTS
  Request,      \* requests that deal with the file
  Name,         \* file names clients choose
  MaxVersions,  \* file_max_versions
  MaxCuts       \* bound on the requests cut short

ASSUME BoundsAssumption == MaxVersions \in Nat \ {0} /\ MaxCuts \in Nat

VARIABLES
  records,  \* the records of the file, by version
  bytes,    \* the content of the paths in use; a content is named for who brought it
  created,  \* its first upload has begun: new files have ids of their own
  pc,       \* what each request does next
  kind,     \* what it is: "upload" or "modify"; "delete"
  path,     \* where the version it adds is stored
  source,   \* what it copies
  content,  \* the content it has in hand
  todo,     \* the paths a deletion has left
  clashed,  \* history: two requests were about to write to one path
  lost,     \* history: an edit found its version taken when it recorded it
  purged,   \* history: a hard delete has begun
  cuts      \* how many requests were cut short

request == <<pc, kind, path, source, content, todo>>
history == <<clashed, lost, purged, cuts>>
vars == <<records, bytes, created, request, history>>

Path == [version : 1 .. MaxVersions, name : Name]
NoPath == [version |-> 0, name |-> "none"]
NoContent == "none"

Init ==
  /\ records = << >> /\ bytes = << >>
  /\ created = FALSE
  /\ pc = [r \in Request |-> "idle"]
  /\ kind = [r \in Request |-> "none"]
  /\ path = [r \in Request |-> NoPath]
  /\ source = [r \in Request |-> NoPath]
  /\ content = [r \in Request |-> NoContent]
  /\ todo = [r \in Request |-> {}]
  /\ clashed = FALSE /\ lost = FALSE /\ purged = FALSE
  /\ cuts = 0

Live == {v \in DOMAIN records : ~records[v].deleted}

Newest == Max(Live)

\* f, with b at a.
Put(f, a, b) == [x \in DOMAIN f \cup {a} |-> IF x = a THEN b ELSE f[x]]

Goto(r, label) == pc' = [pc EXCEPT ![r] = label]

Finish(r) ==
  /\ Goto(r, "idle")
  /\ kind' = [kind EXCEPT ![r] = "none"]
  /\ path' = [path EXCEPT ![r] = NoPath]
  /\ source' = [source EXCEPT ![r] = NoPath]
  /\ content' = [content EXCEPT ![r] = NoContent]
  /\ todo' = [todo EXCEPT ![r] = {}]

\* All it needs from now on is its path.
Forget(r) ==
  /\ source' = [source EXCEPT ![r] = NoPath]
  /\ content' = [content EXCEPT ![r] = NoContent]
  /\ UNCHANGED <<kind, path, todo>>

-----------------------------------------------------------------------------
(* Adding a version.                                                       *)

Add(r, what, p, from) ==
  /\ Goto(r, "exists")
  /\ kind' = [kind EXCEPT ![r] = what]
  /\ path' = [path EXCEPT ![r] = p]
  /\ source' = [source EXCEPT ![r] = from]
  /\ content' = [content EXCEPT ![r] = r]
  /\ UNCHANGED <<records, bytes, todo, history>>

\* The first upload.
Create(r, n) ==
  /\ pc[r] = "idle" /\ ~created
  /\ created' = TRUE
  /\ Add(r, "upload", [version |-> 1, name |-> n], NoPath)

\* A new version of a file that is there, under any name.
Upload(r, n) ==
  /\ pc[r] = "idle" /\ Live # {} /\ Newest < MaxVersions
  /\ Add(r, "upload", [version |-> Newest + 1, name |-> n], NoPath)
  /\ UNCHANGED created

\* An edit: a copy of the newest version, under its name.
Modify(r) ==
  /\ pc[r] = "idle" /\ Live # {} /\ Newest < MaxVersions
  /\ LET latest == records[Newest].path IN
       Add(r, "modify", [latest EXCEPT !.version = Newest + 1], latest)
  /\ UNCHANGED created

\* Faulty variant: what is there is overwritten.
Anywhere(p) == TRUE

Vacant(p) == p \notin DOMAIN bytes

\* overwrite=False: refused if something is there, whoever left it.
Exists(r) ==
  /\ pc[r] = "exists"
  /\ IF Vacant(path[r])
     THEN /\ Goto(r, "store")
          /\ clashed' = (clashed \/ \E q \in Request : pc[q] = "store" /\ path[q] = path[r])
          /\ UNCHANGED <<kind, path, source, content, todo>>
     ELSE Finish(r) /\ UNCHANGED clashed
  /\ UNCHANGED <<records, bytes, created, lost, purged, cuts>>

\* The upload, or the copy, takes the path (a rename, or a PUT).
Store(r) ==
  /\ pc[r] = "store"
  /\ \/ /\ kind[r] = "upload"
        /\ bytes' = Put(bytes, path[r], content[r])
        /\ Goto(r, "record")
     \/ /\ kind[r] = "modify" /\ source[r] \in DOMAIN bytes
        /\ bytes' = Put(bytes, path[r], bytes[source[r]])
        /\ Goto(r, "edit")
  /\ UNCHANGED <<records, created, kind, path, source, content, todo, history>>

\* The copy is edited where it is.
Edit(r) ==
  /\ pc[r] = "edit" /\ path[r] \in DOMAIN bytes
  /\ bytes' = [bytes EXCEPT ![path[r]] = content[r]]
  /\ Goto(r, "measure")
  /\ UNCHANGED <<records, created, kind, path, source, content, todo, history>>

\* Its size and hash are those of what is there.
Measure(r) ==
  /\ pc[r] = "measure" /\ path[r] \in DOMAIN bytes
  /\ content' = [content EXCEPT ![r] = bytes[path[r]]]
  /\ Goto(r, "record")
  /\ UNCHANGED <<records, bytes, created, kind, path, source, todo, history>>

NewRecord(r) == [path |-> path[r], content |-> content[r], current |-> TRUE, deleted |-> FALSE]

Undone(r) == Goto(r, "undo") /\ Forget(r)

\* The unique index lets one request have the version; an upload removes its bytes otherwise.
Record(r) ==
  /\ pc[r] = "record"
  /\ IF path[r].version \in DOMAIN records
     THEN /\ UNCHANGED records
          /\ IF kind[r] = "upload"
             THEN Undone(r) /\ UNCHANGED lost
             ELSE Finish(r) /\ lost' = TRUE
     ELSE /\ records' = Put(records, path[r].version, NewRecord(r))
          /\ Goto(r, "demote") /\ Forget(r)
          /\ UNCHANGED lost
  /\ UNCHANGED <<bytes, created, clashed, purged, cuts>>

\* Faulty variant: the version before it is not.
OffByOne(v, w) == v + 1 < w

Older(v, w) == v < w

Demote(r) ==
  /\ pc[r] = "demote"
  /\ records' = [v \in DOMAIN records |->
                   IF Older(v, path[r].version) THEN [records[v] EXCEPT !.current = FALSE]
                   ELSE records[v]]
  /\ Finish(r)
  /\ UNCHANGED <<bytes, created, history>>

\* Over the quota, empty, a duplicate, too large, not to be edited: the bytes are removed.
Reject(r) ==
  /\ \/ pc[r] = "record" /\ kind[r] = "upload"
     \/ pc[r] \in {"edit", "measure"}
  /\ Undone(r)
  /\ UNCHANGED <<records, bytes, created, history>>

Undo(r) ==
  /\ pc[r] = "undo"
  /\ bytes' = Restrict(bytes, DOMAIN bytes \ {path[r]})
  /\ Finish(r)
  /\ UNCHANGED <<records, created, history>>

\* Refused before anything is stored.
Refuse(r) ==
  /\ pc[r] \in {"exists", "store"}
  /\ Finish(r)
  /\ UNCHANGED <<records, bytes, created, history>>

\* The time-out cancels the request between two calls, or the process dies: only Exceptions
\* are cleaned up after.
Cut(r) ==
  /\ pc[r] \notin {"idle", "exists", "store"} /\ cuts < MaxCuts
  /\ cuts' = cuts + 1
  /\ Finish(r)
  /\ UNCHANGED <<records, bytes, created, clashed, lost, purged>>

-----------------------------------------------------------------------------
(* Deleting.                                                               *)

\* One statement for all versions there are.
SoftDelete ==
  /\ Live # {}
  /\ records' = [v \in DOMAIN records |-> [records[v] EXCEPT !.deleted = TRUE]]
  /\ UNCHANGED <<bytes, created, request, history>>

Paths == {records[v].path : v \in DOMAIN records}

\* The bytes of the versions there are, one by one; then the records, read again.
HardDelete(r) ==
  /\ pc[r] = "idle" /\ DOMAIN records # {}
  /\ Goto(r, "purge")
  /\ kind' = [kind EXCEPT ![r] = "delete"]
  /\ todo' = [todo EXCEPT ![r] = Paths]
  /\ purged' = TRUE
  /\ UNCHANGED <<records, bytes, created, path, source, content, clashed, lost, cuts>>

Purge(r) ==
  /\ pc[r] = "purge" /\ todo[r] # {}
  /\ \E p \in todo[r] :
       /\ bytes' = Restrict(bytes, DOMAIN bytes \ {p})
       /\ todo' = [todo EXCEPT ![r] = @ \ {p}]
  /\ UNCHANGED <<records, created, pc, kind, path, source, content, history>>

ListAgain(r) ==
  /\ pc[r] = "purge" /\ todo[r] = {}
  /\ Goto(r, "erase")
  /\ todo' = [todo EXCEPT ![r] = Paths]
  /\ UNCHANGED <<records, bytes, created, kind, path, source, content, history>>

\* Newest first.
Erase(r) ==
  /\ pc[r] = "erase"
  /\ IF todo[r] = {} THEN Finish(r) /\ UNCHANGED records
     ELSE LET v == Max({p.version : p \in todo[r]}) IN
            /\ records' = Restrict(records, DOMAIN records \ {v})
            /\ todo' = [todo EXCEPT ![r] = {p \in @ : p.version # v}]
            /\ UNCHANGED <<pc, kind, path, source, content>>
  /\ UNCHANGED <<bytes, created, history>>

-----------------------------------------------------------------------------
Next ==
  \/ \E r \in Request :
       \/ \E n \in Name : Create(r, n) \/ Upload(r, n)
       \/ Modify(r) \/ Exists(r) \/ Store(r) \/ Edit(r) \/ Measure(r) \/ Record(r) \/ Demote(r)
       \/ Reject(r) \/ Undo(r) \/ Refuse(r) \/ Cut(r)
       \/ HardDelete(r) \/ Purge(r) \/ ListAgain(r) \/ Erase(r)
  \/ SoftDelete

Spec == Init /\ [][Next]_vars

-----------------------------------------------------------------------------
(* What a file promises.                                                   *)

Labels == {"idle", "exists", "store", "edit", "measure", "record", "demote", "undo",
           "purge", "erase"}

\* Every variable stays in its range; the number of a record is that of its path.
TypeOK ==
  /\ IsFiniteSet(DOMAIN records)
  /\ \A v \in DOMAIN records :
       /\ records[v] \in [path : Path, content : Request, current : BOOLEAN, deleted : BOOLEAN]
       /\ records[v].path.version = v
  /\ DOMAIN bytes \subseteq Path /\ Range(bytes) \subseteq Request
  /\ pc \in [Request -> Labels] /\ kind \in [Request -> {"none", "upload", "modify", "delete"}]
  /\ \A r \in Request :
       /\ {path[r], source[r]} \subseteq Path \cup {NoPath}
       /\ content[r] \in Request \cup {NoContent} /\ todo[r] \subseteq Path
       /\ pc[r] = "idle" <=> kind[r] = "none"
  /\ cuts \in 0 .. MaxCuts

\* Whatever uploads and edits race, are rejected or cut short, the bytes of a version are
\* those its record describes: unless two requests were about to write to one path at once,
\* or the file is being deleted for good.
BytesKept ==
  ~clashed /\ ~purged =>
    \A v \in DOMAIN records :
      records[v].path \in DOMAIN bytes /\ bytes[records[v].path] = records[v].content

\* Listings (is_latest) show the version that downloads serve (the newest).
CurrentIsNewest == ~purged /\ Live # {} => records[Newest].current

\* And they show it once, as soon as nobody has older versions left to demote.
OneCurrent ==
  cuts = 0 /\ ~purged /\ (\A r \in Request : pc[r] # "demote") =>
    \A v, w \in Live : records[v].current /\ records[w].current => v = w

\* Bytes that have no record belong to a request that is at work.
Reachable == \A p \in DOMAIN bytes : p \in Paths \/ \E r \in Request : path[r] = p

\* So it is as long as no request is cut short, no edit loses its version, no two requests
\* write to one path, and the file is not deleted for good.
NothingLeftBehind == cuts = 0 /\ ~lost /\ ~clashed /\ ~purged => Reachable

\* Records and bytes belong together, and listings and downloads agree.
BytesHold == TypeOK /\ BytesKept /\ NothingLeftBehind
VersionsHold == CurrentIsNewest /\ OneCurrent

-----------------------------------------------------------------------------
(* What the documentation says, and the code does not do.                  *)

\* "numbered versions, one record each, with immutable bytes", but for S3
BytesImmutable ==
  ~purged => \A v \in DOMAIN records :
               records[v].path \in DOMAIN bytes /\ bytes[records[v].path] = records[v].content

\* "Without its record the stored bytes could never be reached or deleted."
EditsCleanUp == cuts = 0 /\ ~clashed /\ ~purged => Reachable

\* "Also remove the stored bytes": once every deletion is over, no bytes are left alone.
DeletesCleanUp ==
  cuts = 0 /\ ~clashed /\ ~lost /\ (\A r \in Request : pc[r] = "idle") => Reachable

\* A file that may have another version can be given one, under any name.
NeverBlocked ==
  Live # {} /\ Newest < MaxVersions /\ (\A r \in Request : pc[r] = "idle") =>
    \A n \in Name : Vacant([version |-> Newest + 1, name |-> n])
=============================================================================
