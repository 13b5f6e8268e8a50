------------------------------ MODULE Uploads ------------------------------
(***************************************************************************)
(* Chunked uploads (app/services/file/chunked_upload.py) of one file under *)
(* one upload id.  The session's record lives in the cache, until it is    *)
(* deleted or its time is over; the chunks are files of the storage        *)
(* backend, which knows nothing of sessions.  The janitor                  *)
(* (app/utils/utils.py) removes chunks by their age alone.                 *)
(*                                                                         *)
(* The local backend writes a chunk where it is, so that there is part of  *)
(* one meanwhile, and for good if the request is cut; S3 puts it there in  *)
(* one step.                                                               *)
(***************************************************************************)
EXTENDS Naturals, FiniteSets

CONSTANTS
  Sender,   \* requests that send a chunk or complete the upload
  Total,    \* total_chunks
  Life      \* file_upload_ttl

ASSUME UploadAssumption == Total \in Nat \ {0} /\ Life \in Nat \ {0}

Chunk == 1 .. Total

VARIABLES
  storage,  \* "local" or "s3"
  session,  \* how long the session's record still lives; 0 if there is none
  chunk,    \* what is there of each chunk: "none", "part" or "whole"
  age,      \* time since it was last written
  folder,   \* the chunks' directory is there
  doomed,   \* chunks the janitor found old and is about to delete
  stage, number,    \* each request: its step and its chunk,
  held, remaining,  \* what it has read, and still has to delete
  sent,     \* history: chunks whose sender was told they are there
  counted,  \* history: senders at work since the last upload was completed or expired
  stored    \* history: what each stored file was made of

staged == <<chunk, age, folder>>
request == <<stage, number, held, remaining>>
history == <<sent, counted, stored>>
vars == <<storage, session, staged, doomed, request, history>>

Init ==
  /\ storage \in {"local", "s3"}
  /\ session = 0
  /\ chunk = [n \in Chunk |-> "none"] /\ age = [n \in Chunk |-> 0]
  /\ folder = FALSE /\ doomed = {}
  /\ stage = [r \in Sender |-> "idle"] /\ number = [r \in Sender |-> 1]
  /\ held = [r \in Sender |-> {}] /\ remaining = [r \in Sender |-> {}]
  /\ sent = {} /\ counted = {} /\ stored = {}

Present == {n \in Chunk : chunk[n] # "none"}
Goto(r, label) == stage' = [stage EXCEPT ![r] = label]
Cleaning == \E r \in Sender : stage[r] \in {"clean", "delete"}

\* Done, refused, or cut short.
Finish(r) ==
  /\ Goto(r, "idle")
  /\ number' = [number EXCEPT ![r] = 1]
  /\ held' = [held EXCEPT ![r] = {}] /\ remaining' = [remaining EXCEPT ![r] = {}]

\* From here on nothing that was sent before counts any more.
Forget == sent' = {} /\ counted' = {}

-----------------------------------------------------------------------------
(* Sending a chunk.                                                        *)

\* start_upload: add keeps a record that is there.
Start(r, n) ==
  /\ stage[r] = "idle"
  /\ session' = IF session = 0 THEN Life ELSE session
  /\ number' = [number EXCEPT ![r] = n]
  /\ Goto(r, "check")
  /\ UNCHANGED <<storage, staged, doomed, held, remaining, history>>

\* save_chunk reads the record again.
Check(r) ==
  /\ stage[r] = "check"
  /\ IF session = 0
     THEN Finish(r) /\ UNCHANGED counted
     ELSE /\ Goto(r, IF storage = "local" THEN "folder" ELSE "put")
          /\ counted' = IF Cleaning THEN counted ELSE counted \cup {r}
          /\ UNCHANGED <<number, held, remaining>>
  /\ UNCHANGED <<storage, session, staged, doomed, sent, stored>>

MakeFolder(r) ==
  /\ stage[r] = "folder"
  /\ folder' = TRUE
  /\ Goto(r, "open")
  /\ UNCHANGED <<storage, session, chunk, age, doomed, number, held, remaining, history>>

\* Opening truncates; without the folder save fails, and the chunk is rejected.
Open(r) ==
  LET n == number[r] IN
  /\ stage[r] = "open"
  /\ IF ~folder
     THEN Finish(r) /\ counted' = counted \ {r} /\ UNCHANGED <<chunk, age, sent>>
     ELSE /\ chunk' = [chunk EXCEPT ![n] = "part"] /\ age' = [age EXCEPT ![n] = 0]
          /\ sent' = sent \ {n}
          /\ Goto(r, "write")
          /\ UNCHANGED <<number, held, remaining, counted>>
  /\ UNCHANGED <<storage, session, folder, doomed, stored>>

\* The sender is told the chunk is there; it counts unless the janitor has it on its list.
Told(r) ==
  /\ sent' = IF r \in counted THEN sent \cup ({number[r]} \ doomed) ELSE sent
  /\ counted' = counted \ {r}
  /\ Finish(r)

\* What is written to a file that was deleted meanwhile is gone with it.
Write(r) ==
  LET n == number[r] IN
  /\ stage[r] = "write"
  /\ IF chunk[n] = "none" THEN UNCHANGED <<chunk, age>>
     ELSE chunk' = [chunk EXCEPT ![n] = "whole"] /\ age' = [age EXCEPT ![n] = 0]
  /\ Told(r)
  /\ UNCHANGED <<storage, session, folder, doomed, stored>>

PutChunk(r) ==
  LET n == number[r] IN
  /\ stage[r] = "put"
  /\ chunk' = [chunk EXCEPT ![n] = "whole"] /\ age' = [age EXCEPT ![n] = 0]
  /\ Told(r)
  /\ UNCHANGED <<storage, session, folder, doomed, stored>>

-----------------------------------------------------------------------------
(* Completing the upload.                                                  *)

Complete(r) ==
  /\ stage[r] = "idle" /\ session > 0
  /\ Goto(r, "confirm")
  /\ UNCHANGED <<storage, session, staged, doomed, number, held, remaining, history>>

\* open_assembled and is_complete read the record again...
Confirm(r) ==
  /\ stage[r] = "confirm"
  /\ IF session = 0 THEN Finish(r) ELSE Goto(r, "list") /\ UNCHANGED <<number, held, remaining>>
  /\ UNCHANGED <<storage, session, staged, doomed, history>>

\* ...and then the numbers of the chunks that are there.
ListChunks(r) ==
  /\ stage[r] = "list"
  /\ IF Present = Chunk THEN Goto(r, "read") /\ UNCHANGED <<number, held, remaining>> ELSE Finish(r)
  /\ UNCHANGED <<storage, session, staged, doomed, history>>

\* Faulty variant: the sizes are not compared.
AnySize(r) == TRUE

\* The bytes that were read are as many as were declared.
AddsUp(r) == Cardinality(held[r]) = Total

\* One chunk after the other; one that has disappeared, or a wrong sum, ends it, and the
\* backend discards what it was given.
ReadChunk(r) ==
  LET n == number[r]
      now == held[r] \cup {m \in {n} : chunk[m] = "whole"} IN
  /\ stage[r] = "read"
  /\ IF chunk[n] = "none"
     THEN Finish(r)
     ELSE /\ held' = [held EXCEPT ![r] = now]
          /\ IF n < Total THEN number' = [number EXCEPT ![r] = n + 1] /\ UNCHANGED stage
             ELSE Goto(r, "store") /\ UNCHANGED number
          /\ UNCHANGED remaining
  /\ UNCHANGED <<storage, session, staged, doomed, history>>

Store(r) ==
  /\ stage[r] = "store"
  /\ IF AddsUp(r)
     THEN /\ stored' = stored \cup {held[r]} /\ Forget
          /\ Goto(r, "clean") /\ UNCHANGED <<number, held, remaining>>
     ELSE Finish(r) /\ UNCHANGED history
  /\ UNCHANGED <<storage, session, staged, doomed>>

\* The chunks there are, one by one, then the record.
Clean(r) ==
  /\ stage[r] = "clean"
  /\ remaining' = [remaining EXCEPT ![r] = Present]
  /\ Goto(r, "delete")
  /\ UNCHANGED <<storage, session, staged, doomed, number, held, history>>

Without(n) == chunk' = [chunk EXCEPT ![n] = "none"] /\ age' = [age EXCEPT ![n] = 0]

DeleteChunks(r) ==
  /\ stage[r] = "delete"
  /\ IF remaining[r] = {}
     THEN session' = 0 /\ Forget /\ Finish(r) /\ UNCHANGED <<chunk, age>>
     ELSE /\ \E n \in remaining[r] : Without(n) /\ remaining' = [remaining EXCEPT ![r] = @ \ {n}]
          /\ UNCHANGED <<session, stage, number, held, sent, counted>>
  /\ UNCHANGED <<storage, folder, doomed, stored>>

\* A refusal (the quota, the storage), the time-out, or the end of the process.
Cut(r) ==
  /\ stage[r] # "idle"
  /\ Finish(r) /\ counted' = counted \ {r}
  /\ UNCHANGED <<storage, session, staged, doomed, sent, stored>>

-----------------------------------------------------------------------------
(* Time, and the janitor.                                                  *)

TimePasses ==
  /\ session' = IF session > 0 THEN session - 1 ELSE 0
  /\ IF session = 1 THEN Forget ELSE UNCHANGED <<sent, counted>>
  /\ age' = [n \in Chunk |-> IF chunk[n] # "none" /\ age[n] <= Life THEN age[n] + 1 ELSE age[n]]
  /\ UNCHANGED <<storage, chunk, folder, doomed, request, stored>>

\* Faulty variant: chunks are kept until their session is over.
SessionOver(n) == n \in Present /\ age[n] > Life /\ session = 0

Old(n) == n \in Present /\ age[n] > Life

\* purge_older_than: found first and deleted then.
FindOld ==
  /\ doomed = {} /\ \E n \in Chunk : Old(n)
  /\ doomed' = {n \in Chunk : Old(n)}
  /\ UNCHANGED <<storage, session, staged, request, history>>

DeleteOld ==
  /\ \E n \in doomed :
       /\ Without(n) /\ doomed' = doomed \ {n}
       /\ counted' = {r \in counted : number[r] # n}
  /\ UNCHANGED <<storage, session, folder, request, sent, stored>>

\* An empty directory goes as well, whoever is about to write to it.
Prune ==
  /\ folder /\ Present = {}
  /\ folder' = FALSE
  /\ UNCHANGED <<storage, session, chunk, age, doomed, request, history>>

-----------------------------------------------------------------------------
Next ==
  \/ \E r \in Sender :
       \/ \E n \in Chunk : Start(r, n)
       \/ Check(r) \/ MakeFolder(r) \/ Open(r) \/ Write(r) \/ PutChunk(r)
       \/ Complete(r) \/ Confirm(r) \/ ListChunks(r) \/ ReadChunk(r) \/ Store(r)
       \/ Clean(r) \/ DeleteChunks(r)
       \/ Cut(r)
  \/ TimePasses \/ FindOld \/ DeleteOld \/ Prune

\* The janitor runs again and again.
Janitor == FindOld \/ DeleteOld
Fairness == WF_vars(Janitor)

Spec == Init /\ [][Next]_vars /\ Fairness

-----------------------------------------------------------------------------
\* A file that was stored has every chunk, and has it whole, whatever was sent again, cut
\* short or deleted while it was put together.
StoredWhole == \A parts \in stored : parts = Chunk

\* A chunk whose sender was told it is there stays there, until the upload is completed, the
\* session's time is over, or it is sent again: unless the janitor had it on its list, from a
\* session before, while it was sent.
SentIsKept == \A n \in sent : chunk[n] = "whole"

\* Between them: what is assembled is what the senders were told is there.
AssembledIsSent == StoredWhole /\ SentIsKept

\* What nobody has sent again for longer than a session lives does not stay.
AbandonedGoes ==
  \A n \in Chunk : (n \in Present /\ age[n] > Life) ~> (n \notin Present \/ age[n] <= Life)
=============================================================================
