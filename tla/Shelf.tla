-------------------------------- MODULE Shelf --------------------------------
(***************************************************************************)
(* The files of one user together (app/services/file/file_service.py and   *)
(* app/services/data/files_ops.py): the quota that every upload counts,    *)
(* the search for a file with the same bytes, changes of a file's tags,    *)
(* and a listing that is read page by page.  What becomes of the bytes and *)
(* of a hard deletion is in Files; every version has one unit of them.     *)
(***************************************************************************)
EXTENDS Naturals, FiniteSets

CONSTANTS
  Client,     \* requests that change the files
  Content,
  Quota,      \* file_user_quota_bytes
  PerPage,
  AtFirst,    \* how many files there are to begin with
  MaxAsked,   \* bounds the requests
  MaxFiles,   \* bounds the files there have been
  MaxMoment   \* bounds the moments a record is made at, which the clocks of servers decide

ASSUME ShelfAssumption ==
  /\ Quota \in Nat \ {0} /\ PerPage \in Nat \ {0} /\ MaxFiles \in Nat /\ MaxMoment \in Nat
  /\ AtFirst \in 0 .. MaxFiles /\ AtFirst <= Quota /\ MaxAsked \in Nat
  /\ IsFiniteSet(Client) /\ Client # {}

VARIABLES
  rows,      \* the records: the versions of every file
  begun,     \* how many files there have been
  asked,     \* how many requests
  stage,     \* each client: what its request does next
  file, number,  \* the file it is about, and the version
  brought,   \* the content, or the tag, it brings
  noted,     \* history: the file has changed since its update looked it up
  shown,     \* history: every update that nothing interfered with was seen by its answer
  page,      \* the listing: how far it is, and the cursor
  listed,    \* history: how often it has had each file
  steady     \* history: the files it should have, which nobody has changed meanwhile

task == <<stage, file, number, brought>>
counts == <<begun, asked>>
listing == <<page, listed, steady>>
shelfVars == <<rows, counts, task, noted, shown, listing>>

Fresh == "as uploaded"
Changed == "changed"
NoCursor == [moment |-> MaxMoment + 1, file |-> MaxFiles + 1]

\* A version as it is recorded.
NewRow(f, n, what, t) ==
  [file |-> f, version |-> n, content |-> what, tag |-> Fresh, moment |-> t,
   latest |-> TRUE, deleted |-> FALSE]

\* n files are there.
ShelfOf(n) ==
  /\ \E moments \in [1 .. n -> 0 .. MaxMoment], contents \in [1 .. n -> Content] :
       rows = {NewRow(f, 1, contents[f], moments[f]) : f \in 1 .. n}
  /\ begun = n /\ asked = 0
  /\ stage = [c \in Client |-> "idle"] /\ file = [c \in Client |-> 0]
  /\ number = [c \in Client |-> 0] /\ brought = [c \in Client |-> Fresh]
  /\ noted = {} /\ shown = TRUE
  /\ page = [of |-> "none", after |-> NoCursor]
  /\ listed = [f \in 1 .. MaxFiles |-> 0] /\ steady = {}

ShelfInit == ShelfOf(AtFirst)

Kept(f) == {x \in rows : x.file = f /\ ~x.deleted}

\* The highest version number.
NewestIn(S) == CHOOSE x \in S : \A y \in S : y.version <= x.version

Proceed(c, label) == stage' = [stage EXCEPT ![c] = label] /\ UNCHANGED <<file, number, brought>>

Finished(c) ==
  /\ stage' = [stage EXCEPT ![c] = "idle"] /\ file' = [file EXCEPT ![c] = 0]
  /\ number' = [number EXCEPT ![c] = 0] /\ brought' = [brought EXCEPT ![c] = Fresh]

Ask(c, label, f, n, what) ==
  /\ stage[c] = "idle" /\ asked < MaxAsked /\ asked' = asked + 1
  /\ stage' = [stage EXCEPT ![c] = label] /\ file' = [file EXCEPT ![c] = f]
  /\ number' = [number EXCEPT ![c] = n] /\ brought' = [brought EXCEPT ![c] = what]

\* Others learn of a change: the updates under way, and the listing.
Touch(f, by) ==
  /\ noted' = noted \cup {c \in Client \ by : stage[c] \in {"apply", "answer"} /\ file[c] = f}
  /\ steady' = steady \ {f}
  /\ UNCHANGED <<page, listed>>

-----------------------------------------------------------------------------
(* Uploads.                                                                *)

\* Soft-deleted versions count, until they are deleted for good.
Used == Cardinality(rows)

NewFile(c, what) ==
  /\ begun < MaxFiles /\ Ask(c, "early", begun + 1, 1, what)
  /\ begun' = begun + 1
  /\ UNCHANGED <<rows, noted, shown, listing>>

NewVersion(c, f, what) ==
  /\ Kept(f) # {} /\ Ask(c, "early", f, NewestIn(Kept(f)).version + 1, what)
  /\ UNCHANGED <<rows, begun, noted, shown, listing>>

\* Before any bytes are taken.
EarlyCheck(c) ==
  /\ stage[c] = "early"
  /\ IF Used <= Quota THEN Proceed(c, "quota") ELSE Finished(c)
  /\ UNCHANGED <<rows, counts, noted, shown, listing>>

\* Faulty variant: what is about to be stored is not counted.
FitsBefore == Used <= Quota

Fits == Used + 1 <= Quota

CheckQuota(c) ==
  /\ stage[c] = "quota"
  /\ IF Fits
     THEN Proceed(c, IF number[c] = 1 THEN "same" ELSE "insert")
     ELSE Finished(c)
  /\ UNCHANGED <<rows, counts, noted, shown, listing>>

\* Any version of a file that is not deleted is handed back.
FindSame(c) ==
  /\ stage[c] = "same"
  /\ IF \E x \in rows : x.content = brought[c] /\ ~x.deleted THEN Finished(c) ELSE Proceed(c, "insert")
  /\ UNCHANGED <<rows, counts, noted, shown, listing>>

\* The unique index decides which of two requests has the version.
InsertVersion(c) ==
  /\ stage[c] = "insert"
  /\ IF \E x \in rows : x.file = file[c] /\ x.version = number[c]
     THEN Finished(c) /\ UNCHANGED <<rows, noted, listing>>
     ELSE /\ \E t \in 0 .. MaxMoment :
               rows' = rows \cup {NewRow(file[c], number[c], brought[c], t)}
          /\ Proceed(c, "demote") /\ Touch(file[c], {c})
  /\ UNCHANGED <<counts, shown>>

Unflag(c) ==
  /\ stage[c] = "demote"
  /\ rows' = {IF x.file = file[c] /\ x.version < number[c] THEN [x EXCEPT !.latest = FALSE] ELSE x : x \in rows}
  /\ Finished(c) /\ Touch(file[c], {c})
  /\ UNCHANGED <<counts, shown>>

-----------------------------------------------------------------------------
(* Changing what is known of a file, and deleting it.                      *)

AskUpdate(c, f) ==
  /\ Kept(f) # {} /\ Ask(c, "newest", f, 0, Changed)
  /\ UNCHANGED <<rows, begun, noted, shown, listing>>

\* Faulty variant: the first version is changed.
Oldest(f) == CHOOSE x \in Kept(f) : \A y \in Kept(f) : x.version <= y.version

Chosen(f) == NewestIn(Kept(f))

FindNewest(c) ==
  /\ stage[c] = "newest"
  /\ IF Kept(file[c]) = {} THEN Finished(c)
     ELSE /\ stage' = [stage EXCEPT ![c] = "apply"]
          /\ number' = [number EXCEPT ![c] = Chosen(file[c]).version]
          /\ UNCHANGED <<file, brought>>
  /\ noted' = noted \ {c}
  /\ UNCHANGED <<rows, counts, shown, listing>>

\* The version it has found, whatever has become of it.
ApplyUpdate(c) ==
  /\ stage[c] = "apply"
  /\ rows' = {IF x.file = file[c] /\ x.version = number[c] THEN [x EXCEPT !.tag = brought[c]] ELSE x : x \in rows}
  /\ Proceed(c, "answer") /\ Touch(file[c], {c})
  /\ UNCHANGED <<counts, shown>>

\* The answer is what the newest version is then.
AnswerUpdate(c) ==
  /\ stage[c] = "answer" /\ Finished(c)
  /\ shown' = (shown /\ (c \in noted \/ (Kept(file[c]) # {} /\ NewestIn(Kept(file[c])).tag = brought[c])))
  /\ UNCHANGED <<rows, counts, noted, listing>>

PutAway(f) ==
  /\ Kept(f) # {} /\ asked < MaxAsked /\ asked' = asked + 1
  /\ rows' = {IF x.file = f THEN [x EXCEPT !.deleted = TRUE] ELSE x : x \in rows}
  /\ Touch(f, {})
  /\ UNCHANGED <<begun, task, shown>>

-----------------------------------------------------------------------------
(* A listing.                                                              *)

\* What lists a file: its version that is_latest.
Listable == {x \in rows : x.latest /\ ~x.deleted}

\* Faulty variant: the cursor is a moment.
ByMoment(x, cursor) == x.moment < cursor.moment

\* Strictly after the cursor.
Below(x, cursor) ==
  x.moment < cursor.moment \/ (x.moment = cursor.moment /\ x.file < cursor.file)

CursorOf(x) == [moment |-> x.moment, file |-> x.file]

\* Newest first; two versions of a file that are both current for a moment come in any order.
Before(y, x) ==
  \/ x.moment < y.moment
  \/ x.moment = y.moment /\ (x.file < y.file \/ (x.file = y.file /\ x.version < y.version))

StartListing ==
  /\ page.of = "none"
  /\ page' = [of |-> "more", after |-> NoCursor]
  /\ steady' = {f \in 1 .. MaxFiles : Cardinality({x \in Listable : x.file = f}) = 1}
  /\ UNCHANGED <<rows, counts, task, noted, shown, listed>>

\* One row more than the page has says whether there is another.
ReadPage ==
  LET rest == {x \in Listable : Below(x, page.after)}
      here == {x \in rest : Cardinality({y \in rest : Before(y, x)}) < PerPage}
  IN
  /\ page.of = "more"
  /\ listed' = [f \in 1 .. MaxFiles |-> listed[f] + Cardinality({x \in here : x.file = f})]
  /\ page' = IF here = rest THEN [of |-> "over", after |-> NoCursor]
             ELSE [of |-> "more",
                   after |-> CursorOf(CHOOSE x \in here : \A y \in here : y = x \/ Before(y, x))]
  /\ UNCHANGED <<rows, counts, task, noted, shown, steady>>

-----------------------------------------------------------------------------
ShelfNext ==
  \/ \E c \in Client :
       \/ \E what \in Content : NewFile(c, what) \/ \E f \in 1 .. MaxFiles : NewVersion(c, f, what)
       \/ \E f \in 1 .. MaxFiles : AskUpdate(c, f)
       \/ EarlyCheck(c) \/ CheckQuota(c) \/ FindSame(c) \/ InsertVersion(c) \/ Unflag(c)
       \/ FindNewest(c) \/ ApplyUpdate(c) \/ AnswerUpdate(c)
  \/ \E f \in 1 .. MaxFiles : PutAway(f)
  \/ StartListing \/ ReadPage

ShelfSpec == ShelfInit /\ [][ShelfNext]_shelfVars

-----------------------------------------------------------------------------
\* A user's files pass the quota by no more than the uploads that were under way with the one
\* that filled it.
QuotaBounded == Used <= Quota + Cardinality(Client) - 1

\* Following the cursors visits every file once, whatever is added, changed or deleted among
\* the others.
PagesAreWhole ==
  \A f \in steady : listed[f] <= 1 /\ (page.of = "over" => listed[f] = 1)

\* An update that nothing interferes with is what its answer, and the next listing, shows.
UpdatesAreShown == shown
=============================================================================
