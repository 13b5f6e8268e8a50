------------------------------ MODULE MCFiles ------------------------------
(* The versions of one file and their bytes; the records of several files, as  *)
(* their owner lists and changes them; the audit log, whose reader pages with   *)
(* cursors as the owner of files does.  A behaviour takes one of them.          *)
EXTENDS Files, Shelf, AuditTrail, TLC

VARIABLE part

MCVars == <<vars, shelfVars, logVars, part>>

\* The shelf that is not used is empty.
MCInit ==
  /\ Init /\ LogInit /\ part \in {"versions", "shelf", "log"}
  /\ IF part = "shelf" THEN ShelfInit ELSE ShelfOf(0)

\* After a hard delete nothing more is promised of the file: no request is cut short as well.
CutOrPurged == cuts = 0 \/ ~purged

\* As many requests as can be, or as many files.
WorkBound == begun + asked <= MaxFiles + MaxAsked - 1

MCNext ==
  /\ UNCHANGED part
  /\ \/ part = "versions" /\ Next /\ CutOrPurged' /\ UNCHANGED <<shelfVars, logVars>>
     \/ part = "shelf" /\ ShelfNext /\ WorkBound' /\ UNCHANGED <<vars, logVars>>
     \/ part = "log" /\ LogNext /\ UNCHANGED <<vars, shelfVars>>

MCSpec == MCInit /\ [][MCNext]_MCVars

\* Requests and names are interchangeable; so are the clients and the contents of Shelf,
\* which are the same model values.
FilesSymmetry == Permutations(Request) \cup Permutations(Name)
=============================================================================
