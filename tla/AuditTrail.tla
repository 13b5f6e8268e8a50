----------------------------- MODULE AuditTrail -----------------------------
(***************************************************************************)
(* The audit log (app/services/audit.py): one event per change, appended   *)
(* after the change, and a reader who pages through it newest first with a *)
(* cursor (app/services/data/cursor.py) while events are added and the     *)
(* oldest are deleted.  Identifiers are random: they break ties between    *)
(* events of one moment and say nothing about their order.                 *)
(***************************************************************************)
EXTENDS Naturals, Sequences, FiniteSets

CONSTANTS
  LogId,     \* numbers
  PageSize,
  MaxTime    \* bounds the clock

ASSUME LogAssumption == LogId \subseteq Nat /\ PageSize \in Nat \ {0} /\ MaxTime \in Nat

VARIABLES
  clock,
  log,     \* the stored events
  used,    \* the identifiers there have been
  reader   \* what the reader goes on from, what it was given, and what was there at its start

logVars == <<clock, log, used, reader>>

Event == [at : 0 .. MaxTime, id : LogId]
Start == [at |-> MaxTime + 1, id |-> 0]
NoReader == [pages |-> FALSE, cursor |-> Start, page |-> 1, got |-> <<>>, had |-> {}]

LogInit == clock = 0 /\ log = {} /\ used = {} /\ reader = NoReader

Earlier(e, f) == e.at < f.at \/ (e.at = f.at /\ e.id < f.id)

\* Newest first: newest_first("at", "id").
Sorted(S) ==
  CHOOSE s \in [1 .. Cardinality(S) -> S] :
    \A i, j \in 1 .. Cardinality(S) : i < j => Earlier(s[j], s[i])

\* Faulty variant: the page is found by its number, as without a cursor.
ByNumber(from, S) ==
  LET s == Sorted(S) IN SubSeq(s, (from.page - 1) * PageSize + 1, Len(s))

\* after: what is older than the cursor, and a page of it.
Following(from, S) == Sorted({e \in S : Earlier(e, from.cursor)})

Min2(a, b) == IF a < b THEN a ELSE b

\* list_events: one row more than a page tells whether there is another.
ListEvents ==
  LET from == IF reader.pages THEN reader ELSE [NoReader EXCEPT !.pages = TRUE, !.had = log]
      rows == Following(from, log)
      page == SubSeq(rows, 1, Min2(PageSize, Len(rows)))
  IN /\ reader' = [from EXCEPT !.pages = Len(rows) > PageSize,
                               !.page = @ + 1,
                               !.cursor = IF Len(rows) > PageSize THEN page[Len(page)] ELSE @,
                               !.got = @ \o page]
     /\ UNCHANGED <<clock, log, used>>

\* record: the moment is taken before the insert, so events may come in late.
RecordEvent(e) ==
  /\ e.at <= clock /\ e.id \notin used
  /\ log' = log \cup {e}
  /\ used' = used \cup {e.id}
  /\ UNCHANGED <<clock, reader>>

\* Retention deletes what is older than audit_retention_days.
PurgeLog ==
  /\ log # {}
  /\ LET oldest == CHOOSE e \in log : \A f \in log : f = e \/ Earlier(e, f) IN
       oldest.at < clock /\ log' = log \ {oldest}
  /\ UNCHANGED <<clock, used, reader>>

Tick == clock < MaxTime /\ clock' = clock + 1 /\ UNCHANGED <<log, used, reader>>

LogNext == ListEvents \/ PurgeLog \/ Tick \/ \E e \in Event : RecordEvent(e)

LogSpec == LogInit /\ [][LogNext]_logVars

\* Whoever has paged to the end has seen every event that was there when they began and still
\* is, each once and the newest first, whatever was added and deleted meanwhile.
ListingIsWhole ==
  LET got == reader.got IN
  /\ \A i, j \in 1 .. Len(got) : i < j => Earlier(got[j], got[i])
  /\ ~reader.pages /\ got # <<>> => reader.had \cap log \subseteq {got[i] : i \in 1 .. Len(got)}
=============================================================================
