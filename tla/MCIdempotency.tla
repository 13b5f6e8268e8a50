--------------------------- MODULE MCIdempotency ---------------------------
(* What stands before the endpoints: the requests of one key (Idempotency), the *)
(* counters of the rate limiter (Limiter) and the permissions a request needs   *)
(* (Permissions).  They meet in a request that is turned away, which            *)
(* Idempotency has, so a behaviour takes one of them.                           *)
EXTENDS Idempotency, Limiter, TLC

CONSTANTS
  Role, Group, Permission, Wider, Gives, GroupRoles, Hierarchies, Grant, Granted, OfGroup,
  Asked, Given, NoCopy, MaxEvents

VARIABLES
  inherits, account, grants, userCopy, permCopy, reachable, stage, op, seen, found, unread,
  crossed, held, missing, untrue, lost, overlap, raced, skipped, spent,
  part

P == INSTANCE Permissions WITH pc <- stage, up <- reachable

ASSUME P!NamesAssumption /\ P!PermissionsAssumption

\* Three roles in a cycle that two of them close, and two groups, one of which gives the second
\* and has a grant.
MCRole == {"admin", "editor", "viewer"}
MCPermission == {"*", "files:*", "files:write", "files:read"}
MCWider == [p \in MCPermission |->
              {p, "*"} \cup (IF p \in {"files:read", "files:write"} THEN {"files:*"} ELSE {})]
MCGives == [r \in MCRole |->
              CASE r = "admin" -> {} [] r = "editor" -> {"files:write"} [] OTHER -> {"files:read"}]
MCGroupRoles == [g \in {"staff", "guests"} |-> IF g = "staff" THEN {"editor"} ELSE {}]
MCHierarchies ==
  { [r \in MCRole |-> CASE r = "admin" -> {"editor"} [] r = "editor" -> {"viewer", "admin"} [] OTHER -> {}] }
MCGranted == [g \in {"shared"} |-> "*"]
MCOfGroup == [g \in {"shared"} |-> "staff"]

permissionVars ==
  <<inherits, account, grants, userCopy, permCopy, reachable, stage, op, seen, found, unread,
    crossed, held, missing, untrue, lost, overlap, raced, skipped, spent>>
MCVars == <<vars, limiterVars, permissionVars, part>>

\* What the others start from does not matter.
MCInit ==
  /\ Init /\ LimiterInit /\ P!Init /\ part \in {"keys", "limits", "permissions"}
  /\ part # "limits" => sliding /\ ahead = [p \in Process |-> 0]

\* Once an old copy was put back, or one was not dropped, nothing more is promised.
Promising == ~raced /\ ~skipped

\* The clocks differ, or Redis is down for a time.
SkewOrOutage == Skew = 0 \/ downAt = 0

MCNext ==
  /\ UNCHANGED part
  /\ \/ part = "keys" /\ Next /\ UNCHANGED <<limiterVars, permissionVars>>
     \/ part = "limits" /\ LimiterNext /\ SkewOrOutage' /\ UNCHANGED <<vars, permissionVars>>
     \/ part = "permissions" /\ Promising /\ P!Next /\ UNCHANGED <<vars, limiterVars>>

MCSpec == MCInit /\ [][MCNext]_MCVars

\* What is cached, answered and stored about permissions agrees, as long as nothing was raced
\* or skipped.
PermissionsHold == P!PermissionsHold

\* Requests, workers and bodies are interchangeable; a worker of Idempotency is a process of
\* Limiter, by the same model value.
IdempotencySymmetry == Permutations(Request) \cup Permutations(Worker) \cup Permutations(Body)
=============================================================================
