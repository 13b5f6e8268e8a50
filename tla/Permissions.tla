---------------------------- MODULE Permissions ----------------------------
(***************************************************************************)
(* What one user may do (app/services/rbac.py): roles and groups on the    *)
(* user record, grants that begin and end, and the set of permissions      *)
(* resolved from them, which is cached under a key of its own.  The user   *)
(* record is read through the record cache as well.                        *)
(*                                                                         *)
(* One step is one call of the database or the cache.  The reads that only *)
(* find out whether the user or the grant exists have no step: neither     *)
(* goes away here.                                                         *)
(***************************************************************************)
EXTENDS Naturals, FiniteSets

CONSTANTS
  Request,     \* requests that ask for a permission or change one
  Role, Group, \* defined in config.toml
  Permission,  \* all there are, "*" and "resource:*" among them
  Wider,       \* Wider[p]: the permissions that cover p
  Gives,       \* Gives[r]: the permissions a role names itself
  GroupRoles,  \* GroupRoles[g]: the roles of a group
  Hierarchies, \* what roles may inherit: functions from roles to sets of roles
  Grant,       \* temporary grants
  Granted,     \* the permission of each
  OfGroup,     \* the grants that are made to a group, and which
  Asked,       \* permissions that requests ask for
  Given,       \* roles that requests assign, remove and ask for
  NoCopy,      \* what the cache answers for a key it has not
  MaxEvents    \* bounds changes, requests cut short and outages, together

NamesAssumption ==
  /\ Wider \in [Permission -> SUBSET Permission] /\ Gives \in [Role -> SUBSET Permission]
  /\ GroupRoles \in [Group -> SUBSET Role] /\ Granted \in [Grant -> Permission]
  /\ DOMAIN OfGroup \subseteq Grant
  /\ Hierarchies \subseteq [Role -> SUBSET Role] /\ Asked \subseteq Permission /\ Given \subseteq Role
PermissionsAssumption == MaxEvents \in Nat /\ IsFiniteSet(Role)

VARIABLES
  inherits,  \* the hierarchy this installation has
  account,   \* the user record
  grants,    \* the state of each temporary grant
  userCopy,  \* the cached user record
  permCopy,  \* the cached permissions
  up,        \* the cache answers
  pc,        \* what each request does next
  op,        \* what it is for, and of which permission, role, group or grant
  seen,      \* the user record it has read
  found,     \* the permissions of the grants it has read
  unread,    \* the groups whose grants it has not
  crossed,   \* history: a change was under way while it was
  held,      \* history: what it asks for was there at some moment of it
  missing,   \* history: or was not
  untrue,    \* history: answers that were so at no moment of their request
  lost,      \* history: a change of the record has undone another
  overlap,   \* history: the lists of which two changes were under way together
  raced,     \* history: a request that was crossed has filled the cache
  skipped,   \* history: a copy that should have been dropped was not
  spent      \* how much of the bound is used

store == <<inherits, account, grants, userCopy, permCopy, up>>
request == <<pc, op, seen, found, unread>>
moments == <<crossed, held, missing>>
flags == <<overlap, raced, skipped>>
history == <<moments, untrue, lost, flags>>
vars == <<store, request, history, spent>>

NoUser == [roles |-> {}, groups |-> {}]
NoOp == [kind |-> "none", of |-> "none"]

Init ==
  /\ inherits \in Hierarchies
  /\ account = NoUser /\ grants = [g \in Grant |-> "none"]
  /\ userCopy = NoCopy /\ permCopy = NoCopy /\ up = TRUE
  /\ pc = [r \in Request |-> "idle"]
  /\ op = [r \in Request |-> NoOp]
  /\ seen = [r \in Request |-> NoUser]
  /\ found = [r \in Request |-> {}] /\ unread = [r \in Request |-> {}]
  /\ crossed = [r \in Request |-> FALSE]
  /\ held = [r \in Request |-> FALSE] /\ missing = [r \in Request |-> FALSE]
  /\ untrue = {} /\ lost = FALSE
  /\ overlap = {} /\ raced = FALSE /\ skipped = FALSE
  /\ spent = 0

-----------------------------------------------------------------------------
(* Permissions of a user record.                                           *)

\* The permissions themselves, "resource:*" and "*".
Covers(have, p) == Wider[p] \cap have # {}

\* A role and everything it inherits, cycles and diamonds included.
Expanded(role) ==
  LET reach[n \in 0 .. Cardinality(Role)] ==
        IF n = 0 THEN {role} ELSE reach[n - 1] \cup UNION {inherits[q] : q \in reach[n - 1]}
  IN  reach[Cardinality(Role)]

RolesOf(user) == user.roles \cup UNION {GroupRoles[g] : g \in user.groups}

RolePermissions(user) ==
  UNION {Gives[q] : q \in UNION {Expanded(role) : role \in RolesOf(user)}}

\* get_active: the grants in force for the user, or for a group.
Active(S) == {Granted[g] : g \in {h \in S : grants[h] \in {"active", "begun"}}}

OwnGrants == {g \in Grant : g \notin DOMAIN OfGroup}
GroupGrants(groups) == {g \in DOMAIN OfGroup : OfGroup[g] \in groups}

-----------------------------------------------------------------------------
(* What may be expected of an answer.  The clock ends grants and begins    *)
(* them without anybody being told, so a set that was cached before may    *)
(* still have the one and not have the other.                              *)

Inherited == {pair \in Role \X Role : pair[2] \in inherits[pair[1]]}

\* Reference definition: the roles that can be reached from one.
Reachable(role) ==
  {s \in Role : \E path \in [1 .. Cardinality(Role) -> Role] :
     /\ path[1] = role /\ path[Cardinality(Role)] = s
     /\ \A i \in 1 .. Cardinality(Role) - 1 :
          path[i] = path[i + 1] \/ <<path[i], path[i + 1]>> \in Inherited}

FromRoles(user) ==
  UNION {Gives[q] : q \in UNION {Reachable(role) : role \in RolesOf(user)}}

Of(user, states) ==
  {Granted[g] : g \in {h \in OwnGrants \cup GroupGrants(user.groups) : grants[h] \in states}}

AtMost(user) == FromRoles(user) \cup Of(user, {"active", "begun", "ended"})
AtLeast(user) == FromRoles(user) \cup Of(user, {"active"})

-----------------------------------------------------------------------------
(* Requests.                                                               *)

Spend == spent < MaxEvents /\ spent' = spent + 1

Goto(r, label) == pc' = [pc EXCEPT ![r] = label]

Checks == {"check", "role"}
RoleChanges == {"assign", "remove"}
ListChanges == RoleChanges \cup {"join"}
GrantChanges == {"grant", "revoke"}

\* A change is under way: it is written, and a copy made before may still be there.
Changing == \E r \in Request : pc[r] \in {"drop", "drop_again", "forget"}

Holds(user, o) ==
  IF o.kind = "check" THEN Covers(AtMost(user), o.of) ELSE o.of \in user.roles
Lacks(user, o) ==
  IF o.kind = "check" THEN ~Covers(AtLeast(user), o.of) ELSE o.of \notin user.roles

Begin(r, kind, of, label) ==
  LET o == [kind |-> kind, of |-> of] IN
  /\ pc[r] = "idle"
  /\ Goto(r, label)
  /\ op' = [op EXCEPT ![r] = o]
  /\ crossed' = [crossed EXCEPT ![r] = Changing]
  /\ held' = [held EXCEPT ![r] = kind \in Checks /\ (Changing \/ Holds(account, o))]
  /\ missing' = [missing EXCEPT ![r] = kind \in Checks /\ (Changing \/ Lacks(account, o))]
  /\ UNCHANGED <<store, seen, found, unread, untrue, lost, raced, skipped>>

\* require_permission and the role check of the middleware ask for a permission, require_role
\* for a role.
Check(r) ==
  /\ \/ \E p \in Asked : Begin(r, "check", p, "permissions")
     \/ \E role \in Given : Begin(r, "role", role, "user")
  /\ UNCHANGED <<overlap, spent>>

Change(r) ==
  /\ Spend
  /\ \/ /\ \E role \in Given, kind \in RoleChanges : Begin(r, kind, role, "user")
        /\ overlap' = IF \E q \in Request : op[q].kind \in RoleChanges
                       THEN overlap \cup {"roles"} ELSE overlap
     \/ /\ \E group \in Group : Begin(r, "join", group, "user")
        /\ overlap' = IF \E q \in Request : op[q].kind = "join"
                       THEN overlap \cup {"groups"} ELSE overlap
     \/ /\ \E g \in Grant :
             \/ grants[g] = "none" /\ Begin(r, "grant", g, "write")
             \/ grants[g] # "none" /\ Begin(r, "revoke", g, "write")
        /\ UNCHANGED overlap

Finish(r, answer) ==
  /\ Goto(r, "idle")
  /\ op' = [op EXCEPT ![r] = NoOp]
  /\ seen' = [seen EXCEPT ![r] = NoUser]
  /\ found' = [found EXCEPT ![r] = {}] /\ unread' = [unread EXCEPT ![r] = {}]
  /\ crossed' = [crossed EXCEPT ![r] = FALSE]
  /\ held' = [held EXCEPT ![r] = FALSE]
  /\ missing' = [missing EXCEPT ![r] = FALSE]
  /\ untrue' = untrue \cup
       {a \in {answer} : (a = "yes" /\ ~held[r]) \/ (a = "no" /\ ~missing[r] /\ ~crossed[r])}

-----------------------------------------------------------------------------
(* Resolving.                                                              *)

Decided(r, have) == IF Covers(have, op[r].of) THEN "yes" ELSE "no"

\* resolve_user_permissions: the cached set, if there is one.
GetPermissions(r) ==
  /\ pc[r] = "permissions"
  /\ IF up /\ permCopy # NoCopy
     THEN Finish(r, Decided(r, permCopy))
     ELSE Goto(r, "user") /\ UNCHANGED <<op, seen, found, unread, moments, untrue>>
  /\ UNCHANGED <<store, lost, flags, spent>>

\* Where a request goes on when it has the user record.
Proceed(r, user) ==
  /\ seen' = [seen EXCEPT ![r] = user]
  /\ Goto(r, CASE op[r].kind = "check" -> "grants"
               [] op[r].kind = "role" -> "decide"
               [] OTHER -> "write")

GetUser(r) ==
  /\ pc[r] = "user"
  /\ IF up /\ userCopy # NoCopy THEN Proceed(r, userCopy) ELSE Goto(r, "read") /\ UNCHANGED seen
  /\ UNCHANGED <<store, op, found, unread, history, spent>>

ReadUser(r) ==
  /\ pc[r] = "read"
  /\ seen' = [seen EXCEPT ![r] = account]
  /\ Goto(r, "fill")
  /\ UNCHANGED <<store, op, found, unread, history, spent>>

FillUser(r) ==
  /\ pc[r] = "fill"
  /\ userCopy' = IF up THEN seen[r] ELSE userCopy
  /\ raced' = (raced \/ (up /\ crossed[r]))
  /\ Proceed(r, seen[r])
  /\ UNCHANGED <<inherits, account, grants, permCopy, up, op, found, unread, moments, untrue,
                 lost, overlap, skipped, spent>>

\* require_any_role.
Decide(r) ==
  /\ pc[r] = "decide"
  /\ Finish(r, IF op[r].of \in seen[r].roles THEN "yes" ELSE "no")
  /\ UNCHANGED <<store, lost, flags, spent>>

ReadGrants(r) ==
  /\ pc[r] = "grants"
  /\ found' = [found EXCEPT ![r] = Active(OwnGrants)]
  /\ unread' = [unread EXCEPT ![r] = seen[r].groups]
  /\ Goto(r, "group_grants")
  /\ UNCHANGED <<store, op, seen, history, spent>>

\* One group after the other.
ReadGroupGrants(r) ==
  /\ pc[r] = "group_grants"
  /\ \E group \in unread[r] :
       /\ found' = [found EXCEPT ![r] = @ \cup Active(GroupGrants({group}))]
       /\ unread' = [unread EXCEPT ![r] = @ \ {group}]
  /\ UNCHANGED <<store, pc, op, seen, history, spent>>

FillPermissions(r) ==
  /\ pc[r] = "group_grants" /\ unread[r] = {}
  /\ LET have == RolePermissions(seen[r]) \cup found[r] IN
       /\ permCopy' = IF up THEN have ELSE permCopy
       /\ Finish(r, Decided(r, have))
  /\ raced' = (raced \/ (up /\ crossed[r]))
  /\ UNCHANGED <<inherits, account, grants, userCopy, up, lost, overlap, skipped, spent>>

-----------------------------------------------------------------------------
(* Changing.                                                               *)

\* Faulty variant: every list is written back as it was read.
WholeUser(user, copy, o) ==
  CASE o.kind = "assign" -> [copy EXCEPT !.roles = @ \cup {o.of}]
    [] o.kind = "remove" -> [copy EXCEPT !.roles = @ \ {o.of}]
    [] OTHER -> [copy EXCEPT !.groups = @ \cup {o.of}]

\* _change_list: the list as it was read, with the change, over the stored one.
Changed(user, copy, o) ==
  CASE o.kind = "assign" -> [user EXCEPT !.roles = copy.roles \cup {o.of}]
    [] o.kind = "remove" -> [user EXCEPT !.roles = copy.roles \ {o.of}]
    [] OTHER -> [user EXCEPT !.groups = copy.groups \cup {o.of}]

\* Everybody under way is crossed by a change, and sees the record before it or after it.
Cross ==
  /\ crossed' = [q \in Request |-> crossed[q] \/ pc[q] # "idle"]
  /\ held' = [q \in Request |->
       held[q] \/ (op[q].kind \in Checks /\ (Holds(account, op[q]) \/ Holds(account, op[q])'))]
  /\ missing' = [q \in Request |->
       missing[q] \/ (op[q].kind \in Checks /\ (Lacks(account, op[q]) \/ Lacks(account, op[q])'))]

WriteList(r) ==
  /\ pc[r] = "write" /\ op[r].kind \in ListChanges
  /\ account' = Changed(account, seen[r], op[r])
  /\ lost' = (lost \/ account' # Changed(account, account, op[r]))
  /\ Goto(r, "drop")
  /\ UNCHANGED <<inherits, grants, userCopy, permCopy, up, op, seen, found, unread, untrue, flags, spent>>
  /\ Cross

WriteGrant(r) ==
  /\ pc[r] = "write" /\ op[r].kind \in GrantChanges
  /\ \E state \in IF op[r].kind = "grant" THEN {"future", "active"} ELSE {"revoked"} :
       grants' = [grants EXCEPT ![op[r].of] = state]
  /\ Goto(r, "forget")
  /\ UNCHANGED <<inherits, account, userCopy, permCopy, up, op, seen, found, unread, untrue,
                 lost, flags, spent>>
  /\ Cross

\* After the record, the permissions.
AfterDrop(label) == IF label = "drop" THEN "drop_again" ELSE "forget"

\* _forget_cached, for the record as it was and as it is: both times under the id.
DropUser(r) ==
  /\ pc[r] \in {"drop", "drop_again"}
  /\ userCopy' = IF up THEN NoCopy ELSE userCopy
  /\ skipped' = (skipped \/ (~up /\ userCopy # NoCopy))
  /\ Goto(r, AfterDrop(pc[r]))
  /\ UNCHANGED <<inherits, account, grants, permCopy, up, op, seen, found, unread, moments, untrue,
                 lost, overlap, raced, spent>>

\* _forget, and _forget_entity for everybody.
Forget(r) ==
  /\ pc[r] = "forget"
  /\ permCopy' = IF up THEN NoCopy ELSE permCopy
  /\ skipped' = (skipped \/ (~up /\ permCopy # NoCopy))
  /\ Finish(r, "changed")
  /\ UNCHANGED <<inherits, account, grants, userCopy, up, lost, overlap, raced, spent>>

-----------------------------------------------------------------------------
(* Time, and what goes wrong.                                              *)

GrantBegins(g) ==
  /\ grants[g] = "future"
  /\ grants' = [grants EXCEPT ![g] = "begun"]
  /\ UNCHANGED <<inherits, account, userCopy, permCopy, up, request,
                 crossed, missing, untrue, lost, flags, spent>>
  /\ held' = [q \in Request |-> held[q] \/ (op[q].kind \in Checks /\ Holds(account, op[q])')]

GrantEnds(g) ==
  /\ grants[g] \in {"active", "begun"}
  /\ grants' = [grants EXCEPT ![g] = "ended"]
  /\ UNCHANGED <<inherits, account, userCopy, permCopy, up, request,
                 crossed, held, untrue, lost, flags, spent>>
  /\ missing' = [q \in Request |-> missing[q] \/ (op[q].kind \in Checks /\ Lacks(account, op[q])')]

\* Cached copies have a time to live.
UserCopyExpires ==
  /\ userCopy # NoCopy /\ userCopy' = NoCopy
  /\ UNCHANGED <<inherits, account, grants, permCopy, up, request, history, spent>>

PermissionsExpire ==
  /\ permCopy # NoCopy /\ permCopy' = NoCopy
  /\ UNCHANGED <<inherits, account, grants, userCopy, up, request, history, spent>>

\* A time-out or a crash: before the write nothing has happened, after it copies stay.
Cut(r) ==
  /\ Spend /\ pc[r] # "idle"
  /\ skipped' = (skipped \/ pc[r] \in {"drop", "drop_again", "forget"})
  /\ Finish(r, "cut")
  /\ UNCHANGED <<store, lost, overlap, raced>>

CacheFails ==
  /\ Spend /\ up /\ up' = FALSE
  /\ UNCHANGED <<inherits, account, grants, userCopy, permCopy, request, history>>

CacheHeals ==
  /\ ~up /\ up' = TRUE
  /\ UNCHANGED <<inherits, account, grants, userCopy, permCopy, request, history, spent>>

-----------------------------------------------------------------------------
Steps(r) ==
  \/ GetPermissions(r) \/ GetUser(r) \/ ReadUser(r) \/ FillUser(r) \/ Decide(r)
  \/ ReadGrants(r) \/ ReadGroupGrants(r) \/ FillPermissions(r)
  \/ WriteList(r) \/ WriteGrant(r) \/ DropUser(r) \/ Forget(r)

Next ==
  \/ \E r \in Request : Check(r) \/ Change(r) \/ Steps(r) \/ Cut(r)
  \/ \E g \in Grant : GrantBegins(g) \/ GrantEnds(g)
  \/ UserCopyExpires \/ PermissionsExpire \/ CacheFails \/ CacheHeals

Spec == Init /\ [][Next]_vars
-----------------------------------------------------------------------------
Account == [roles : SUBSET Role, groups : SUBSET Group]

\* Every variable keeps its type; copies are user records and sets of permissions.
TypeOK ==
  /\ inherits \in Hierarchies /\ account \in Account
  /\ grants \in [Grant -> {"none", "future", "active", "begun", "ended", "revoked"}]
  /\ userCopy \in {NoCopy} \cup Account /\ permCopy \in {NoCopy} \cup SUBSET Permission
  /\ up \in BOOLEAN
  /\ pc \in [Request -> {"idle", "permissions", "user", "read", "fill", "decide", "grants",
                         "group_grants", "write", "drop", "drop_again", "forget"}]
  /\ seen \in [Request -> Account] /\ found \in [Request -> SUBSET Permission]
  /\ unread \in [Request -> SUBSET Group]
  /\ crossed \in [Request -> BOOLEAN] /\ held \in [Request -> BOOLEAN]
  /\ missing \in [Request -> BOOLEAN] /\ untrue \subseteq {"yes", "no"}
  /\ lost \in BOOLEAN /\ overlap \subseteq {"roles", "groups"} /\ raced \in BOOLEAN /\ skipped \in BOOLEAN
  /\ spent \in 0 .. MaxEvents

\* Once a change has dropped what it must, and unless a request that was crossed by it put an
\* old copy back, what is cached is what the store says: the record itself, and permissions
\* that the roles reach through any hierarchy, no more and no less but for the grants that
\* time has begun or ended since.
CopiesAreCurrent ==
  ~raced /\ ~skipped /\ ~Changing =>
    /\ userCopy \in {NoCopy, account}
    /\ \/ permCopy = NoCopy
       \/ AtLeast(account) \subseteq permCopy /\ permCopy \subseteq AtMost(account)

\* A request is let in only for what was allowed at some moment while it ran, and kept out
\* only for what was not: it may be answered from before a change it overlaps, never from
\* before one that was finished when it came.  (One that reads the roles before a change and
\* the grants after it may find neither; and one that has read a group which two changes of the
\* groups then lose may find a grant that is made to that group afterwards.)
AnswersAreHonest == "groups" \notin overlap /\ ~raced /\ ~skipped => untrue = {}

\* Changes of roles and of groups do not undo each other, together or in turn.  Two changes of
\* one list may: each writes the whole list as it read it.
ChangesAreKept == overlap = {} /\ ~raced /\ ~skipped => ~lost

\* What is cached, answered and stored agrees, as long as nothing was raced or skipped.
PermissionsHold == TypeOK /\ CopiesAreCurrent /\ AnswersAreHonest /\ ChangesAreKept
=============================================================================
