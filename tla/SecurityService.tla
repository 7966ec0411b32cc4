----------------------------- MODULE SecurityService -----------------------------
(***************************************************************************)
(* The role caches of services/security/service.py.  has_role and          *)
(* has_permission keep what they read of a principal's roles on the        *)
(* instance (__roles_cache__); grant_role and ungrant_role drop some of    *)
(* these caches.  A session has one instance of each principal.  Every     *)
(* query flushes the session first, so that the rows are what the session  *)
(* sees.                                                                   *)
(***************************************************************************)
EXTENDS SecurityRules, FiniteSets, Naturals

CONSTANTS
    Grantable,      \* bound: the role assignments that are ever made
    Assignable,     \* bound: the permission assignments that are ever made
    MaxGrants       \* bound: role assignments at a time

ASSUME ServiceAssumption ==
    /\ None \notin RoleOn
    /\ Grantable \subseteq RoleAssignment
    /\ Assignable \subseteq PermissionAssignment
    /\ MaxGrants \in Nat

VARIABLES
    cache,      \* __roles_cache__ of each user and group
    audit,      \* SecurityAudit: the assignments whose last entry is a GRANT
    overtaken   \* history: who has a cache older than a change the service
                \* was not told of

rules == <<members, ra, pa, inherit>>
vars == <<members, ra, pa, inherit, cache, audit, overtaken>>

NoCache == {None}
Cached(p) == cache[p] # NoCache

TypeOK ==
    /\ members \in [Group -> SUBSET User]
    /\ ra \subseteq Grantable
    /\ pa \subseteq Assignable
    /\ inherit \in [Object -> BOOLEAN]
    /\ cache \in [User \cup Group -> (SUBSET RoleOn) \cup {NoCache}]
    /\ audit \subseteq Grantable
    /\ overtaken \subseteq {p \in User \cup Group : Cached(p)}

Init ==
    /\ members \in [Group -> SUBSET User]
    /\ ra = {}
    /\ pa = {}
    /\ inherit = [o \in Object |-> TRUE]
    /\ cache = [p \in User \cup Group |-> NoCache]
    /\ audit = {}
    /\ overtaken = {}

--------------------------------------------------------------------------------
(* Caches.                                                                 *)

Dropped(principals) ==
    [p \in User \cup Group |-> IF p \in principals THEN NoCache ELSE cache[p]]

Drop(principals) ==
    /\ cache' = Dropped(principals)
    /\ overtaken' = overtaken \ principals

\* Those whose roles depend on the rows of p, and have a cache.
Overtake(p) ==
    LET touched == {p} \cup IF p \in Group THEN members[p] ELSE {} IN
    overtaken' = overtaken \cup {q \in (User \cup Group) \cap touched : Cached(q)}

\* _fill_role_cache_batch of a user and its groups.  A user that is assigned
\* nothing itself gets an empty cache.
BatchFilled(u) ==
    LET groups == GroupsOf(u)
        filled == [p \in User \cup Group |->
                     IF p \in groups /\ ~Cached(p) THEN DirectRoles(p) ELSE cache[p]]
    IN IF Cached(u) THEN filled
       ELSE [filled EXCEPT ![u] =
               IF DirectRoles(u) = {} THEN {}
               ELSE DirectRoles(u) \cup UNION {filled[g] : g \in groups}]

\* What has_role knows of a principal: _fill_role_cache.
Known(p) == IF Cached(p) THEN cache[p] ELSE AllRoles(p)

--------------------------------------------------------------------------------
(* Operations.                                                             *)

\* has_role of somebody whose answer depends on its roles.
AskRole(p) ==
    /\ p # Root
    /\ cache' = [cache EXCEPT ![p] = Known(p)]
    /\ UNCHANGED <<rules, audit, overtaken>>

\* has_permission of somebody whose answer depends on its roles.
AskPermission(u) ==
    /\ u # Root
    /\ cache' = BatchFilled(u)
    /\ overtaken' = overtaken \cup {v \in {u} : ~Cached(u) /\ GroupsOf(u) \cap overtaken # {}}
    /\ UNCHANGED <<rules, audit>>

\* A fault: a group's role is given to each member.
GrantRoleToMembers(a) ==
    /\ a \notin ra
    /\ Cardinality(ra) < MaxGrants
    /\ ra' = ra \cup {[a EXCEPT !.who = p] :
                          p \in {a.who} \cup IF a.who \in Group THEN members[a.who] ELSE {}}
    /\ audit' = audit \cup {a}
    /\ Drop({a.who})
    /\ UNCHANGED <<members, pa, inherit>>

\* grant_role: only the principal's own cache is dropped.
GrantRole(a) ==
    /\ a \notin ra
    /\ Cardinality(ra) < MaxGrants
    /\ ra' = ra \cup {a}
    /\ audit' = audit \cup {a}
    /\ Drop({a.who})
    /\ UNCHANGED <<members, pa, inherit>>

\* A fault: the caches of a group's members are kept, as grant_role keeps them.
UngrantRoleKeepingMembers(a) ==
    /\ a \in ra
    /\ a.who # Visitor
    /\ ra' = ra \ {a}
    /\ audit' = audit \ {a}
    /\ Drop({a.who})
    /\ UNCHANGED <<members, pa, inherit>>

\* ungrant_role of a user or a group.
UngrantRole(a) ==
    /\ a \in ra
    /\ a.who # Visitor
    /\ ra' = ra \ {a}
    /\ audit' = audit \ {a}
    /\ Drop({a.who} \cup IF a.who \in Group THEN members[a.who] ELSE {})
    /\ UNCHANGED <<members, pa, inherit>>

\* ungrant_role of the anonymous: the query is not narrowed to its assignments,
\* and one() accepts its only result, whoever it is about.
UngrantAnonymous(a) ==
    /\ a.who = Visitor
    /\ \E found \in ra :
         /\ {b \in ra : b.role = a.role /\ b.object = a.object} = {found}
         /\ ra' = ra \ {found}
         /\ Overtake(found.who)
    /\ audit' = audit \ {a}
    /\ UNCHANGED <<members, pa, inherit, cache>>

\* The rows change under the session: another commits, or this one rolls back.
ChangedElsewhere(a) ==
    /\ Cardinality(ra \cup {a}) <= MaxGrants
    /\ ra' = IF a \in ra THEN ra \ {a} ELSE ra \cup {a}
    /\ audit' = IF a \in ra THEN audit \ {a} ELSE audit \cup {a}
    /\ Overtake(a.who)
    /\ UNCHANGED <<members, pa, inherit, cache>>

Join(u, g) ==
    /\ u \notin members[g]
    /\ members' = [members EXCEPT ![g] = @ \cup {u}]
    /\ UNCHANGED <<ra, pa, inherit, cache, audit, overtaken>>

\* Nothing drops the cache of who leaves.
Leave(u, g) ==
    /\ u \in members[g]
    /\ members' = [members EXCEPT ![g] = @ \ {u}]
    /\ Overtake(u)
    /\ UNCHANGED <<ra, pa, inherit, cache, audit>>

AddPermission(a) ==
    /\ pa' = pa \cup {a}
    /\ UNCHANGED <<members, ra, inherit, cache, audit, overtaken>>

DeletePermission(a) ==
    /\ pa' = pa \ {a}
    /\ UNCHANGED <<members, ra, inherit, cache, audit, overtaken>>

SetInheritSecurity(o, b) ==
    /\ inherit' = [inherit EXCEPT ![o] = b]
    /\ UNCHANGED <<members, ra, pa, cache, audit, overtaken>>

Next ==
    \/ \E p \in User \cup Group : AskRole(p)
    \/ \E u \in User : AskPermission(u)
    \/ \E a \in Grantable : \/ GrantRole(a)
                            \/ UngrantRole(a)
                            \/ UngrantAnonymous(a)
                            \/ ChangedElsewhere(a)
    \/ \E u \in User, g \in Group : Join(u, g) \/ Leave(u, g)
    \/ \E a \in Assignable : AddPermission(a) \/ DeletePermission(a)
    \/ \E o \in Object, b \in BOOLEAN : SetInheritSecurity(o, b)

Spec == Init /\ [][Next]_vars

--------------------------------------------------------------------------------
(* Properties.                                                             *)

FromRows == [p \in User \cup Group |-> AllRoles(p)]

\* A user whose cache, and whose groups', nothing has overtaken.
UpToDate(u) == ({u} \cup GroupsOf(u)) \cap overtaken = {}

\* A cache that nothing has overtaken has every role assigned to its principal
\* itself, and none that its rows and its groups' do not give: grant_role,
\* ungrant_role and both ways of filling caches keep this between them.
CachesAreSound ==
    \A p \in User \cup Group : Cached(p) /\ p \notin overtaken =>
        /\ DirectRoles(p) \subseteq cache[p]
        /\ cache[p] \subseteq AllRoles(p)

\* has_permission answers from the caches what the rows say, although a user's
\* cache may lack its groups' roles: it asks the groups too.
PermissionsAreCurrent ==
    \A u \in User, permission \in Permission, o \in Scope, inherited \in BOOLEAN :
        UpToDate(u) =>
            (HasPermission(BatchFilled(u), u, permission, o, inherited)
               <=> HasPermission(FromRows, u, permission, o, inherited))

\* has_role answers from the cache what the rows say.
RolesAreCurrent ==
    \A u \in User, r \in Role, o \in Scope :
        UpToDate(u) => (HasRole(Known(u), u, {r}, o) <=> HasRole(AllRoles(u), u, {r}, o))

\* A listing has no object that has_permission refuses, as long as nothing is
\* granted to the anonymous, which has_permission ignores and a listing counts.
ListedIsPermitted ==
    (\A a \in ra : a.who # Visitor) =>
        \A u \in User, permission \in Permission, o \in Object :
            Listed(u, permission, o) => HasPermission(FromRows, u, permission, o, FALSE)

\* A listing lacks what has_permission allows only on account of the defaults,
\* of an assignment that concerns all objects, of the role given to all users,
\* of the manager's or the root's privilege, or, for what is open to everybody,
\* to a user who holds no role.
PermittedIsListed ==
    \A u \in User \ {Root}, permission \in Permission, o \in Object :
        /\ HasPermission(FromRows, u, permission, o, FALSE)
        /\ DefaultRoles(permission) = {}
        /\ AssignedRoles(permission, {None}) = {}
        /\ "authenticated" \notin AssignedRoles(permission, {o})
        /\ \A k \in AllRoles(u) : k.role # "manager"
        /\ \E k \in AllRoles(u) : k.object \in {None, o}
        => Listed(u, permission, o)

\* A search, made when the index is up to date, finds no object that the user
\* may not read.
FoundIsReadable ==
    \A u \in User \cup {Visitor}, o \in Object :
        Found(u, o) => HasPermission(FromRows, u, "read", o, FALSE)

\* The security log says of each assignment whether it stands.  It does not hold,
\* since ungrant_role may delete another's assignment for the anonymous, and no run
\* checks it.
AuditExplainsAssignments ==
    audit = ra
================================================================================
