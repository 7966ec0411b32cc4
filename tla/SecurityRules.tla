------------------------------ MODULE SecurityRules ------------------------------
(***************************************************************************)
(* Who may do what (services/security/).  Users and groups are assigned    *)
(* roles, everywhere or on one object; roles are assigned permissions, in  *)
(* the same way.  The code decides in three places, from different parts   *)
(* of the rows: has_permission for one object, query_entity_with_permission*)
(* for a listing, and the terms of the index for a search.                 *)
(***************************************************************************)
CONSTANTS
    User, Group, Object, Permission,
    CustomRole,     \* roles that the service gives no meaning
    Visitor,        \* the anonymous user, and the principal AnonymousRole
    Root,           \* the user whose id is 0
    None,           \* no object: everywhere; no parent, owner or creator
    Parent, Owner, Creator

Role == {"anonymous", "authenticated", "admin", "manager", "creator", "owner",
         "reader", "writer"} \cup CustomRole

Scope == Object \cup {None}

ASSUME RulesAssumption ==
    /\ User \cap Group = {}
    /\ Visitor \notin User \cup Group
    /\ Role \cap (User \cup Group \cup {Visitor}) = {}
    /\ None \notin User \cup Group \cup Object \cup {Visitor}
    /\ Root \notin Group \cup {None, Visitor}
    /\ Parent \in [Object -> Scope]
    /\ Owner \in [Object -> User \cup {None}]
    /\ Creator \in [Object -> User \cup {None}]

VARIABLES
    members,    \* Group.members
    ra,         \* rows of RoleAssignment
    pa,         \* rows of PermissionAssignment
    inherit     \* InheritSecurity.inherit_security

RoleAssignment == [who : User \cup Group \cup {Visitor}, role : Role, object : Scope]
PermissionAssignment == [permission : Permission, role : Role, object : Scope]

\* A role somewhere: what a role cache is made of.
RoleOn == [object : Scope, role : Role]
On(o, r) == [object |-> o, role |-> r]

--------------------------------------------------------------------------------
GroupsOf(u) == {g \in Group : u \in members[g]}

DirectRoles(p) == {On(a.object, a.role) : a \in {b \in ra : b.who = p}}
AllRoles(p) == DirectRoles(p) \cup UNION {DirectRoles(g) : g \in GroupsOf(p)}

GetRoles(u, o) ==
    IF u = Visitor THEN {"anonymous"}
    ELSE {k.role : k \in {j \in AllRoles(u) : j.object = o}}
         \cup {r \in {"creator"} : o # None /\ Creator[o] = u}
         \cup {r \in {"owner"} : o # None /\ Owner[o] = u}

\* has_role, once it knows the principal's roles from its cache or from rows.
HasRole(known, p, wanted, o) ==
    LET valid == wanted \cup {"admin", "manager"} IN
    \/ "anonymous" \in valid
    \/ "authenticated" \in valid /\ p \in User
    \/ p = Root
    \/ /\ o # None
       /\ \/ "creator" \in wanted /\ Creator[o] = p
          \/ "owner" \in wanted /\ Owner[o] = p
    \/ p # Visitor /\ \E r \in valid : {On(None, r), On(o, r)} \cap known # {}

DefaultRoles(permission) ==
    CASE permission = "manage" -> {"admin", "manager"}
      [] permission \in {"write", "create", "delete"} -> {"admin", "manager", "writer"}
      [] permission = "read" -> {"admin", "manager", "writer", "reader"}
      [] OTHER -> {}

AssignedRoles(permission, scopes) ==
    {a.role : a \in {b \in pa : b.permission = permission /\ b.object \in scopes}}

\* The object and its ancestors, up to the first that does not inherit.
Lineage(o) ==
    LET up[x \in Object] ==
            {x} \cup IF inherit[x] /\ Parent[x] # None THEN up[Parent[x]] ELSE {}
    IN up[o]

CheckedScopes(o, inherited) ==
    {None, o} \cup IF inherited /\ o # None THEN Lineage(o) ELSE {}

\* A fault: the user's groups are not asked.
HasPermissionOfUserAlone(known, u, permission, o, inherited) ==
    LET valid == AssignedRoles(permission, {None, o}) \cup {"admin"}
                 \cup DefaultRoles(permission)
    IN \/ "anonymous" \in valid
       \/ \E x \in CheckedScopes(o, inherited) : HasRole(known[u], u, valid, x)

\* has_permission; known has the roles of the user and of its groups.
HasPermission(known, u, permission, o, inherited) ==
    LET valid == AssignedRoles(permission, {None, o}) \cup {"admin"}
                 \cup DefaultRoles(permission)
    IN \/ u = Root
       \/ "anonymous" \in valid
       \/ "authenticated" \in valid /\ u # Visitor
       \/ \E p \in {u} \cup GroupsOf(u), x \in CheckedScopes(o, inherited) :
             HasRole(known[p], p, valid, x)

\* Faults: a role on any object counts; the roles of groups do not.
ListedForAnyObject(u, permission, o) ==
    LET held == {a.role : a \in {b \in ra : b.who \in {Visitor, u} \cup GroupsOf(u)}}
    IN "admin" \in held \/ held \cap AssignedRoles(permission, {o}) # {}

ListedForUserAlone(u, permission, o) ==
    LET held == {a.role : a \in {b \in ra : b.who \in {Visitor, u} /\ b.object \in {None, o}}}
        giving == AssignedRoles(permission, {o})
    IN \/ held \cap giving # {}
       \/ held # {} /\ "anonymous" \in giving
       \/ "admin" \in held
       \/ "owner" \in giving /\ Owner[o] = u
       \/ "creator" \in giving /\ Creator[o] = u

\* query_entity_with_permission: is o in the result?
Listed(u, permission, o) ==
    LET held == {a.role : a \in {b \in ra :
                    b.who \in {Visitor, u} \cup GroupsOf(u) /\ b.object \in {None, o}}}
        giving == AssignedRoles(permission, {o})
    IN \/ held \cap giving # {}
       \/ held # {} /\ "anonymous" \in giving
       \/ "admin" \in held
       \/ u # Visitor /\ "owner" \in giving /\ Owner[o] = u
       \/ u # Visitor /\ "creator" \in giving /\ Creator[o] = u

\* A fault: whoever has a role on the object is indexed.
IndexedForAnyHolder(o) ==
    AssignedRoles("read", {o}) \cup {"admin"}
    \cup ({a.who : a \in {b \in ra : b.object = o}} \ {Visitor})

\* What the index keeps of o (allowed_roles_and_users), and what a search asks.
IndexedFor(o) ==
    LET allowed == AssignedRoles("read", {o}) \cup {"admin"}
        holders == {a.who : a \in {b \in ra : b.object = o /\ b.role \in allowed}}
    IN allowed \cup (holders \ {Visitor})
       \cup {u \in User : "creator" \in allowed /\ Creator[o] = u}
       \cup {u \in User : "owner" \in allowed /\ Owner[o] = u}

SearchedAs(u) ==
    IF u = Visitor THEN {"anonymous"}
    ELSE {u, "anonymous", "authenticated"} \cup GetRoles(u, None)

\* g.is_manager, which makes a search ask for no role at all.
IsManager(u) ==
    u # Visitor /\ \E r \in {"admin", "manager"} : HasRole(AllRoles(u), u, {r}, None)

Found(u, o) == IsManager(u) \/ IndexedFor(o) \cap SearchedAs(u) # {}
================================================================================
