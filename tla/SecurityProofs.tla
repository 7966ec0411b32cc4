----------------------------- MODULE SecurityProofs -----------------------------
(***************************************************************************)
(* Proofs about SecurityRules and SecurityService, for any users, groups,  *)
(* objects, roles and assignments: the caches are sound, has_permission    *)
(* answers from them what the rows say, and listings and searches show     *)
(* nothing that has_permission refuses.                                    *)
(***************************************************************************)
EXTENDS SecurityService, TLAPS

USE DEF Cached, NoCache

IndInv == TypeOK /\ CachesAreSound

--------------------------------------------------------------------------------
(* What the rows give.                                                     *)

\* Direct roles are roles somewhere.
LEMMA DirectRolesType ==
    ASSUME TypeOK, NEW p
    PROVE  DirectRoles(p) \subseteq RoleOn
  BY ServiceAssumption DEF TypeOK, DirectRoles, On, RoleOn, RoleAssignment

LEMMA AllRolesType ==
    ASSUME TypeOK, NEW p
    PROVE  AllRoles(p) \subseteq RoleOn
  BY DirectRolesType DEF AllRoles

\* Groups are in no group.
LEMMA GroupsOfGroups ==
    ASSUME TypeOK, NEW g \in Group
    PROVE  GroupsOf(g) = {} /\ AllRoles(g) = DirectRoles(g)
  <1>1. GroupsOf(g) = {}
    BY RulesAssumption DEF TypeOK, GroupsOf
  <1>2. QED
    BY <1>1 DEF AllRoles

\* Rows that differ in one assignment give the same roles to everybody who is
\* neither its principal nor a member of it.
LEMMA OtherRoles ==
    ASSUME NEW a, ra' \cup {a} = ra \cup {a}, members' = members,
           NEW p, a.who \notin {p} \cup GroupsOf(p)
    PROVE  DirectRoles(p)' = DirectRoles(p) /\ AllRoles(p)' = AllRoles(p)
  <1>1. \A q : q # a.who => DirectRoles(q)' = DirectRoles(q)
    <2> SUFFICES ASSUME NEW q, q # a.who PROVE DirectRoles(q)' = DirectRoles(q)
      OBVIOUS
    <2>1. {b \in ra' : b.who = q} = {b \in ra : b.who = q}
      OBVIOUS
    <2>2. QED
      BY <2>1 DEF DirectRoles
  <1>2. GroupsOf(p)' = GroupsOf(p)
    BY DEF GroupsOf
  <1>3. QED
    BY <1>1, <1>2 DEF AllRoles

\* More rows give more roles.
LEMMA MoreRows ==
    ASSUME ra \subseteq ra', members' = members, NEW p
    PROVE  AllRoles(p) \subseteq AllRoles(p)'
  <1>1. \A q : DirectRoles(q) \subseteq DirectRoles(q)'
    BY DEF DirectRoles
  <1>2. GroupsOf(p)' = GroupsOf(p)
    BY DEF GroupsOf
  <1>3. QED
    BY <1>1, <1>2 DEF AllRoles

LEMMA SameRows ==
    ASSUME ra' = ra, members' = members, NEW p
    PROVE  DirectRoles(p)' = DirectRoles(p) /\ AllRoles(p)' = AllRoles(p)
  BY DEF DirectRoles, AllRoles, GroupsOf

--------------------------------------------------------------------------------
(* Filling the caches of a user and its groups.                            *)

LEMMA BatchFilledGroups ==
    ASSUME TypeOK, NEW u \in User, NEW g \in GroupsOf(u)
    PROVE  BatchFilled(u)[g] = IF Cached(g) THEN cache[g] ELSE DirectRoles(g)
  <1>1. g \in Group /\ g # u
    BY RulesAssumption DEF GroupsOf
  <1>2. QED
    BY <1>1 DEF BatchFilled, TypeOK

LEMMA BatchFilledOthers ==
    ASSUME TypeOK, NEW u \in User, NEW p \in User \cup Group,
           p # u, p \notin GroupsOf(u)
    PROVE  BatchFilled(u)[p] = cache[p]
  BY DEF BatchFilled, TypeOK

LEMMA BatchFilledUser ==
    ASSUME TypeOK, NEW u \in User
    PROVE  BatchFilled(u)[u] =
             IF Cached(u) THEN cache[u]
             ELSE IF DirectRoles(u) = {} THEN {}
             ELSE DirectRoles(u) \cup UNION {BatchFilled(u)[g] : g \in GroupsOf(u)}
  <1> DEFINE filled == [p \in User \cup Group |->
                          IF p \in GroupsOf(u) /\ ~Cached(p) THEN DirectRoles(p)
                          ELSE cache[p]]
  <1>1. u \notin GroupsOf(u)
    BY RulesAssumption DEF GroupsOf
  <1>2. CASE Cached(u)
    BY <1>1, <1>2 DEF BatchFilled
  <1>3. CASE ~Cached(u)
    <2>1. \A g \in GroupsOf(u) : BatchFilled(u)[g] = filled[g]
      BY <1>1, <1>3 DEF BatchFilled, GroupsOf
    <2>2. UNION {BatchFilled(u)[g] : g \in GroupsOf(u)} = UNION {filled[g] : g \in GroupsOf(u)}
      BY <2>1
    <2>3. BatchFilled(u)[u] = IF DirectRoles(u) = {} THEN {}
             ELSE DirectRoles(u) \cup UNION {filled[g] : g \in GroupsOf(u)}
      BY <1>3 DEF BatchFilled
    <2>4. QED
      BY <2>2, <2>3, <1>3
  <1>4. QED
    BY <1>2, <1>3

\* Every cache is a set of roles, and none is missing for the user or a group.
LEMMA BatchFilledType ==
    ASSUME TypeOK, NEW u \in User
    PROVE  /\ BatchFilled(u) \in [User \cup Group -> (SUBSET RoleOn) \cup {NoCache}]
           /\ \A p \in {u} \cup GroupsOf(u) : BatchFilled(u)[p] \in SUBSET RoleOn
  <1>1. \A g \in GroupsOf(u) : BatchFilled(u)[g] \in SUBSET RoleOn
    <2> SUFFICES ASSUME NEW g \in GroupsOf(u) PROVE BatchFilled(u)[g] \in SUBSET RoleOn
      OBVIOUS
    <2>1. g \in Group
      BY DEF GroupsOf
    <2>2. QED
      BY <2>1, BatchFilledGroups, DirectRolesType DEF TypeOK
  <1>2. BatchFilled(u)[u] \in SUBSET RoleOn
    <2>1. CASE Cached(u)
      BY <2>1, BatchFilledUser DEF TypeOK
    <2>2. CASE ~Cached(u)
      <3>1. UNION {BatchFilled(u)[g] : g \in GroupsOf(u)} \subseteq RoleOn
        BY <1>1
      <3>2. QED
        BY <2>2, <3>1, BatchFilledUser, DirectRolesType
    <2>3. QED
      BY <2>1, <2>2
  <1>3. \A p \in User \cup Group : BatchFilled(u)[p] \in (SUBSET RoleOn) \cup {NoCache}
    BY <1>1, <1>2, BatchFilledOthers DEF TypeOK
  <1>4. BatchFilled(u) = [p \in User \cup Group |-> BatchFilled(u)[p]]
    BY DEF BatchFilled, TypeOK
  <1>5. QED
    BY <1>1, <1>2, <1>3, <1>4

\* Filling keeps caches sound, unless a group's was overtaken.
LEMMA BatchFilledSound ==
    ASSUME IndInv, NEW u \in User, NEW p \in User \cup Group,
           BatchFilled(u)[p] # NoCache, p \notin overtaken,
           p = u => Cached(u) \/ GroupsOf(u) \cap overtaken = {}
    PROVE  /\ DirectRoles(p) \subseteq BatchFilled(u)[p]
           /\ BatchFilled(u)[p] \subseteq AllRoles(p)
  <1> USE DEF IndInv
  <1>1. CASE p # u /\ p \notin GroupsOf(u)
    BY <1>1, BatchFilledOthers DEF CachesAreSound
  <1>2. CASE p \in GroupsOf(u)
    <2>1. p \in Group
      BY <1>2 DEF GroupsOf
    <2>2. QED
      BY <1>2, <2>1, BatchFilledGroups, GroupsOfGroups DEF CachesAreSound
  <1>3. CASE p = u /\ Cached(u)
    BY <1>3, BatchFilledUser DEF CachesAreSound
  <1>4. CASE p = u /\ ~Cached(u)
    <2>1. \A g \in GroupsOf(u) : BatchFilled(u)[g] \subseteq DirectRoles(g)
      <3> SUFFICES ASSUME NEW g \in GroupsOf(u)
                   PROVE  BatchFilled(u)[g] \subseteq DirectRoles(g)
        OBVIOUS
      <3>1. g \in Group /\ g \notin overtaken
        BY <1>4 DEF GroupsOf
      <3>2. QED
        BY <3>1, BatchFilledGroups, GroupsOfGroups DEF CachesAreSound
    <2>2. UNION {BatchFilled(u)[g] : g \in GroupsOf(u)} \subseteq AllRoles(u)
      BY <2>1 DEF AllRoles
    <2>3. DirectRoles(u) \subseteq AllRoles(u)
      BY DEF AllRoles
    <2>4. QED
      BY <1>4, <2>2, <2>3, BatchFilledUser
  <1>5. QED
    BY <1>1, <1>2, <1>3, <1>4

--------------------------------------------------------------------------------
(* One lemma per operation: types, and sound caches.                       *)

LEMMA DropType ==
    ASSUME TypeOK, NEW ps, Drop(ps)
    PROVE  /\ cache' \in [User \cup Group -> (SUBSET RoleOn) \cup {NoCache}]
           /\ overtaken' \subseteq {p \in User \cup Group : Cached(p)}'
           /\ \A p \in User \cup Group : Cached(p)' =>
                p \notin ps /\ cache'[p] = cache[p] /\ (p \notin overtaken' => p \notin overtaken)
  BY DEF Drop, Dropped, TypeOK

LEMMA OvertakeType ==
    ASSUME TypeOK, NEW p, Overtake(p), cache' = cache
    PROVE  /\ overtaken' \subseteq {q \in User \cup Group : Cached(q)}'
           /\ \A q \in User \cup Group : Cached(q)' /\ q \notin overtaken' =>
                q \notin overtaken /\ p \notin {q} \cup GroupsOf(q)
  <1>1. \A q \in User \cup Group : p \in GroupsOf(q) => p \in Group /\ q \in members[p]
    BY DEF GroupsOf
  <1>2. QED
    BY <1>1 DEF Overtake, TypeOK

LEMMA AskRoleInv ==
    ASSUME IndInv, NEW p \in User \cup Group, AskRole(p)
    PROVE  IndInv'
  <1> USE DEF IndInv, AskRole, rules
  <1>1. Known(p) \in SUBSET RoleOn
    BY AllRolesType DEF TypeOK, Known
  <1>2. TypeOK'
    <2>1. cache' \in [User \cup Group -> (SUBSET RoleOn) \cup {NoCache}]
      BY <1>1 DEF TypeOK
    <2>2. \A q \in User \cup Group : Cached(q) => Cached(q)'
      BY DEF TypeOK, Known
    <2>3. QED
      BY <2>1, <2>2 DEF TypeOK
  <1>3. CachesAreSound'
    <2> SUFFICES ASSUME NEW q \in User \cup Group, Cached(q)', q \notin overtaken'
                 PROVE  DirectRoles(q)' \subseteq cache'[q] /\ cache'[q] \subseteq AllRoles(q)'
      BY DEF CachesAreSound
    <2>1. DirectRoles(q)' = DirectRoles(q) /\ AllRoles(q)' = AllRoles(q)
      BY SameRows
    <2>2. CASE q = p /\ ~Cached(p)
      BY <2>1, <2>2 DEF Known, AllRoles, TypeOK
    <2>3. CASE q # p \/ Cached(p)
      BY <2>1, <2>3 DEF Known, TypeOK, CachesAreSound
    <2>4. QED
      BY <2>2, <2>3
  <1>4. QED
    BY <1>2, <1>3

LEMMA AskPermissionInv ==
    ASSUME IndInv, NEW u \in User, AskPermission(u)
    PROVE  IndInv'
  <1> USE DEF IndInv, AskPermission, rules
  <1>1. TypeOK'
    <2>1. \A p \in User \cup Group : Cached(p) => BatchFilled(u)[p] # NoCache
      <3> SUFFICES ASSUME NEW p \in User \cup Group, Cached(p)
                   PROVE  BatchFilled(u)[p] # NoCache
        OBVIOUS
      <3>1. CASE p \in GroupsOf(u)
        BY <3>1, BatchFilledGroups
      <3>2. CASE p = u
        BY <3>2, BatchFilledUser
      <3>3. CASE p # u /\ p \notin GroupsOf(u)
        BY <3>3, BatchFilledOthers
      <3>4. QED
        BY <3>1, <3>2, <3>3
    <2>2. BatchFilled(u)[u] # NoCache
      BY BatchFilledType, ServiceAssumption
    <2>3. overtaken' \subseteq {p \in User \cup Group : Cached(p)}'
      BY <2>1, <2>2 DEF TypeOK
    <2>4. QED
      BY <2>3, BatchFilledType DEF TypeOK
  <1>2. CachesAreSound'
    <2> SUFFICES ASSUME NEW p \in User \cup Group, Cached(p)', p \notin overtaken'
                 PROVE  DirectRoles(p)' \subseteq cache'[p] /\ cache'[p] \subseteq AllRoles(p)'
      BY DEF CachesAreSound
    <2>1. DirectRoles(p)' = DirectRoles(p) /\ AllRoles(p)' = AllRoles(p)
      BY SameRows
    <2>2. p \notin overtaken /\ (p = u => Cached(u) \/ GroupsOf(u) \cap overtaken = {})
      OBVIOUS
    <2>3. QED
      BY <2>1, <2>2, BatchFilledSound
  <1>3. QED
    BY <1>1, <1>2

LEMMA GrantRoleInv ==
    ASSUME IndInv, NEW a \in Grantable, GrantRole(a)
    PROVE  IndInv'
  <1> USE DEF IndInv, GrantRole
  <1>1. TypeOK'
    BY DropType DEF TypeOK
  <1>2. CachesAreSound'
    <2> SUFFICES ASSUME NEW p \in User \cup Group, Cached(p)', p \notin overtaken'
                 PROVE  DirectRoles(p)' \subseteq cache'[p] /\ cache'[p] \subseteq AllRoles(p)'
      BY DEF CachesAreSound
    <2>1. p # a.who /\ cache'[p] = cache[p] /\ p \notin overtaken
      BY DropType
    <2>2. DirectRoles(p)' = DirectRoles(p)
      <3>1. {b \in ra' : b.who = p} = {b \in ra : b.who = p}
        BY <2>1
      <3>2. QED
        BY <3>1 DEF DirectRoles
    <2>3. AllRoles(p) \subseteq AllRoles(p)'
      BY MoreRows
    <2>4. DirectRoles(p) \subseteq cache[p] /\ cache[p] \subseteq AllRoles(p)
      BY <2>1 DEF CachesAreSound
    <2>5. QED
      BY <2>1, <2>2, <2>3, <2>4
  <1>3. QED
    BY <1>1, <1>2

LEMMA UngrantRoleInv ==
    ASSUME IndInv, NEW a \in Grantable, UngrantRole(a)
    PROVE  IndInv'
  <1> USE DEF IndInv, UngrantRole
  <1>1. TypeOK'
    BY DropType DEF TypeOK
  <1>2. CachesAreSound'
    <2> SUFFICES ASSUME NEW p \in User \cup Group, Cached(p)', p \notin overtaken'
                 PROVE  DirectRoles(p)' \subseteq cache'[p] /\ cache'[p] \subseteq AllRoles(p)'
      BY DEF CachesAreSound
    <2>1. /\ p \notin {a.who} \cup IF a.who \in Group THEN members[a.who] ELSE {}
          /\ cache'[p] = cache[p] /\ p \notin overtaken
      BY DropType
    <2>2. a.who \notin {p} \cup GroupsOf(p)
      BY <2>1 DEF GroupsOf
    <2>3. DirectRoles(p)' = DirectRoles(p) /\ AllRoles(p)' = AllRoles(p)
      <3>1. ra' \cup {a} = ra \cup {a}
        OBVIOUS
      <3>2. QED
        BY <3>1, <2>2, OtherRoles
    <2>4. QED
      BY <2>1, <2>3 DEF CachesAreSound
  <1>3. QED
    BY <1>1, <1>2

\* What is overtaken excuses what changed.
LEMMA OvertakenInv ==
    ASSUME IndInv, NEW a \in Grantable, ra' \cup {a} = ra \cup {a}, ra' \subseteq Grantable,
           Overtake(a.who), audit' \subseteq Grantable,
           UNCHANGED <<members, pa, inherit, cache>>
    PROVE  IndInv'
  <1> USE DEF IndInv
  <1>1. TypeOK'
    BY OvertakeType DEF TypeOK
  <1>2. CachesAreSound'
    <2> SUFFICES ASSUME NEW p \in User \cup Group, Cached(p)', p \notin overtaken'
                 PROVE  DirectRoles(p)' \subseteq cache'[p] /\ cache'[p] \subseteq AllRoles(p)'
      BY DEF CachesAreSound
    <2>1. a.who \notin {p} \cup GroupsOf(p) /\ p \notin overtaken
      BY OvertakeType
    <2>2. DirectRoles(p)' = DirectRoles(p) /\ AllRoles(p)' = AllRoles(p)
      BY <2>1, OtherRoles
    <2>3. QED
      BY <2>1, <2>2 DEF CachesAreSound
  <1>3. QED
    BY <1>1, <1>2

LEMMA UngrantAnonymousInv ==
    ASSUME IndInv, NEW a \in Grantable, UngrantAnonymous(a)
    PROVE  IndInv'
  <1> USE DEF UngrantAnonymous
  <1>1. PICK found \in ra : ra' = ra \ {found} /\ Overtake(found.who)
    OBVIOUS
  <1>2. found \in Grantable /\ ra' \subseteq Grantable /\ audit' \subseteq Grantable
    BY <1>1 DEF IndInv, TypeOK
  <1>3. ra' \cup {found} = ra \cup {found}
    BY <1>1
  <1>4. QED
    BY <1>1, <1>2, <1>3, OvertakenInv

LEMMA ChangedElsewhereInv ==
    ASSUME IndInv, NEW a \in Grantable, ChangedElsewhere(a)
    PROVE  IndInv'
  <1> USE DEF ChangedElsewhere
  <1>1. ra' \subseteq Grantable /\ audit' \subseteq Grantable
    BY DEF IndInv, TypeOK
  <1>2. ra' \cup {a} = ra \cup {a}
    OBVIOUS
  <1>3. QED
    BY <1>1, <1>2, OvertakenInv

LEMMA JoinInv ==
    ASSUME IndInv, NEW u \in User, NEW g \in Group, Join(u, g)
    PROVE  IndInv'
  <1> USE DEF IndInv, Join
  <1>1. TypeOK'
    BY DEF TypeOK
  <1>2. \A p : DirectRoles(p)' = DirectRoles(p) /\ AllRoles(p) \subseteq AllRoles(p)'
    <2>1. \A p : DirectRoles(p)' = DirectRoles(p)
      BY DEF DirectRoles
    <2>2. \A p : GroupsOf(p) \subseteq GroupsOf(p)'
      BY DEF GroupsOf, TypeOK
    <2>3. QED
      BY <2>1, <2>2 DEF AllRoles
  <1>3. CachesAreSound'
    <2> SUFFICES ASSUME NEW p \in User \cup Group, Cached(p)', p \notin overtaken'
                 PROVE  DirectRoles(p)' \subseteq cache'[p] /\ cache'[p] \subseteq AllRoles(p)'
      BY DEF CachesAreSound
    <2>1. DirectRoles(p) \subseteq cache[p] /\ cache[p] \subseteq AllRoles(p)
      BY DEF CachesAreSound
    <2>2. QED
      BY <1>2, <2>1
  <1>4. QED
    BY <1>1, <1>3

LEMMA LeaveInv ==
    ASSUME IndInv, NEW u \in User, NEW g \in Group, Leave(u, g)
    PROVE  IndInv'
  <1> USE DEF IndInv, Leave
  <1>1. TypeOK'
    BY OvertakeType DEF TypeOK
  <1>2. CachesAreSound'
    <2> SUFFICES ASSUME NEW p \in User \cup Group, Cached(p)', p \notin overtaken'
                 PROVE  DirectRoles(p)' \subseteq cache'[p] /\ cache'[p] \subseteq AllRoles(p)'
      BY DEF CachesAreSound
    <2>1. p # u /\ p \notin overtaken
      BY OvertakeType
    <2>2. GroupsOf(p)' = GroupsOf(p)
      BY <2>1 DEF GroupsOf, TypeOK
    <2>3. \A q : DirectRoles(q)' = DirectRoles(q)
      BY DEF DirectRoles
    <2>4. AllRoles(p)' = AllRoles(p)
      BY <2>2, <2>3 DEF AllRoles
    <2>5. QED
      BY <2>1, <2>3, <2>4 DEF CachesAreSound
  <1>3. QED
    BY <1>1, <1>2

\* Nothing that the caches are about changes.
LEMMA OtherInv ==
    ASSUME IndInv, UNCHANGED <<members, ra, cache, audit, overtaken>>,
           pa' \subseteq Assignable, inherit' \in [Object -> BOOLEAN]
    PROVE  IndInv'
  <1> USE DEF IndInv
  <1>1. TypeOK'
    BY DEF TypeOK
  <1>2. CachesAreSound'
    BY SameRows DEF CachesAreSound
  <1>3. QED
    BY <1>1, <1>2

LEMMA InitInv == Init => IndInv
  BY DEF Init, IndInv, TypeOK, CachesAreSound

LEMMA NextInv == IndInv /\ [Next]_vars => IndInv'
  <1> SUFFICES ASSUME IndInv, [Next]_vars PROVE IndInv'
    OBVIOUS
  <1>1. ASSUME NEW p \in User \cup Group, AskRole(p) PROVE IndInv'
    BY <1>1, AskRoleInv
  <1>2. ASSUME NEW u \in User, AskPermission(u) PROVE IndInv'
    BY <1>2, AskPermissionInv
  <1>3. ASSUME NEW a \in Grantable,
               GrantRole(a) \/ UngrantRole(a) \/ UngrantAnonymous(a) \/ ChangedElsewhere(a)
        PROVE  IndInv'
    BY <1>3, GrantRoleInv, UngrantRoleInv, UngrantAnonymousInv, ChangedElsewhereInv
  <1>4. ASSUME NEW u \in User, NEW g \in Group, Join(u, g) \/ Leave(u, g) PROVE IndInv'
    BY <1>4, JoinInv, LeaveInv
  <1>5. ASSUME NEW a \in Assignable, AddPermission(a) \/ DeletePermission(a) PROVE IndInv'
    <2>1. pa' \subseteq Assignable /\ inherit' \in [Object -> BOOLEAN]
      BY <1>5 DEF AddPermission, DeletePermission, IndInv, TypeOK
    <2>2. QED
      BY <1>5, <2>1, OtherInv DEF AddPermission, DeletePermission
  <1>6. ASSUME NEW o \in Object, NEW b \in BOOLEAN, SetInheritSecurity(o, b) PROVE IndInv'
    <2>1. pa' \subseteq Assignable /\ inherit' \in [Object -> BOOLEAN]
      BY <1>6 DEF SetInheritSecurity, IndInv, TypeOK
    <2>2. QED
      BY <1>6, <2>1, OtherInv DEF SetInheritSecurity
  <1>7. CASE UNCHANGED vars
    BY <1>7, OtherInv DEF vars, IndInv, TypeOK
  <1>8. QED
    BY <1>1, <1>2, <1>3, <1>4, <1>5, <1>6, <1>7 DEF Next

\* Every variable keeps its type.
THEOREM TypeCorrect == Spec => []TypeOK
  <1>1. IndInv => TypeOK
    BY DEF IndInv
  <1>2. QED
    BY <1>1, InitInv, NextInv, PTL DEF Spec

\* A cache that nothing has overtaken has all that is assigned to its principal
\* itself and nothing that the rows do not give it (grant_role, ungrant_role,
\* _fill_role_cache, _fill_role_cache_batch).
THEOREM SoundCaches == Spec => []CachesAreSound
  <1>1. IndInv => CachesAreSound
    BY DEF IndInv
  <1>2. QED
    BY <1>1, InitInv, NextInv, PTL DEF Spec

--------------------------------------------------------------------------------
(* has_permission from caches and from rows.                               *)

\* has_role is true of what a principal is, or of a role it has.
LEMMA HasRoleMeans ==
    ASSUME NEW known, NEW p, NEW wanted, NEW o
    PROVE  HasRole(known, p, wanted, o) <=>
             \/ HasRole({}, p, wanted, o)
             \/ p # Visitor /\ \E r \in wanted \cup {"admin", "manager"} :
                                 On(None, r) \in known \/ On(o, r) \in known
  BY DEF HasRole

\* A role of a user is its own or one of its groups'.
LEMMA WhoseRole ==
    ASSUME TypeOK, NEW u \in User, NEW p \in {u} \cup GroupsOf(u), NEW k \in AllRoles(p)
    PROVE  \E q \in {u} \cup GroupsOf(u) : k \in DirectRoles(q)
  <1>1. CASE p = u
    BY <1>1 DEF AllRoles
  <1>2. CASE p \in GroupsOf(u)
    <2>1. p \in Group
      BY <1>2 DEF GroupsOf
    <2>2. QED
      BY <1>2, <2>1, GroupsOfGroups
  <1>3. QED
    BY <1>1, <1>2

LEMMA PermissionFromCaches ==
    ASSUME IndInv, NEW u \in User, UpToDate(u), NEW permission, NEW o, NEW inherited
    PROVE  HasPermission(BatchFilled(u), u, permission, o, inherited)
             <=> HasPermission(FromRows, u, permission, o, inherited)
  <1> USE DEF IndInv
  <1> DEFINE ps == {u} \cup GroupsOf(u)
             valid == AssignedRoles(permission, {None, o}) \cup {"admin"}
                        \cup DefaultRoles(permission)
             asked == CheckedScopes(o, inherited)
             fromCache == \E p \in ps, x \in asked : HasRole(BatchFilled(u)[p], p, valid, x)
             fromRows == \E p \in ps, x \in asked : HasRole(FromRows[p], p, valid, x)
  <1>1. \A p \in ps : /\ p \in User \cup Group /\ p # Visitor
                      /\ DirectRoles(p) \subseteq BatchFilled(u)[p]
                      /\ BatchFilled(u)[p] \subseteq FromRows[p]
                      /\ FromRows[p] = AllRoles(p)
    <2> SUFFICES ASSUME NEW p \in ps
                 PROVE  /\ p \in User \cup Group /\ p # Visitor
                        /\ DirectRoles(p) \subseteq BatchFilled(u)[p]
                        /\ BatchFilled(u)[p] \subseteq FromRows[p]
                        /\ FromRows[p] = AllRoles(p)
      OBVIOUS
    <2>1. p \in User \cup Group /\ p # Visitor
      BY RulesAssumption DEF GroupsOf
    <2>2. FromRows[p] = AllRoles(p)
      BY <2>1 DEF FromRows
    <2>3. BatchFilled(u)[p] # NoCache
      BY BatchFilledType, ServiceAssumption
    <2>4. p \notin overtaken /\ GroupsOf(u) \cap overtaken = {}
      BY DEF UpToDate
    <2>5. QED
      BY <2>1, <2>2, <2>3, <2>4, BatchFilledSound
  <1>2. fromCache => fromRows
    <2> SUFFICES ASSUME NEW p \in ps, NEW x \in asked,
                        HasRole(BatchFilled(u)[p], p, valid, x)
                 PROVE  HasRole(FromRows[p], p, valid, x)
      OBVIOUS
    <2> HIDE DEF valid, asked, ps
    <2>1. BatchFilled(u)[p] \subseteq FromRows[p]
      BY <1>1
    <2>2. QED
      BY <2>1, HasRoleMeans
  <1>3. fromRows => fromCache
    <2> SUFFICES ASSUME NEW p \in ps, NEW x \in asked, HasRole(FromRows[p], p, valid, x)
                 PROVE  \E q \in ps : HasRole(BatchFilled(u)[q], q, valid, x)
      OBVIOUS
    <2>1. FromRows[p] = AllRoles(p)
      BY <1>1
    <2> HIDE DEF valid, asked
    <2>2. CASE HasRole({}, p, valid, x)
      BY <2>2, HasRoleMeans
    <2>3. CASE \E r \in valid \cup {"admin", "manager"} :
                 On(None, r) \in AllRoles(p) \/ On(x, r) \in AllRoles(p)
      <3>1. PICK r \in valid \cup {"admin", "manager"}, y \in {None, x} :
                   On(y, r) \in AllRoles(p)
        BY <2>3
      <3>2. PICK q \in ps : On(y, r) \in DirectRoles(q)
        BY <3>1, WhoseRole
      <3>3. On(y, r) \in BatchFilled(u)[q] /\ q # Visitor
        BY <3>2, <1>1
      <3>4. QED
        BY <3>1, <3>3, HasRoleMeans
    <2>4. QED
      BY <2>1, <2>2, <2>3, HasRoleMeans
  <1>4. QED
    BY <1>2, <1>3 DEF HasPermission

\* has_permission answers from the caches what the rows say.
THEOREM CurrentPermissions == Spec => []PermissionsAreCurrent
  <1>1. IndInv => PermissionsAreCurrent
    BY PermissionFromCaches DEF PermissionsAreCurrent
  <1>2. QED
    BY <1>1, InitInv, NextInv, PTL DEF Spec

--------------------------------------------------------------------------------
(* Listings and searches.                                                  *)

\* A valid role of the user or of a group, everywhere or on the object itself,
\* is enough.
LEMMA PermittedByRole ==
    ASSUME NEW u \in User, NEW permission, NEW o, NEW inherited,
           NEW r \in AssignedRoles(permission, {None, o}) \cup {"admin"},
           NEW p \in {u} \cup GroupsOf(u), NEW x \in {None, o}, On(x, r) \in DirectRoles(p)
    PROVE  HasPermission(FromRows, u, permission, o, inherited)
  <1> DEFINE valid == AssignedRoles(permission, {None, o}) \cup {"admin"}
                        \cup DefaultRoles(permission)
  <1>1. p \in User \cup Group /\ p # Visitor
    BY RulesAssumption DEF GroupsOf
  <1>2. On(x, r) \in FromRows[p]
    BY <1>1 DEF FromRows, AllRoles
  <1>3. HasRole(FromRows[p], p, valid, x)
    <2> HIDE DEF valid
    <2>1. r \in valid
      BY DEF valid
    <2>2. QED
      BY <1>1, <1>2, <2>1, HasRoleMeans
  <1>4. x \in CheckedScopes(o, inherited)
    BY DEF CheckedScopes
  <1>5. QED
    BY <1>3, <1>4 DEF HasPermission

\* So is what the user is to the object, when the role of owner or creator is
\* assigned the permission.
LEMMA PermittedByTie ==
    ASSUME NEW u \in User, NEW permission, NEW o \in Object, NEW inherited,
           \/ "owner" \in AssignedRoles(permission, {None, o}) /\ Owner[o] = u
           \/ "creator" \in AssignedRoles(permission, {None, o}) /\ Creator[o] = u
    PROVE  HasPermission(FromRows, u, permission, o, inherited)
  <1> DEFINE valid == AssignedRoles(permission, {None, o}) \cup {"admin"}
                        \cup DefaultRoles(permission)
  <1>1. HasRole(FromRows[u], u, valid, o)
    BY RulesAssumption DEF HasRole
  <1>2. o \in CheckedScopes(o, inherited)
    BY DEF CheckedScopes
  <1>3. QED
    BY <1>1, <1>2 DEF HasPermission

LEMMA AssignedMore ==
    ASSUME NEW permission, NEW o
    PROVE  AssignedRoles(permission, {o}) \subseteq AssignedRoles(permission, {None, o})
  BY DEF AssignedRoles

LEMMA ListedPermitted ==
    ASSUME TypeOK, \A a \in ra : a.who # Visitor,
           NEW u \in User, NEW permission, NEW o \in Object, Listed(u, permission, o)
    PROVE  HasPermission(FromRows, u, permission, o, FALSE)
  <1> DEFINE rows == {b \in ra : b.who \in {Visitor, u} \cup GroupsOf(u)
                                 /\ b.object \in {None, o}}
             held == {a.role : a \in rows}
             giving == AssignedRoles(permission, {o})
  <1>1. \A r \in held : \E p \in {u} \cup GroupsOf(u), x \in {None, o} :
                           On(x, r) \in DirectRoles(p)
    <2> SUFFICES ASSUME NEW a \in rows
                 PROVE  \E p \in {u} \cup GroupsOf(u), x \in {None, o} :
                           On(x, a.role) \in DirectRoles(p)
      OBVIOUS
    <2>1. a.who \in {u} \cup GroupsOf(u) /\ On(a.object, a.role) \in DirectRoles(a.who)
      BY DEF DirectRoles
    <2>2. QED
      BY <2>1
  <1>2. CASE "anonymous" \in giving
    BY <1>2, AssignedMore DEF HasPermission
  <1>3. CASE held \cap giving # {} \/ "admin" \in held
    <2>1. PICK r \in held : r \in giving \cup {"admin"}
      BY <1>3
    <2>2. r \in AssignedRoles(permission, {None, o}) \cup {"admin"}
      BY <2>1, AssignedMore
    <2>3. QED
      BY <1>1, <2>1, <2>2, PermittedByRole
  <1>4. CASE \/ "owner" \in giving /\ Owner[o] = u
             \/ "creator" \in giving /\ Creator[o] = u
    BY <1>4, AssignedMore, PermittedByTie
  <1>5. QED
    BY <1>2, <1>3, <1>4 DEF Listed

\* A listing shows nothing that has_permission refuses.
THEOREM ListingsArePermitted == Spec => []ListedIsPermitted
  <1>1. IndInv => ListedIsPermitted
    BY ListedPermitted DEF IndInv, ListedIsPermitted
  <1>2. QED
    BY <1>1, InitInv, NextInv, PTL DEF Spec

\* What is open to everybody, or to every user.
LEMMA PermittedToAll ==
    ASSUME NEW u \in User \cup {Visitor}, NEW permission, NEW o \in Object, NEW inherited,
           LET giving == AssignedRoles(permission, {o}) IN
           "anonymous" \in giving \/ (u \in User /\ "authenticated" \in giving)
    PROVE  HasPermission(FromRows, u, permission, o, inherited)
  BY AssignedMore, RulesAssumption DEF HasPermission

\* A manager may read whatever a search finds without asking for roles.
LEMMA PermittedToManagers ==
    ASSUME NEW u \in User \cup {Visitor}, IsManager(u), NEW permission, NEW o, NEW inherited
    PROVE  HasPermission(FromRows, u, permission, o, inherited)
  <1> DEFINE valid == AssignedRoles(permission, {None, o}) \cup {"admin"}
                        \cup DefaultRoles(permission)
  <1>1. u \in User /\ FromRows[u] = AllRoles(u)
    BY DEF IsManager, FromRows
  <1>2. u = Root \/ \E r \in {"admin", "manager"} : On(None, r) \in AllRoles(u)
    <2>1. PICK r \in {"admin", "manager"} : HasRole(AllRoles(u), u, {r}, None)
      BY DEF IsManager
    <2>2. QED
      BY <2>1 DEF HasRole
  <1>3. HasRole(FromRows[u], u, valid, None)
    BY <1>1, <1>2, RulesAssumption DEF HasRole, IsManager
  <1>4. QED
    BY <1>1, <1>3 DEF HasPermission, CheckedScopes

\* An index term that the user's search asks for is a role, or the user, that may
\* read the object.
LEMMA FoundReadable ==
    ASSUME TypeOK, NEW u \in User \cup {Visitor}, NEW o \in Object,
           IndexedFor(o) \cap SearchedAs(u) # {}
    PROVE  HasPermission(FromRows, u, "read", o, FALSE)
  <1> DEFINE allowed == AssignedRoles("read", {o}) \cup {"admin"}
             holders == {a.who : a \in {b \in ra : b.object = o /\ b.role \in allowed}}
  <1>1. PICK t \in IndexedFor(o) : t \in SearchedAs(u)
    OBVIOUS
  <1>2. \/ t \in allowed
        \/ t \in holders \ {Visitor}
        \/ t \in User /\ "creator" \in allowed /\ Creator[o] = t
        \/ t \in User /\ "owner" \in allowed /\ Owner[o] = t
    BY <1>1 DEF IndexedFor
  <1>3. holders \subseteq User \cup Group \cup {Visitor}
    BY ServiceAssumption DEF TypeOK, RoleAssignment
  <1>4. allowed \subseteq Role
    BY ServiceAssumption DEF TypeOK, AssignedRoles, PermissionAssignment, Role
  <1>5. t \in Role => t \in allowed
    <2>1. t \in Role => t \notin User \cup Group
      BY RulesAssumption
    <2>2. QED
      BY <1>2, <1>3, <2>1
  <1>6. CASE t \in {"anonymous", "authenticated"} /\ (t = "authenticated" => u \in User)
    <2>1. t \in AssignedRoles("read", {o})
      BY <1>5, <1>6 DEF Role
    <2>2. QED
      BY <1>6, <2>1, PermittedToAll
  <1>7. CASE u \in User /\ t = u
    <2>1. t \notin Role /\ t # Visitor
      BY <1>7, RulesAssumption
    <2>2. CASE t \in holders
      <3>1. PICK a \in ra : a.who = u /\ a.object = o /\ a.role \in allowed
        BY <1>7, <2>2
      <3>2. On(o, a.role) \in DirectRoles(u)
        BY <3>1 DEF DirectRoles
      <3>3. a.role \in AssignedRoles("read", {None, o}) \cup {"admin"}
        BY <3>1, AssignedMore
      <3>4. QED
        BY <1>7, <3>2, <3>3, PermittedByRole
    <2>3. CASE \/ "creator" \in allowed /\ Creator[o] = u
               \/ "owner" \in allowed /\ Owner[o] = u
      BY <1>7, <2>3, AssignedMore, PermittedByTie
    <2>4. QED
      BY <1>2, <1>4, <1>7, <2>1, <2>2, <2>3
  <1>8. CASE u \in User /\ t \in GetRoles(u, None)
    <2>1. u # Visitor
      BY <1>8, RulesAssumption
    <2>2. PICK k \in AllRoles(u) : k.object = None /\ k.role = t
      BY <1>8, <2>1 DEF GetRoles
    <2>3. k = On(None, t) /\ t \in Role
      BY <2>2, AllRolesType DEF RoleOn, On
    <2>4. PICK q \in {u} \cup GroupsOf(u) : On(None, t) \in DirectRoles(q)
      BY <1>8, <2>2, <2>3, WhoseRole
    <2>5. t \in AssignedRoles("read", {None, o}) \cup {"admin"}
      BY <1>5, <2>3, AssignedMore
    <2>6. QED
      BY <1>8, <2>4, <2>5, PermittedByRole
  <1>9. QED
    BY <1>1, <1>6, <1>7, <1>8 DEF SearchedAs

\* A search finds nothing that the user may not read.
THEOREM SearchesAreReadable == Spec => []FoundIsReadable
  <1>1. IndInv => FoundIsReadable
    BY FoundReadable, PermittedToManagers DEF IndInv, FoundIsReadable, Found
  <1>2. QED
    BY <1>1, InitInv, NextInv, PTL DEF Spec

LEMMA PermittedListed ==
    ASSUME TypeOK, NEW u \in User \ {Root}, NEW permission, NEW o \in Object,
           HasPermission(FromRows, u, permission, o, FALSE),
           DefaultRoles(permission) = {},
           AssignedRoles(permission, {None}) = {},
           "authenticated" \notin AssignedRoles(permission, {o}),
           \A k \in AllRoles(u) : k.role # "manager",
           \E k \in AllRoles(u) : k.object \in {None, o}
    PROVE  Listed(u, permission, o)
  <1> DEFINE rows == {b \in ra : b.who \in {Visitor, u} \cup GroupsOf(u)
                                 /\ b.object \in {None, o}}
             held == {a.role : a \in rows}
             giving == AssignedRoles(permission, {o})
             valid == AssignedRoles(permission, {None, o}) \cup {"admin"}
                        \cup DefaultRoles(permission)
  <1>1. valid = giving \cup {"admin"}
    BY DEF AssignedRoles
  <1>2. u # Visitor
    BY RulesAssumption
  <1>3. \A k \in AllRoles(u) : k.object \in {None, o} => k.role \in held
    <2> SUFFICES ASSUME NEW k \in AllRoles(u), k.object \in {None, o} PROVE k.role \in held
      OBVIOUS
    <2>1. PICK q \in {u} \cup GroupsOf(u) : k \in DirectRoles(q)
      BY WhoseRole
    <2>2. PICK a \in ra : a.who = q /\ k = On(a.object, a.role)
      BY <2>1 DEF DirectRoles
    <2>3. k.object = a.object /\ k.role = a.role
      BY <2>2 DEF On
    <2>4. QED
      BY <2>1, <2>2, <2>3
  <1>4. CASE "anonymous" \in giving
    <2>1. held # {}
      BY <1>3
    <2>2. QED
      BY <1>4, <2>1 DEF Listed
  <1>5. ASSUME NEW p \in {u} \cup GroupsOf(u), NEW x \in {None, o},
               HasRole(FromRows[p], p, valid, x), "anonymous" \notin giving
        PROVE  Listed(u, permission, o)
    <2>1. p \in User \cup Group /\ p # Root /\ FromRows[p] = AllRoles(p)
      BY RulesAssumption DEF GroupsOf, FromRows
    <2>2. CASE x # None /\ (\/ "creator" \in valid /\ Creator[x] = p
                            \/ "owner" \in valid /\ Owner[x] = p)
      <3>1. x = o /\ p = u
        BY <2>2, RulesAssumption DEF GroupsOf
      <3>2. QED
        BY <1>1, <1>2, <2>2, <3>1 DEF Listed
    <2>3. CASE \E r \in valid \cup {"admin", "manager"} :
                  On(None, r) \in AllRoles(p) \/ On(x, r) \in AllRoles(p)
      <3>1. PICK r \in valid \cup {"admin", "manager"}, y \in {None, o} :
                   On(y, r) \in AllRoles(p)
        BY <2>3
      <3>2. PICK q \in {u} \cup GroupsOf(u) : On(y, r) \in DirectRoles(q)
        BY <3>1, WhoseRole
      <3>3. On(y, r) \in AllRoles(u)
        BY <3>2 DEF AllRoles
      <3>4. r \in held /\ r # "manager"
        BY <1>3, <3>3 DEF On
      <3>5. QED
        BY <1>1, <3>1, <3>4 DEF Listed
    <2>4. QED
      <3>2. \/ x # None /\ (\/ "creator" \in valid /\ Creator[x] = p
                            \/ "owner" \in valid /\ Owner[x] = p)
            \/ \E r \in valid \cup {"admin", "manager"} :
                  On(None, r) \in AllRoles(p) \/ On(x, r) \in AllRoles(p)
        BY <1>1, <1>5, <2>1 DEF HasRole
      <3>3. QED
        BY <2>2, <2>3, <3>2
  <1>6. CheckedScopes(o, FALSE) = {None, o}
    BY DEF CheckedScopes
  <1>7. QED
    BY <1>1, <1>4, <1>5, <1>6 DEF HasPermission

\* A listing lacks only what has one of the named reasons.
THEOREM PermissionsAreListed == Spec => []PermittedIsListed
  <1>1. IndInv => PermittedIsListed
    BY PermittedListed DEF IndInv, PermittedIsListed
  <1>2. QED
    BY <1>1, InitInv, NextInv, PTL DEF Spec
================================================================================
