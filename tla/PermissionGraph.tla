---------------------------- MODULE PermissionGraph ----------------------------
(***************************************************************************)
(* The questions that the permission graph answers for the API server, the *)
(* front end and the audit policy, next to the answers of the SQL          *)
(* repositories, that grouper-ctl uses, and to what both ought to say.     *)
(* The graph is the one of a database that has not changed since: how it   *)
(* lags behind is in GraphCache.  Expired and inactive memberships are     *)
(* left out of edges, as every query leaves them out.                      *)
(***************************************************************************)
EXTENDS Integers, FiniteSets

CONSTANTS
    Users, Groups, Permissions,
    RoleUsers,   \* users with the role_user flag
    Services,    \* users with a service_accounts row
    NameOf,      \* [Users \union Groups -> names]: a role user and its group
                 \* share theirs
    Auditor      \* grouper.permission.auditor

ASSUME GraphAssumption ==
    /\ Users \cap Groups = {} /\ IsFiniteSet(Users \union Groups)
    /\ RoleUsers \subseteq Users /\ Services \subseteq Users
    /\ RoleUsers \cap Services = {}
    /\ DOMAIN NameOf = Users \union Groups
    /\ Auditor \in Permissions

VARIABLES
    enabled,   \* enabled users and groups
    edges,     \* [Groups -> [Members -> role]], "none" without a membership
    grants,    \* <<holder, permission>>: of groups and of service accounts
    audited    \* permissions with the audited flag

db == <<enabled, edges, grants, audited>>

Members == Users \union Groups
Roles == {"member", "manager", "owner", "np-owner"}
ApproverRoles == {"manager", "owner", "np-owner"}

-----------------------------------------------------------------------------
(* The graph.                                                              *)

\* _get_edges: memberships of enabled members in enabled groups.
Arc(g, m) == g \in enabled /\ m \in enabled /\ edges[g][m] # "none"

\* edges_without_np_owner: those that permissions are inherited along.
GrantArc(g, m) == Arc(g, m) /\ edges[g][m] # "np-owner"

\* _get_group_grants and all_service_account_permissions: what enabled holders
\* have been granted.
GrantsOf(x) == {p \in Permissions : x \in enabled /\ <<x, p>> \in grants}

\* The arcs of _graph, of the permission graph and of _rgraph: from groups to
\* their members, those of np-owners left out, and back.
DownArcs == {e \in Groups \X Members : Arc(e[1], e[2])}
DownGrantArcs == {e \in Groups \X Members : GrantArc(e[1], e[2])}
UpArcs == {e \in Members \X Groups : Arc(e[2], e[1])}

Iterated(F, x, n) ==
    LET It[k \in Nat] == IF k = 0 THEN x ELSE F[It[k - 1]]
    IN  It[n]

\* single_source_shortest_path: the nodes it finds, level by level; and the
\* same from a set of nodes.
Spread(start, arcs) ==
    LET level == [S \in SUBSET Members |->
                    S \union {m \in Members \ S : \E x \in S : <<x, m>> \in arcs}]
    IN  Iterated(level, start, Cardinality(Members))
Found(src, arcs) == Spread({src}, arcs)

\* get_group_details: users and subgroups below, groups above, the permissions
\* of the group and of all above with who holds them.
GroupUsers(g) == Found(g, DownArcs) \cap Users
Subgroups(g) == (Found(g, DownArcs) \cap Groups) \ {g}
Supergroups(g) == Found(g, UpArcs) \ {g}
GroupPermissions(g) ==
    {x \in (Supergroups(g) \union {g}) \X Permissions : x[2] \in GrantsOf(x[1])}
GroupAudited(g) == \E x \in GroupPermissions(g) : x[2] \in audited

\* get_user_details: the groups u is listed in, by itself or through another,
\* and the permissions that come with them.  A service account has its own, a
\* np-owner gets nothing from the group and nothing from the groups above.
DirectGroups(u) == {g \in Groups : Arc(g, u)}
InheritedGroups(u) == UNION {Found(g, UpArcs) : g \in {x \in Groups : GrantArc(x, u)}}
UserGroups(u) == IF u \in Services THEN {} ELSE DirectGroups(u) \union InheritedGroups(u)
UserGrants(u) ==
    IF u \in Services THEN {<<u, p>> : p \in GrantsOf(u)}
    ELSE {x \in InheritedGroups(u) \X Permissions : x[2] \in GrantsOf(x[1])}

\* _get_grants_by_permission: who holds p, users and role users apart.  Members
\* that are service accounts are left out.
HoldersByGroup(p) ==
    (UNION {Found(g, DownGrantArcs) : g \in {x \in Groups : p \in GrantsOf(x)}})
        \cap (Users \ Services)
ServiceHolders(p) == {s \in Services : p \in GrantsOf(s)}
HumanHolders(p) == HoldersByGroup(p) \ RoleUsers

\* all_grants_of_permission: without a user or a service account that holds it,
\* a permission has no entry, whichever role users hold it.
RoleHolders(p) ==
    IF HumanHolders(p) \union ServiceHolders(p) = {} THEN {}
    ELSE HoldersByGroup(p) \cap RoleUsers

\* get_groups(directly_audited=True).
DirectlyAudited == {g \in Groups \cap enabled : GrantsOf(g) \cap audited # {}}

\* get_groups(audited=True): the groups with an audited grant and all below.
AuditedGroups ==
    UNION {Found(g, DownArcs) \cap Groups : g \in DirectlyAudited}

-----------------------------------------------------------------------------
(* What the API and the pages show of it.                                  *)

\* _get_user_metadata: every row of users, whether it is enabled or not.
UserMetadata ==
    [u \in Users |-> [enabled |-> u \in enabled, role_user |-> u \in RoleUsers,
                      service_account |-> u \in Services]]
IsServiceAccount(u) == UserMetadata[u].role_user \/ UserMetadata[u].service_account

\* GET /users, /service_accounts and, of enabled accounts, /user_metadata.
ListedUsers(include_role_users) ==
    {u \in Users : include_role_users \/ ~IsServiceAccount(u)}
ListedServiceAccounts == {u \in Users : IsServiceAccount(u)}
AllUserMetadata ==
    {u \in Users : UserMetadata[u].enabled /\ ~UserMetadata[u].service_account}

\* The page of users, by SQL.
UsersView(isEnabled, service) ==
    {u \in Users : /\ (u \in enabled) = isEnabled
                   /\ (u \in RoleUsers \union Services) = service}

\* get_individual_user_info, of an account of one of the kinds asked for, and
\* GET /multi/users, of any.
HasUserInfo(u, service_account) ==
    u \in Users /\ IsServiceAccount(u) \in service_account
IndividualUserInfo(u) == [groups |-> UserGroups(u), permissions |-> UserGrants(u)]
MultiUsers(names) ==
    [u \in {n \in names : HasUserInfo(n, BOOLEAN)} |-> IndividualUserInfo(u)]

\* get_permission_details: the groups with the permission, all groups below
\* them, and the service accounts.
PermissionGroups(p) ==
    UNION {Found(g, DownArcs) \cap Groups : g \in {x \in Groups : p \in GrantsOf(x)}}
PermissionServices(p) == {s \in Services : p \in GrantsOf(s)}

\* The pages of a permission's grants, by SQL; disabled service accounts stay.
GroupGrantsForPermission(p) == {g \in Groups \cap enabled : <<g, p>> \in grants}
ServiceGrantsForPermission(p) == {s \in Services : <<s, p>> \in grants}

\* GET /groups/<name>, /permissions/<name>, /grants/<permission>, and the lists
\* of permissions.
GroupDetails(g) ==
    [users |-> GroupUsers(g), subgroups |-> Subgroups(g), groups |-> Supergroups(g),
     permissions |-> GroupPermissions(g), audited |-> GroupAudited(g)]
PermissionDetails(p) ==
    [groups |-> PermissionGroups(p), service_accounts |-> PermissionServices(p),
     audited |-> p \in audited]
GrantsOfPermission(p) ==
    [users |-> HumanHolders(p), role_users |-> RoleHolders(p),
     service_accounts |-> ServiceHolders(p)]
ListPermissions(audited_only) == {p \in Permissions : audited_only => p \in audited}

\* my_users, my_groups and my_permissions, by SQL; a disabled group has its
\* grants and neither users nor groups.
MyUsers(g) == {u \in Users \ Services : Arc(g, u)}
MyGroups(g) == {x \in Groups : Arc(x, g)}
MyPermissions(g) == {p \in Permissions : <<g, p>> \in grants}

\* The pages of a group and of a user, part of them by SQL.
GroupPage(g) ==
    [groups |-> MyGroups(g), my_permissions |-> MyPermissions(g),
     permissions |-> IF g \in enabled THEN GroupDetails(g).permissions ELSE {}]
UserPage(u) ==
    [groups |-> {g \in Groups : Arc(g, u)},
     permissions |-> IF u \in Services
                     THEN {x \in grants : x[1] = u /\ u \in enabled}
                     ELSE IndividualUserInfo(u).permissions]

\* The page of groups, without those of role users.
IsRoleUserGroup(g) == \E r \in RoleUsers : NameOf[r] = NameOf[g]
GroupsView(isEnabled, isAudited) ==
    {g \in Groups : /\ ~IsRoleUserGroup(g)
                    /\ (g \in enabled) = isEnabled
                    /\ isEnabled /\ isAudited => g \in AuditedGroups}

-----------------------------------------------------------------------------
(* The SQL repositories.                                                   *)

\* Mutant: the first query does not mind the role.
SqlGroupsAny(u) ==
    IF u \in RoleUsers \union Services \/ u \notin enabled THEN {}
    ELSE {g \in Groups \cap enabled : edges[g][u] # "none"}

\* groups_of_user, and the first query of permission_grants_for_user.
SqlGroups(u) ==
    IF u \in RoleUsers \union Services \/ u \notin enabled THEN {}
    ELSE {g \in Groups \cap enabled : edges[g][u] \notin {"none", "np-owner"}}

\* The loop of _permission_grants_for_group_ids: enabled parents of the groups
\* found so far.  Nothing asks whether a group found is enabled but the query
\* that finds it.
ParentArcs ==
    {e \in Members \X Groups : e[2] \in enabled
                              /\ edges[e[2]][e[1]] \notin {"none", "np-owner"}}
SqlParents(start) == Spread(start, ParentArcs)

SqlGrants(start) == {x \in grants : x[1] \in SqlParents(start)}

\* permission_grants_for_user and permission_grants_for_group.
SqlUserGrants(u) == SqlGrants(SqlGroups(u))
SqlGroupGrants(g) == IF g \in enabled THEN SqlGrants({g}) ELSE {}

\* permission_grants_for_service_account and service_account_permissions.
SqlServiceGrants(s) == {x \in grants : x[1] = s /\ s \in enabled}

\* user_permissions, that user_has_permission and the checks for administrators
\* search: grants of the groups u is directly in, whatever its role.
UserPermissions(u) == {x \in grants : x[1] \in Groups /\ Arc(x[1], u)}

-----------------------------------------------------------------------------
(* The audit policy.                                                       *)

\* user_is_auditor.
UserIsAuditor(u) == \E x \in UserGrants(u) : x[2] = Auditor

\* The users with a direct role other than member, and the groups directly in.
Controllers(g) == {u \in Users : Arc(g, u) /\ edges[g][u] # "member"}
DirectSubgroups(g) == {m \in Groups : Arc(g, m)}

\* Mutant: np-owners, who do not inherit permissions, need not be auditors.
UncheckedButNpOwners(g, checked) ==
    {u \in Controllers(g) : NameOf[u] \notin checked /\ edges[g][u] # "np-owner"}

\* The controllers that assert_controllers_are_auditors looks at in a group.
Unchecked(g, checked) == {u \in Controllers(g) : NameOf[u] \notin checked}

\* One turn of the loop of assert_controllers_are_auditors takes a group g from
\* the queue, in any order, of which the code's is one.  Names of users and of
\* groups end in one set of names checked; a run that raises is no more.
Visit(w, g) ==
    LET others == w.queue \ {g}
        now == w.checked \union {NameOf[g]}
        users == Unchecked(g, now)
    IN  IF NameOf[g] \in w.checked THEN {[w EXCEPT !.queue = others]}
        ELSE IF \E u \in users : ~UserIsAuditor(u) THEN {}
        ELSE {[queue |-> others \union DirectSubgroups(g),
               checked |-> now \union {NameOf[u] : u \in users}]}

Turn(w) == IF w.queue = {} THEN {w} ELSE UNION {Visit(w, g) : g \in w.queue}

Walks == [queue : SUBSET Groups, checked : SUBSET {NameOf[x] : x \in Members}]

\* A group is looked into once, and enters the queue once for each group above
\* it, so that every run has ended after so many turns.
MaxTurns == 1 + Cardinality(Groups) * Cardinality(Groups)

Runs(g) ==
    LET turns == [W \in SUBSET Walks |-> UNION {Turn(w) : w \in W}]
    IN  Iterated(turns, {[queue |-> {g}, checked |-> {}]}, MaxTurns)

\* Some run of it accepts g.
AssertControllersAreAuditors(g) == \E w \in Runs(g) : w.queue = {}

\* Mutant: only grants to the group itself make it audited.
AssertCanJoinDirectly(g, m, role) ==
    \/ m \in Users /\ role = "member"
    \/ GrantsOf(g) \cap audited = {}
    \/ m \in Users /\ UserIsAuditor(m)
    \/ m \in Groups \cap enabled /\ AssertControllersAreAuditors(m)

\* assert_can_join; a disabled group has no details to look at, and fails.
AssertCanJoin(g, m, role) ==
    \/ m \in Users /\ role = "member"
    \/ ~GroupAudited(g)
    \/ m \in Users /\ UserIsAuditor(m)
    \/ m \in Groups \cap enabled /\ AssertControllersAreAuditors(m)

\* Mutant: promote_nonauditors with directly_audited=True.
NonauditorApproversDirectly ==
    {u \in Users : /\ ~UserIsAuditor(u)
                   /\ \E g \in DirectlyAudited :
                         Arc(g, u) /\ edges[g][u] \in ApproverRoles}

\* The approvers that promote_nonauditors finds.  A user further down has the
\* role of the group it is in, which is "member".
NonauditorApprovers ==
    {u \in Users : /\ ~UserIsAuditor(u)
                   /\ \E g \in AuditedGroups :
                         Arc(g, u) /\ edges[g][u] \in ApproverRoles}

=============================================================================
