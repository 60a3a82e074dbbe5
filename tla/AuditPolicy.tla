------------------------------ MODULE AuditPolicy ------------------------------
(***************************************************************************)
(* The changes of memberships and grants that the audit policy watches,    *)
(* made in handlers whose graph is up to date, and the task that repairs   *)
(* what those changes leave behind.                                        *)
(***************************************************************************)
EXTENDS PermissionGraph

CONSTANTS
    AuditorsGroup,    \* the group that settings.auditors_group names
    PossibleEdges,    \* bound: <<group, member, role>> that may come to be
    PossibleGrants,   \* bound: <<holder, permission>> that may come to be
    PossiblyDisabled  \* bound: accounts and groups that are ever disabled

ASSUME PolicyAssumption ==
    /\ AuditorsGroup \in Groups
    /\ PossibleEdges \subseteq Groups \X Members \X Roles
    /\ \A e \in PossibleEdges : e[2] \in Groups => e[3] = "member" /\ e[1] # e[2]
    /\ PossibleGrants \subseteq (Groups \union Services) \X Permissions
    /\ PossiblyDisabled \subseteq Members

TypeOK ==
    /\ enabled \subseteq Members
    /\ edges \in [Groups -> [Members -> Roles \union {"none"}]]
    /\ grants \subseteq (Groups \union Services) \X Permissions
    /\ audited \subseteq Permissions

\* Memberships of service accounts and role users are there from the start:
\* the forms do not offer them.  create_role_user makes a plain member.
Init ==
    /\ enabled = Members
    /\ \E kept \in SUBSET {e \in PossibleEdges :
             e[2] \in Services \/ (e[2] \in RoleUsers /\ e[3] = "member")} :
          /\ \A e, f \in kept : e[1] = f[1] /\ e[2] = f[2] => e = f
          /\ edges = [g \in Groups |-> [m \in Members |->
                IF \E e \in kept : e[1] = g /\ e[2] = m
                THEN (CHOOSE e \in kept : e[1] = g /\ e[2] = m)[3] ELSE "none"]]
    /\ grants = {}
    /\ audited = {}

RoleGroupOf(g, u) == u \in RoleUsers /\ NameOf[g] = NameOf[u]

\* GroupAdd, GroupJoin and an approved request: somebody who is not in g yet.
Join(g, m, role) ==
    /\ <<g, m, role>> \in PossibleEdges
    /\ m \notin Services \union RoleUsers
    /\ g \in enabled /\ edges[g][m] = "none"
    /\ m \in Users => m \in enabled
    /\ AssertCanJoin(g, m, role)
    /\ edges' = [edges EXCEPT ![g][m] = role]
    /\ UNCHANGED <<enabled, grants, audited>>

\* GroupEditMember.
EditMember(g, m, role) ==
    /\ <<g, m, role>> \in PossibleEdges
    /\ g \in enabled /\ m \in enabled /\ edges[g][m] \notin {"none", role}
    /\ AssertCanJoin(g, m, role)
    /\ edges' = [edges EXCEPT ![g][m] = role]
    /\ UNCHANGED <<enabled, grants, audited>>

\* GroupLeave, GroupRemove and the expiry of a membership.
Leave(g, m) ==
    /\ g \in enabled /\ edges[g][m] # "none"
    /\ edges' = [edges EXCEPT ![g][m] = "none"]
    /\ UNCHANGED <<enabled, grants, audited>>

\* disable_user: memberships and grants stay; disable_role_user disables the
\* group with it.
DisableUser(u) ==
    /\ u \in enabled
    /\ enabled' = enabled \ ({u} \union {g \in Groups : RoleGroupOf(g, u)})
    /\ UNCHANGED <<edges, grants, audited>>

\* enable_user, and then enable_role_user: without preserve_membership the
\* memberships in groups that are enabled are revoked.
EnableUser(u, preserve) ==
    /\ u \notin enabled
    /\ enabled' = enabled \union {u} \union {g \in Groups : RoleGroupOf(g, u)}
    /\ edges' = [g \in Groups |->
          IF g \in enabled /\ ~preserve THEN [edges[g] EXCEPT ![u] = "none"] ELSE edges[g]]
    /\ UNCHANGED <<grants, audited>>

\* GroupDisable and GroupEnable: members and grants stay.
ToggleGroup(g) ==
    /\ ~IsRoleUserGroup(g)
    /\ enabled' = IF g \in enabled THEN enabled \ {g} ELSE enabled \union {g}
    /\ UNCHANGED <<edges, grants, audited>>

\* PermissionsGrant: an audited permission needs auditors in control.
Grant(g, p) ==
    /\ <<g, p>> \in PossibleGrants \ grants
    /\ g \in Groups \cap enabled
    /\ p \in audited => AssertControllersAreAuditors(g)
    /\ grants' = grants \union {<<g, p>>}
    /\ UNCHANGED <<enabled, edges, audited>>

\* ServiceAccountPermissionGrant.
GrantToService(s, p) ==
    /\ <<s, p>> \in PossibleGrants \ grants
    /\ s \in Services \cap enabled
    /\ grants' = grants \union {<<s, p>>}
    /\ UNCHANGED <<enabled, edges, audited>>

\* PermissionsRevoke, ServiceAccountPermissionRevoke.
Revoke(x, p) ==
    /\ <<x, p>> \in grants
    /\ grants' = grants \ {<<x, p>>}
    /\ UNCHANGED <<enabled, edges, audited>>

\* PermissionEnableAuditing, PermissionDisableAuditing.
ToggleAudited(p) ==
    /\ p # Auditor
    /\ audited' = IF p \in audited THEN audited \ {p} ELSE audited \union {p}
    /\ UNCHANGED <<enabled, edges, grants>>

\* promote_nonauditors, one commit.  get_auditors_group fails without the grant
\* and the processor exits.
PromoteNonauditors ==
    /\ NonauditorApprovers # {} /\ <<AuditorsGroup, Auditor>> \in grants
    /\ edges' = [edges EXCEPT ![AuditorsGroup] =
          [m \in Members |-> IF m \in NonauditorApprovers THEN "member" ELSE @[m]]]
    /\ UNCHANGED <<enabled, grants, audited>>

Next ==
    \/ \E e \in PossibleEdges : \/ Join(e[1], e[2], e[3])
                                \/ EditMember(e[1], e[2], e[3])
                                \/ Leave(e[1], e[2])
    \/ \E u \in Users \cap PossiblyDisabled :
          \/ DisableUser(u)
          \/ \E preserve \in BOOLEAN : EnableUser(u, preserve)
    \/ \E g \in Groups \cap PossiblyDisabled : ToggleGroup(g)
    \/ \E x \in PossibleGrants : \/ Grant(x[1], x[2])
                                 \/ GrantToService(x[1], x[2])
                                 \/ Revoke(x[1], x[2])
    \/ \E p \in Permissions : ToggleAudited(p)
    \/ PromoteNonauditors

Spec == Init /\ [][Next]_db

-----------------------------------------------------------------------------
(* Properties.                                                             *)

Humans == Users \ (Services \union RoleUsers)

\* The two directions of the graph agree: an account that is told that it holds
\* a permission (GET /multi/users) is among those the permission is granted to
\* (GET /grants), and nobody else is; and whom /grants names, the lists of
\* accounts name as well.
GrantsMirrorUserDetails ==
    LET details == MultiUsers(Users)
        Told(u, p) == \E x \in details[u].permissions : x[2] = p
    IN  \A p \in Permissions :
          LET holders == GrantsOfPermission(p)
          IN  /\ \A u \in ListedUsers(FALSE) : Told(u, p) <=> u \in holders.users
              /\ \A s \in ListedServiceAccounts \ RoleUsers :
                    Told(s, p) <=> s \in holders.service_accounts
              /\ holders.users \union holders.role_users \subseteq AllUserMetadata

\* What SQL answers and what the graph answers is the same: the permission
\* checks of grouper-ctl and of the front end, the pages of users, groups and
\* permissions and the API.  The checks of the front end that look at direct
\* memberships only find nothing that the graph does not, but for np-owners,
\* whom they give the permissions of the group.
SqlMatchesGraph ==
    /\ \A u \in ListedUsers(FALSE) :
          /\ SqlUserGrants(u) = IndividualUserInfo(u).permissions
          /\ UserPage(u).groups \subseteq IndividualUserInfo(u).groups
          /\ \A x \in UserPermissions(u) :
                edges[x[1]][u] # "np-owner" => x \in UserGrants(u)
    /\ \A s \in Services : /\ SqlServiceGrants(s) = UserGrants(s)
                           /\ UserPage(s).permissions = UserGrants(s)
    /\ \A g \in Groups \cap enabled :
          LET page == GroupPage(g)
              details == GroupDetails(g)
          IN  /\ SqlGroupGrants(g) = details.permissions
              /\ {<<g, p>> : p \in page.my_permissions} \subseteq page.permissions
              /\ details.groups = (UNION {{x} \union Supergroups(x) : x \in page.groups}) \ {g}
              /\ details.users \ Services =
                    UNION {MyUsers(x) : x \in {g} \union details.subgroups}
    /\ \A p \in Permissions :
          /\ GroupGrantsForPermission(p) \subseteq PermissionDetails(p).groups
          /\ ServiceGrantsForPermission(p) \cap enabled =
                PermissionDetails(p).service_accounts
    /\ UsersView(TRUE, FALSE) = AllUserMetadata \ RoleUsers

\* Two walks through the groups find the same: down from the grants, for the
\* promotion, the page of audited groups and the page of a permission, and up
\* from a group, for its own page and for the joins of members.
AuditedMatchesDetails ==
    /\ AuditedGroups = {g \in Groups \cap enabled : GroupAudited(g)}
    /\ \A g \in GroupsView(TRUE, FALSE) \ GroupsView(TRUE, TRUE) : ~GroupAudited(g)
    /\ \A p \in Permissions :
          PermissionDetails(p).groups = {g \in Groups \cap enabled :
                                    \E x \in GroupPermissions(g) : x[2] = p}
    /\ AuditedGroups =
          UNION {PermissionDetails(p).groups : p \in ListPermissions(TRUE)}

\* assert_controllers_are_auditors accepts a group if and only if the people who
\* can control it and all subgroups below have the audit permission.
ControllersBelow(g) == UNION {Controllers(x) : x \in {g} \union Subgroups(g)}
AssertCoversSubgroups ==
    \A g \in Groups \cap enabled :
        AssertControllersAreAuditors(g) <=>
            \A u \in ControllersBelow(g) : UserIsAuditor(u)

\* All approvers of audited groups are auditors.
PolicyHolds(us) ==
    \A u \in us, g \in AuditedGroups :
        Arc(g, u) /\ edges[g][u] \in ApproverRoles => UserIsAuditor(u)

\* A join, or a new role, never breaks the policy in any group, except that a
\* member who becomes a np-owner stops to inherit, and may no longer be an
\* auditor elsewhere.
JoinsKeepPolicy ==
    [][\A e \in PossibleEdges :
          /\ e[3] # "np-owner"
          /\ Join(e[1], e[2], e[3]) \/ EditMember(e[1], e[2], e[3])
          /\ PolicyHolds(Users)
          => PolicyHolds(Users)']_db

\* Whatever grants, revocations and flags have done, one promotion makes the
\* policy hold for everybody who can become an auditor that way.
PromotionRestoresPolicy ==
    [][PromoteNonauditors /\ AuditorsGroup \in enabled
          => PolicyHolds(Users \ Services)']_db

=============================================================================
