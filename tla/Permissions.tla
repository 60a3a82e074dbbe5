---------------------------- MODULE Permissions ----------------------------
(***************************************************************************)
(* Permissions, the grants of them to groups and to service accounts, and  *)
(* the requests for grants.  A handler reads what it needs in one action,  *)
(* whose guards are the early returns of the code, and leaves in txn the   *)
(* commits it still has to make, or what it has to read before; a process  *)
(* may die between two of them.                                            *)
(* The legacy handlers ask the database who may grant what, the usecases   *)
(* ask the permission graph of their process, which lags behind.           *)
(***************************************************************************)
EXTENDS Integers, Sequences

CONSTANTS
    Users, Groups, Services,
    Permissions, Arguments,
    Procs,             \* front-end workers and grouper-ctl invocations
    SystemPermissions, \* those of SYSTEM_PERMISSIONS
    PermissionAdmins,  \* users holding grouper.permission.admin
    UserAdmins,        \* users holding grouper.user.admin
    AuditManagers,     \* users holding grouper.permission.audit.manager
    Creators,          \* users whose grouper.permission.create covers a name
    MayGrant,          \* [Users \union Services -> pairs their grants of
                       \* grouper.permission.grant or .admin cover]
    UsecaseActors,     \* who calls the usecase GrantPermissionToGroup: the
                       \* factory offers it, no handler here uses it
    Member, Owner,     \* [Groups -> SUBSET Users], who belongs, who owns
    OwnerOf,           \* [Services -> Groups], the group owning the account
    Controlled,        \* groups that assert_controllers_are_auditors accepts
    Closable,          \* bound: groups and accounts that get disabled
    MaxRequests        \* bound: requests filed

Pairs == Permissions \X Arguments
Grantees == Groups \union Services

ASSUME PermissionsAssumption ==
    /\ Groups \cap Services = {} /\ Users \cap Services = {}
    /\ SystemPermissions \subseteq Permissions
    /\ PermissionAdmins \subseteq Users /\ AuditManagers \subseteq Users
    /\ UserAdmins \subseteq Users
    /\ Creators \subseteq Users
    /\ MayGrant \in [Users \union Services -> SUBSET Pairs]
    /\ \A u \in PermissionAdmins : MayGrant[u] = Pairs
    /\ UsecaseActors \subseteq Users \union Services
    /\ Member \in [Groups -> SUBSET Users] /\ Owner \in [Groups -> SUBSET Users]
    /\ \A g \in Groups : Owner[g] \subseteq Member[g]
    /\ OwnerOf \in [Services -> Groups]
    /\ Controlled \subseteq Groups
    /\ Closable \subseteq Grantees
    /\ MaxRequests \in Nat

VARIABLES
    permission,     \* [Permissions -> {"absent", "enabled", "disabled"}]
    audited,        \* permissions whose audited flag is set
    closed,         \* disabled groups and disabled service accounts
    groupGrants,    \* rows of permissions_map
    serviceGrants,  \* rows of service_account_permissions_map
    requests,       \* rows of permission_requests, by id
    graph,          \* [Procs -> Graph], the graph each process has cached
    txn             \* the commits each process still has to make

vars == <<permission, audited, closed, groupGrants, serviceGrants, requests,
          graph, txn>>
tables == <<permission, audited, closed, groupGrants, serviceGrants, requests>>

Grant == Groups \X Permissions \X Arguments
ServiceGrant == Services \X Permissions \X Arguments
Request == [group : Groups, permission : Permissions, argument : Arguments,
            status : {"pending", "actioned", "cancelled"}]
Graph == [listed : SUBSET Permissions, grants : SUBSET Grant]

Write == [op : {"create", "audit", "noaudit"}, permission : Permissions]
         \union [op : {"file"}, request : Request]
         \union [op : {"decide"}, id : Nat, status : {"actioned", "cancelled"}]
         \union [op : {"grant", "revoke"}, grant : Grant]
         \union [op : {"serve", "unserve"}, grant : ServiceGrant]
         \union [op : {"revokeGroups"}, permission : Permissions]
         \union [op : {"revokeServices"}, permission : Permissions,
                 grants : SUBSET Grant]
         \union [op : {"disable"}, permission : Permissions,
                 grants : SUBSET Grant, services : SUBSET ServiceGrant]

TypeOK ==
    /\ permission \in [Permissions -> {"absent", "enabled", "disabled"}]
    /\ audited \subseteq Permissions
    /\ closed \subseteq Grantees
    /\ groupGrants \subseteq Grant
    /\ serviceGrants \subseteq ServiceGrant
    /\ requests \in Seq(Request)
    /\ graph \in [Procs -> Graph]
    /\ txn \in [Procs -> Seq(Write)]

Init ==
    /\ permission = [p \in Permissions |-> IF p \in SystemPermissions
                                           THEN "enabled" ELSE "absent"]
    /\ audited = {}
    /\ closed = {}
    /\ groupGrants = {}
    /\ serviceGrants = {}
    /\ requests = << >>
    /\ graph = [p \in Procs |-> [listed |-> SystemPermissions, grants |-> {}]]
    /\ txn = [p \in Procs |-> << >>]

-----------------------------------------------------------------------------
(* What the handlers read.                                                 *)

\* get_all_permissions.
AllPermissions == {p \in Permissions : permission[p] = "enabled"}

\* user_grantable_permissions and filter_grantable_permissions, from the database.
Grantable(u) == {pa \in MayGrant[u] : pa[1] \in AllPermissions}

\* permissions_grantable_by_user and permissions_grantable_by_service_account,
\* from the graph.
GrantableByUser(proc, u) == {pa \in MayGrant[u] : pa[1] \in graph[proc].listed}
GrantableByService(proc, s) == {pa \in MayGrant[s] : pa[1] \in graph[proc].listed}

\* permissions_grantable.
GrantableByGraph(proc, actor) ==
    IF actor \in Services THEN GrantableByService(proc, actor)
    ELSE GrantableByUser(proc, actor)

\* permissions_grantable_to_service_account: what the actor may grant, and what
\* the owning group holds when the actor belongs to it.
GrantableTo(proc, actor, s) ==
    GrantableByGraph(proc, actor)
    \union {pa \in Pairs :
                /\ actor \in Users /\ actor \in Member[OwnerOf[s]]
                /\ <<OwnerOf[s], pa[1], pa[2]>> \in graph[proc].grants}

\* get_owners_by_grantable_permission and get_owner_arg_list: who may decide.
\* Only enabled permissions have owners.
OwnersOf(p, a) == {u \in Users : <<p, a>> \in Grantable(u)}

\* get_grantable_permissions: what the form for requests offers.
GrantablePermissions == {pa \in Pairs : OwnersOf(pa[1], pa[2]) # {}}

\* The pending requests that create_request counts.
PendingRequests(g, p, a) ==
    {i \in 1..Len(requests) : /\ requests[i].group = g
                              /\ requests[i].permission = p
                              /\ requests[i].argument = a
                              /\ requests[i].status = "pending"}

\* assert_controllers_are_auditors, asked about an audited permission.
AuditAllows(g, p) == p \in audited => g \in Controlled

\* group_grants_for_permission: the grants to enabled groups.  Both queries
\* find nothing for a disabled permission.
GroupGrantsForPermission(p) ==
    {x \in groupGrants : x[2] = p /\ x[1] \notin closed /\ p \in AllPermissions}

\* service_account_grants_for_permission: those to every account, contrary to
\* what DisablePermission says of disabled ones.
ServiceAccountGrantsForPermission(p) ==
    {x \in serviceGrants : x[2] = p /\ p \in AllPermissions}

-----------------------------------------------------------------------------
(* The handlers.                                                           *)

Idle(proc) == txn[proc] = << >>

Begin(proc, commits) ==
    /\ Idle(proc)
    /\ txn' = [txn EXCEPT ![proc] = commits]
    /\ UNCHANGED <<tables, graph>>

\* PermissionsCreate.post.
PermissionsCreate(proc, u, p) ==
    /\ u \in Creators
    /\ Begin(proc, << [op |-> "create", permission |-> p] >>)

\* Mutant: a pending request does not stand in the way of another one.
NotRequestedAlways(g, p, a) == <<g, p, a>> \notin groupGrants

\* The refusals of create_request about what the group holds or has asked for.
NotRequested(g, p, a) ==
    /\ permission[p] = "enabled" => <<g, p, a>> \notin groupGrants
    /\ PendingRequests(g, p, a) = {}

\* create_request, for a permission that somebody may grant.
CreateRequest(proc, g, p, a) ==
    /\ NotRequested(g, p, a)
    /\ OwnersOf(p, a) # {}
    /\ AuditAllows(g, p)
    /\ Len(requests) < MaxRequests
    /\ Begin(proc, << [op |-> "file",
                       request |-> [group |-> g, permission |-> p,
                                    argument |-> a, status |-> "pending"]] >>)

\* PermissionRequest.post: a member asks, in a form that offers what somebody
\* may grant.
PermissionRequest(proc, u, g, p, a) ==
    /\ u \in Member[g] /\ g \notin closed
    /\ p \in {pa[1] : pa \in GrantablePermissions}
    /\ CreateRequest(proc, g, p, a)

\* Mutant: the permission may have become audited since the request was filed.
ApprovableUnaudited(r, status) == TRUE

\* update_request asks for auditors again, in case of an approval only.
Approvable(r, status) ==
    status = "actioned" => AuditAllows(r.group, r.permission)

\* Mutant: any request of theirs is shown to the owners, decided or not.
DecidableAlways(u, r) == u \in OwnersOf(r.permission, r.argument)

\* get_requests with status="pending" and the owner: what the form lets through.
Decidable(u, r) ==
    /\ r.status = "pending"
    /\ u \in OwnersOf(r.permission, r.argument)

\* update_request: the status is committed first, the grant after it.
UpdateRequest(proc, i, status) ==
    /\ Approvable(requests[i], status)
    /\ LET r == requests[i]
           decision == << [op |-> "decide", id |-> i, status |-> status] >>
       IN  Begin(proc, IF status = "actioned"
                       THEN decision \o
                            << [op |-> "grant",
                                grant |-> <<r.group, r.permission, r.argument>>] >>
                       ELSE decision)

\* PermissionsRequestUpdate.post.
PermissionsRequestUpdate(proc, u, i, status) ==
    /\ i \in 1..Len(requests)
    /\ Decidable(u, requests[i])
    /\ UpdateRequest(proc, i, status)

\* PermissionsGrant.post.
PermissionsGrant(proc, u, g, p, a) ==
    /\ <<p, a>> \in Grantable(u)
    /\ AuditAllows(g, p)
    /\ Begin(proc, << [op |-> "grant", grant |-> <<g, p, a>>] >>)

\* PermissionsRevoke.post: by an owner of the group or whoever may grant.
PermissionsRevoke(proc, u, x) ==
    /\ x \in groupGrants
    /\ \/ u \in Owner[x[1]] /\ x[1] \notin closed
       \/ <<x[2], x[3]>> \in Grantable(u)
    /\ Begin(proc, << [op |-> "revoke", grant |-> x] >>)

\* GrantPermissionToGroup, whose only look at the permission is in the graph.
GrantPermissionToGroup(proc, actor, g, p, a) ==
    /\ actor \in UsecaseActors
    /\ <<g, p, a>> \notin graph[proc].grants
    /\ <<p, a>> \in GrantableByGraph(proc, actor)
    /\ Begin(proc, << [op |-> "grant", grant |-> <<g, p, a>>] >>)

\* grant_permission_to_service_account of the usecase.
GrantPermissionToServiceAccount(proc, actor, s, p, a) ==
    /\ s \notin closed
    /\ <<p, a>> \in GrantableTo(proc, actor, s)
    /\ Begin(proc, << [op |-> "serve", grant |-> <<s, p, a>>] >>)

\* ServiceAccountPermissionGrant.post: its user is not a service account.
ServiceAccountPermissionGrant(proc, u, s, p, a) ==
    u \in Users /\ GrantPermissionToServiceAccount(proc, u, s, p, a)

\* can_manage_service_account.
CanManage(u, s) ==
    \/ u \in UserAdmins
    \/ u \in Member[OwnerOf[s]] /\ OwnerOf[s] \notin closed

\* ServiceAccountPermissionRevoke.post: the account of the URL is checked, the
\* grant is looked up by its own id.
ServiceAccountPermissionRevoke(proc, u, s, x) ==
    /\ CanManage(u, s)
    /\ x \in serviceGrants
    /\ Begin(proc, << [op |-> "unserve", grant |-> x] >>)

\* Mutant: only what enabled groups hold is revoked.
RevokedOfEnabledGroups(p) == {x \in groupGrants : x[2] = p /\ x[1] \notin closed}

\* revoke_all_group_grants: disabled groups lose the permission too.
RevokedGroupGrants(p) == {x \in groupGrants : x[2] = p}

\* Mutant: the accounts' grants are looked up before the groups' are deleted.
RevokedServiceGrantsFirst(p, left) ==
    {x \in serviceGrants : \E y \in groupGrants : y[2] = p}

\* revoke_all_service_account_grants, after the groups' rows are gone.  Its
\* filter names permissions_map, so that it yields every grant of every account
\* as long as one group row of the permission is left.
RevokedServiceGrants(p, left) ==
    {x \in serviceGrants : \E y \in left : y[2] = p}

Continue(proc, write) ==
    /\ txn' = [txn EXCEPT ![proc] = << write >>]
    /\ UNCHANGED <<tables, graph>>

RevokeAllGroupGrants(proc) ==
    /\ ~Idle(proc)
    /\ LET w == Head(txn[proc])
       IN  /\ w.op = "revokeGroups"
           /\ Continue(proc, [op |-> "revokeServices", permission |-> w.permission,
                              grants |-> RevokedGroupGrants(w.permission)])

\* Its query sees the rows of other processes, and its own deletions.
RevokeAllServiceAccountGrants(proc) ==
    /\ ~Idle(proc)
    /\ LET w == Head(txn[proc])
       IN  /\ w.op = "revokeServices"
           /\ Continue(proc, [op |-> "disable", permission |-> w.permission,
                              grants |-> w.grants,
                              services |-> RevokedServiceGrants(w.permission,
                                                                groupGrants \ w.grants)])

\* The usecase DisablePermission, up to disable_permission_and_revoke_grants:
\* two deletions, one after the other, and one commit.
DisablePermission(proc, u, p) ==
    /\ p \notin SystemPermissions
    /\ permission[p] # "absent"
    /\ u \in PermissionAdmins
    /\ GroupGrantsForPermission(p) = {}
    /\ ServiceAccountGrantsForPermission(p) = {}
    /\ Begin(proc, << [op |-> "revokeGroups", permission |-> p] >>)

\* PermissionDisable.post, from the form; PermissionCommand.run, by anybody the
\* shell lets in as the administrator.
PermissionDisable(proc, u, p) == DisablePermission(proc, u, p)
CtlDisablePermission(proc, p) == \E u \in PermissionAdmins : DisablePermission(proc, u, p)

\* PermissionEnableAuditing.post and PermissionDisableAuditing.post.  A flag that
\* is loaded as it is to be is not written.
ChangeAuditing(proc, u, p, op) ==
    /\ u \in PermissionAdmins \union AuditManagers
    /\ permission[p] # "absent"
    /\ op = "audit" <=> p \notin audited
    /\ Begin(proc, << [op |-> op, permission |-> p] >>)

-----------------------------------------------------------------------------
(* The commits.                                                            *)

CommitCreate(w) ==
    /\ permission' = [permission EXCEPT ![w.permission] =
                         IF @ = "absent" THEN "enabled" ELSE @]
    /\ UNCHANGED <<audited, closed, groupGrants, serviceGrants, requests>>

CommitAuditing(w) ==
    /\ audited' = IF w.op = "audit" THEN audited \union {w.permission}
                  ELSE audited \ {w.permission}
    /\ UNCHANGED <<permission, closed, groupGrants, serviceGrants, requests>>

\* The status and its change are committed by the notification's send_email.
CommitFile(w) ==
    /\ requests' = Append(requests, w.request)
    /\ UNCHANGED <<permission, audited, closed, groupGrants, serviceGrants>>

CommitDecide(w) ==
    /\ requests' = [requests EXCEPT ![w.id].status = w.status]
    /\ UNCHANGED <<permission, audited, closed, groupGrants, serviceGrants>>

\* grant_permission: a second row violates the unique index and is rolled back.
CommitGrant(w) ==
    /\ groupGrants' = IF w.op = "grant" THEN groupGrants \union {w.grant}
                      ELSE groupGrants \ {w.grant}
    /\ UNCHANGED <<permission, audited, closed, serviceGrants, requests>>

\* The repository looks at the account again before it inserts the row.
CommitServe(w) ==
    /\ serviceGrants' =
           IF w.op = "unserve" THEN serviceGrants \ {w.grant}
           ELSE IF w.grant[1] \in closed THEN serviceGrants
           ELSE serviceGrants \union {w.grant}
    /\ UNCHANGED <<permission, audited, closed, groupGrants, requests>>

CommitDisable(w) ==
    /\ permission' = [permission EXCEPT ![w.permission] = "disabled"]
    /\ groupGrants' = groupGrants \ w.grants
    /\ serviceGrants' = serviceGrants \ w.services
    /\ UNCHANGED <<audited, closed, requests>>

Commit(proc) ==
    /\ ~Idle(proc)
    /\ txn' = [txn EXCEPT ![proc] = Tail(@)]
    /\ UNCHANGED graph
    /\ LET w == Head(txn[proc])
       IN  \/ w.op = "create" /\ CommitCreate(w)
           \/ w.op \in {"audit", "noaudit"} /\ CommitAuditing(w)
           \/ w.op = "file" /\ CommitFile(w)
           \/ w.op = "decide" /\ CommitDecide(w)
           \/ w.op \in {"grant", "revoke"} /\ CommitGrant(w)
           \/ w.op \in {"serve", "unserve"} /\ CommitServe(w)
           \/ w.op = "disable" /\ CommitDisable(w)

\* The process dies and its supervisor starts it again.
Crash(proc) ==
    /\ ~Idle(proc)
    /\ txn' = [txn EXCEPT ![proc] = << >>]
    /\ UNCHANGED <<tables, graph>>

\* GroupGraph.update_from_db: groups that are disabled hold nothing in it.
UpdateFromDb(proc) ==
    /\ Idle(proc)
    /\ graph' = [graph EXCEPT ![proc] =
                    [listed |-> AllPermissions,
                     grants |-> {x \in groupGrants : x[1] \notin closed}]]
    /\ UNCHANGED <<tables, txn>>

\* Group.disable and disable_user: the grants stay, to be found again by
\* Group.enable and enable_user.  disable_service_account, which deletes the
\* owner and the grants, is in ServiceAccounts.
Toggle(x) ==
    /\ x \in Closable
    /\ closed' = IF x \in closed THEN closed \ {x} ELSE closed \union {x}
    /\ UNCHANGED <<permission, audited, groupGrants, serviceGrants, requests,
                   graph, txn>>

Handle(proc) ==
    \/ \E u \in Users, p \in Permissions :
          \/ PermissionsCreate(proc, u, p)
          \/ PermissionDisable(proc, u, p)
          \/ CtlDisablePermission(proc, p)
          \/ \E op \in {"audit", "noaudit"} : ChangeAuditing(proc, u, p, op)
    \/ \E u \in Users, g \in Groups, p \in Permissions, a \in Arguments :
          \/ PermissionRequest(proc, u, g, p, a)
          \/ PermissionsGrant(proc, u, g, p, a)
    \/ \E u \in Users, i \in 1..MaxRequests, status \in {"actioned", "cancelled"} :
          PermissionsRequestUpdate(proc, u, i, status)
    \/ \E u \in Users, x \in groupGrants : PermissionsRevoke(proc, u, x)
    \/ \E u \in Users, s \in Services, x \in serviceGrants :
          ServiceAccountPermissionRevoke(proc, u, s, x)
    \/ \E actor \in Users \union Services, p \in Permissions, a \in Arguments :
          \/ \E g \in Groups : GrantPermissionToGroup(proc, actor, g, p, a)
          \/ \E s \in Services : ServiceAccountPermissionGrant(proc, actor, s, p, a)

Next ==
    \/ \E proc \in Procs :
          \/ Handle(proc)
          \/ RevokeAllGroupGrants(proc) \/ RevokeAllServiceAccountGrants(proc)
          \/ Commit(proc) \/ Crash(proc) \/ UpdateFromDb(proc)
    \/ \E x \in Closable : Toggle(x)

Spec == Init /\ [][Next]_vars

-----------------------------------------------------------------------------
(* Properties.                                                             *)

\* create_request counts the pending requests first: a group never has two
\* pending requests for one permission and argument (RequestAlreadyExists).
OnePendingPermissionRequest ==
    \A g \in Groups, p \in Permissions, a \in Arguments :
        \A i, j \in PendingRequests(g, p, a) : i = j

\* A request is decided once: approved or cancelled, it keeps its status for
\* ever, so that a cancelled request can never be granted by its approver.
DecidedRequestsStay ==
    [][\A i \in 1..Len(requests) :
          requests[i].status # "pending" => requests'[i] = requests[i]]_vars

\* A request filed before its permission became audited is checked again when
\* it is approved: no approval gives an audited permission to a group whose
\* controllers are not auditors (update_request).
ApprovalsRecheckAuditing ==
    [][\A i \in 1..Len(requests) :
          /\ requests[i].status = "pending"
          /\ requests'[i].status = "actioned"
          /\ requests[i].permission \in audited
          => requests[i].group \in Controlled]_vars

\* The commit that disables a permission leaves no grant of it behind, neither
\* to a disabled group or account, where the check that refuses to disable a
\* granted permission does not look or looks too far, nor to anyone else.
DisablingRevokesAll ==
    [][\A p \in Permissions :
          permission[p] = "enabled" /\ permission'[p] = "disabled"
          => \A x \in groupGrants' \union serviceGrants' : x[2] # p]_vars

\* Disabling a permission takes nothing away but grants of that permission,
\* although the query for the accounts' grants is not restricted to it: it only
\* yields nothing because the groups' rows are deleted before it is made.
DisablingSparesOthers ==
    [][\A p \in Permissions :
          permission[p] = "enabled" /\ permission'[p] = "disabled"
          => \A x \in groupGrants \union serviceGrants :
                x[2] # p => x \in groupGrants' \union serviceGrants']_vars

\* services/permission.py: "An invariant for permissions is that disabled
\* permissions are not granted to anyone."
DisabledPermissionsNotGranted ==
    \A x \in groupGrants \union serviceGrants : permission[x[2]] # "disabled"

=============================================================================
