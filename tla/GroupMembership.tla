-------------------------- MODULE GroupMembership --------------------------
(***************************************************************************)
(* Group memberships (table group_edges) and requests to join (table       *)
(* requests), changed by the front-end handlers, the command line and the  *)
(* expiry task.  A handler reads what it needs first (one action, whose    *)
(* guards are the early returns of the code) and leaves in txn the commits *)
(* it still has to make: persisting a change commits in the middle of      *)
(* GroupEdge.apply_changes whenever an expiration notice is cancelled or   *)
(* scheduled, so the row of one membership is written in up to three       *)
(* commits, with the other processes running in between.  The commits in   *)
(* between that write notices and nothing of the row are steps of Notices, *)
(* where these variables stay as they are.                                 *)
(***************************************************************************)
EXTENDS Integers, Sequences

CONSTANTS
    Users, Groups,    \* accounts and groups; a member of a group is either
    Procs,            \* front-end workers and grouper-ctl invocations
    GroupAdmins,      \* users holding the group administration permission
    CanJoin,          \* Group.canjoin of every group
    AutoExpire,       \* Group.auto_expire in days, 0 for none
    AuditRefusals,    \* <<group, member, role>> that assert_can_join refuses
    OwnershipPolicy,  \* whether the group ownership policy plugin is loaded
    FormRoles,        \* roles the forms are submitted with
    FormDates,        \* expiration dates the forms are submitted with
    MaxDay,           \* bound: last day of the calendar
    MaxRequests       \* bound: requests filed as pending

Members == Users \union Groups
Roles == {"member", "manager", "owner", "np-owner"}
OwnerRoles == {"owner", "np-owner"}
ApproverRoles == {"manager", "owner", "np-owner"}

\* Days are numbered from 1; 0 stands for an edge that never expires.
Forever == 0

ASSUME MembershipAssumption ==
    /\ Users \cap Groups = {}
    /\ GroupAdmins \subseteq Users
    /\ CanJoin \in [Groups -> {"canjoin", "canask", "nobody"}]
    /\ AutoExpire \in [Groups -> Nat]
    /\ AuditRefusals \subseteq Groups \X Members \X Roles
    /\ \A r \in AuditRefusals : r[2] \in Users => r[3] # "member"
    /\ OwnershipPolicy \in BOOLEAN
    /\ FormRoles \subseteq Roles
    /\ FormDates \subseteq Nat
    /\ MaxDay \in Nat /\ MaxRequests \in Nat

VARIABLES
    groupStatus,  \* [Groups -> {"absent", "enabled", "disabled"}]
    userEnabled,  \* [Users -> BOOLEAN]
    edges,        \* the group_edges row of each group and member
    requests,     \* the requests filed as pending, by id
    now,          \* the current day
    txn,          \* the commits each process still has to make
    expiring      \* edges the expiry task loaded and has not handled yet

vars == <<groupStatus, userEnabled, edges, requests, now, txn, expiring>>

Edge == [row : BOOLEAN, active : BOOLEAN, role : Roles, expiration : Nat]
Columns == {"role", "expiration", "active"}
Changes == [keys : SUBSET Columns, role : Roles, expiration : Nat,
            active : BOOLEAN]
Status == {"pending", "actioned", "cancelled"}
Request == [group : Groups, member : Members, status : Status,
            changes : Changes]

EdgeWrite == [op : {"edge"}, group : Groups, member : Members,
              insert : BOOLEAN, role : Roles, changes : Changes,
              request : Nat, status : {"none", "actioned", "cancelled"}]
FileWrite == [op : {"file"}, group : Groups, member : Members,
              insert : BOOLEAN, role : Roles, changes : Changes,
              status : {"pending"}]
CreateWrite == [op : {"create"}, group : Groups, member : Users, role : Roles]
GroupWrite == [op : {"group"}, group : Groups, to : {"enabled", "disabled"}]
UserWrite == [op : {"user"}, user : Users, to : BOOLEAN]
Write == EdgeWrite \union FileWrite \union CreateWrite \union GroupWrite
         \union UserWrite

TypeOK ==
    /\ groupStatus \in [Groups -> {"absent", "enabled", "disabled"}]
    /\ userEnabled \in [Users -> BOOLEAN]
    /\ edges \in [Groups -> [Members -> Edge]]
    /\ requests \in Seq(Request)
    /\ now \in Nat
    /\ txn \in [Procs -> Seq(Write)]
    /\ expiring \subseteq Groups \X Members

NoEdge == [row |-> FALSE, active |-> FALSE, role |-> "member",
           expiration |-> Forever]

Init ==
    /\ groupStatus = [g \in Groups |-> "absent"]
    /\ userEnabled = [u \in Users |-> TRUE]
    /\ edges = [g \in Groups |-> [m \in Members |-> NoEdge]]
    /\ requests = << >>
    /\ now = 1
    /\ txn = [p \in Procs |-> << >>]
    /\ expiring = {}

-----------------------------------------------------------------------------
(* What the handlers read.                                                 *)

Enabled(m) == IF m \in Users THEN userEnabled[m]
              ELSE groupStatus[m] = "enabled"

Unexpired(e) == e.expiration = Forever \/ e.expiration > now

\* Group.my_members: active, unexpired edges of enabled members.
IsMember(g, m) ==
    /\ groupStatus[g] = "enabled"
    /\ Enabled(m)
    /\ edges[g][m].row /\ edges[g][m].active
    /\ Unexpired(edges[g][m])

\* user_role: a group administrator acts as an owner of every group.
UserRole(u, g) == IF u \in GroupAdmins THEN "owner"
                  ELSE IF IsMember(g, u) THEN edges[g][u].role
                  ELSE "none"

Manages(u, g) == userEnabled[u] /\ UserRole(u, g) \in ApproverRoles

\* Group.my_expiring_groups: the groups g is about to drop out of.
ExpiringSupergroups(g) ==
    {s \in Groups : /\ IsMember(s, g)
                    /\ edges[s][g].expiration # Forever}

\* Who the group ownership policy counts, in a disabled group too.
PermanentOwners(g) ==
    {u \in Users : /\ edges[g][u].row /\ edges[g][u].active
                   /\ edges[g][u].role \in OwnerRoles
                   /\ edges[g][u].expiration = Forever
                   /\ userEnabled[u]}

IsLastPermanentOwner(g, m) == PermanentOwners(g) = {m}

\* Mutant: an expiration given to the last permanent owner is overlooked.
PolicyOverlooksExpiration(g, m, updates) ==
    /\ OwnershipPolicy
    /\ m \in Users
    /\ \/ "role" \in updates.keys /\ updates.role \notin OwnerRoles
       \/ "active" \in updates.keys /\ ~updates.active
    /\ IsLastPermanentOwner(g, m)

\* Mutant: demoting the last permanent owner is overlooked.
PolicyOverlooksRole(g, m, updates) ==
    /\ OwnershipPolicy
    /\ m \in Users
    /\ \/ "expiration" \in updates.keys /\ updates.expiration # Forever
       \/ "active" \in updates.keys /\ ~updates.active
    /\ IsLastPermanentOwner(g, m)

\* will_update_group_membership, asked by persist_group_member_changes and not
\* by Request.update_status.
PolicyRejects(g, m, updates) ==
    /\ OwnershipPolicy
    /\ m \in Users
    /\ \/ "role" \in updates.keys /\ updates.role \notin OwnerRoles
       \/ "expiration" \in updates.keys /\ updates.expiration # Forever
       \/ "active" \in updates.keys /\ ~updates.active
    /\ IsLastPermanentOwner(g, m)

\* The query for u's groups joins nothing: once u owns a group for good, every
\* enabled group is looked at.
PolicyRejectsDisabling(u) ==
    /\ OwnershipPolicy
    /\ \E g \in Groups : groupStatus[g] = "enabled" /\ IsLastPermanentOwner(g, u)

\* assert_can_join, decided by the process's cached permission graph.
MayJoin(g, m, role) == <<g, m, role>> \notin AuditRefusals

PendingFor(g, m) ==
    {i \in 1..Len(requests) : /\ requests[i].group = g
                              /\ requests[i].member = m
                              /\ requests[i].status = "pending"}

-----------------------------------------------------------------------------
(* Persisting a membership change.                                         *)

\* GroupEdge.get_or_create for a missing row; _create_edge gives it the role.
NewEdge(role) == [row |-> TRUE, active |-> FALSE, role |-> role,
                  expiration |-> Forever]

\* The columns whose value the change would alter.
Differing(e, changes) ==
    {k \in changes.keys : \/ k = "role" /\ e.role # changes.role
                          \/ k = "expiration" /\ e.expiration # changes.expiration
                          \/ k = "active" /\ e.active # changes.active}

\* The session commits after the role is set: the setter adjusts the owner's
\* notices (once for each group, of which the first commit takes the role along),
\* or the old expiration's notice is cancelled.
CommitsAfterRole(g, m, e, changes) ==
    \/ /\ m \in Users
       /\ "role" \in changes.keys
       /\ (e.role \in OwnerRoles) # (changes.role \in OwnerRoles)
       /\ ExpiringSupergroups(g) # {}
    \/ "expiration" \in changes.keys /\ e.expiration # Forever

\* Mutant: a commit follows a cleared expiration as well.
CommitsAfterAnyExpiration(changes) == "expiration" \in changes.keys

\* The session commits after the expiration is set: a notice is scheduled.
CommitsAfterExpiration(changes) ==
    /\ "expiration" \in changes.keys
    /\ changes.expiration # Forever
    /\ changes.expiration > now

\* Mutant: active is committed before the expiration.
SegmentsActiveFirst(cut1, cut2) ==
    IF cut1 /\ cut2 THEN << {"role"}, {"active"}, {"expiration"} >>
    ELSE IF cut1 THEN << {"role"}, {"expiration", "active"} >>
    ELSE IF cut2 THEN << {"role", "active"}, {"expiration"} >>
    ELSE << Columns >>

\* The columns that each commit of apply_changes takes along.
Segments(cut1, cut2) ==
    IF cut1 /\ cut2 THEN << {"role"}, {"expiration"}, {"active"} >>
    ELSE IF cut1 THEN << {"role"}, {"expiration", "active"} >>
    ELSE IF cut2 THEN << {"role", "expiration"}, {"active"} >>
    ELSE << Columns >>

\* The commits of one change that write its row.  The insertion and the request's
\* row go with the first, which updates what differs from the row as loaded; a
\* later one works on a reloaded row and leaves in it what the change says.
Commits(g, m, e, insert, changes, request, status) ==
    LET segments == Segments(CommitsAfterRole(g, m, e, changes),
                             CommitsAfterExpiration(changes))
    IN  [n \in DOMAIN segments |->
            [op |-> "edge", group |-> g, member |-> m,
             insert |-> insert /\ n = 1, role |-> e.role,
             changes |-> [changes EXCEPT !.keys = segments[n] \cap
                            IF n = 1 THEN Differing(e, changes) ELSE @],
             request |-> request, status |-> IF n = 1 THEN status ELSE "none"]]

Idle(p) == txn[p] = << >>

Begin(p, commits) ==
    /\ Idle(p)
    /\ txn' = [txn EXCEPT ![p] = commits]
    /\ UNCHANGED <<groupStatus, userEnabled, edges, requests, now, expiring>>

\* Mutant: the role of a member group is not looked at.
ValidateRoleNever(m, updates) == TRUE

\* _validate_role.
ValidateRole(m, updates) ==
    (m \in Groups /\ "role" \in updates.keys) => updates.role = "member"

\* persist_group_member_changes.  A request that is actioned as it is filed is
\* only a record of the change: no handler can touch it again, and it is left
\* out of requests.
PersistGroupMemberChanges(p, g, m, status, createEdge, updates) ==
    LET old == edges[g][m]
        e == IF old.row THEN old ELSE NewEdge(updates.role)
        changes == [updates EXCEPT !.keys = Differing(e, updates)]
    IN  /\ ValidateRole(m, updates)
        /\ ~PolicyRejects(g, m, updates)
        /\ old.row \/ createEdge
        /\ Begin(p, IF status = "actioned"
                    THEN Commits(g, m, e, ~old.row, changes, 0, "none")
                    ELSE << [op |-> "file", group |-> g, member |-> m,
                             insert |-> ~old.row, role |-> e.role,
                             changes |-> changes, status |-> status] >>)

\* Group.add_member, edit_member and revoke_member.
AddMember(p, g, m, status, expiration, role) ==
    PersistGroupMemberChanges(p, g, m, status, TRUE,
        [keys |-> Columns, role |-> role, expiration |-> expiration,
         active |-> TRUE])

EditMember(p, g, m, role, expiration) ==
    PersistGroupMemberChanges(p, g, m, "actioned", FALSE,
        [keys |-> {"role", "expiration"}, role |-> role,
         expiration |-> expiration, active |-> TRUE])

RevokeMember(p, g, m) ==
    PersistGroupMemberChanges(p, g, m, "actioned", TRUE,
        [keys |-> Columns, role |-> "member", expiration |-> Forever,
         active |-> FALSE])

-----------------------------------------------------------------------------
(* The handlers.                                                           *)

\* GroupsView.post: the creator joins as an owner, in the same transaction.
GroupCreate(p, u, g, role) ==
    /\ userEnabled[u]
    /\ groupStatus[g] = "absent"
    /\ role \in FormRoles \cap OwnerRoles
    /\ Begin(p, << [op |-> "create", group |-> g, member |-> u,
                    role |-> role] >>)

\* GROUP_JOIN_CHOICES: the status of a request to join as a plain member.
JoinChoices == [canjoin |-> "actioned", canask |-> "pending",
                nobody |-> "<integrityerror>"]

\* Mutant: a pending request does not stand in the way of another one.
InvolvedIfMember(g, u) == IsMember(g, u)

\* _is_user_a_member: a member, or somebody with a pending request.
Involved(g, u) == IsMember(g, u) \/ PendingFor(g, u) # {}

\* Mutant: a group that nobody can join is open to requests.
AlwaysJoinable(g) == TRUE

Joinable(g) == CanJoin[g] # "nobody"

\* GroupJoin.post: u asks to join g, or asks for a group it approves for.
GroupJoin(p, u, g, m, role, date) ==
    /\ userEnabled[u]
    /\ groupStatus[g] = "enabled"
    /\ \/ m = u /\ ~Involved(g, u)
       \/ /\ m \in Groups \ {g}
          /\ IsMember(m, u) /\ edges[m][u].role \in ApproverRoles
          /\ ~IsMember(g, m)
    /\ MayJoin(g, m, role)
    /\ Joinable(g)
    /\ Len(requests) < MaxRequests
    /\ LET expiration == IF date # Forever THEN date
                         ELSE IF AutoExpire[g] # 0 THEN now + AutoExpire[g]
                         ELSE Forever
           status == IF role = "member" THEN JoinChoices[CanJoin[g]]
                     ELSE "pending"
       IN  AddMember(p, g, m, status, expiration, role)

\* Mutant: a cancelled request may still be decided.
StatusChoicesReopened(status) ==
    IF status = "actioned" THEN {} ELSE {"actioned", "cancelled"}

\* REQUEST_STATUS_CHOICES: where a request can go from a status.
StatusChoices(status) ==
    IF status = "pending" THEN {"actioned", "cancelled"} ELSE {}

\* GroupRequestUpdate.post: an approver of the group in the path decides the
\* request whose id is in the path; Request.update_status applies its changes.
GroupRequestUpdate(p, u, g, i, status) ==
    /\ groupStatus[g] # "absent"
    /\ Manages(u, g)
    /\ i \in 1..Len(requests)
    /\ status \in StatusChoices(requests[i].status)
    /\ LET r == requests[i]
           e == edges[r.group][r.member]
           changes == IF status = "actioned" THEN r.changes
                      ELSE [r.changes EXCEPT !.keys = {}]
       IN  /\ status # "cancelled" => MayJoin(r.group, r.member, e.role)
           /\ Begin(p, Commits(r.group, r.member, e, FALSE, changes, i, status))

\* GroupAdd.post: only an owner may give a role other than member.
GroupAdd(p, u, g, m, role, date) ==
    /\ groupStatus[g] # "absent"
    /\ Manages(u, g)
    /\ role # "member" => UserRole(u, g) \in OwnerRoles
    /\ Enabled(m)
    /\ m # g /\ ~IsMember(g, m)
    /\ MayJoin(g, m, role)
    /\ AddMember(p, g, m, "actioned", date, role)

\* GroupEditMember.post; _get_form: a member cannot raise its own role.
GroupEditMember(p, u, g, m, role, date) ==
    /\ Manages(u, g)
    /\ IsMember(g, m)
    /\ \/ role = "member"
       \/ m \in Users /\ (m # u \/ UserRole(u, g) = "owner")
       \/ m = u /\ role = UserRole(u, g)
    /\ MayJoin(g, m, role)
    /\ EditMember(p, g, m, role, date)

\* GroupRemove.post.
GroupRemove(p, u, g, m) ==
    /\ Manages(u, g)
    /\ IsMember(g, m)
    /\ m # u
    /\ RevokeMember(p, g, m)

\* GroupLeave.post.  A group administrator may leave a group it is not in: the
\* edge is then created inactive.
GroupLeave(p, u, g) ==
    /\ groupStatus[g] # "absent"
    /\ userEnabled[u]
    /\ UserRole(u, g) # "none"
    /\ RevokeMember(p, g, u)

\* grouper-ctl group add_member and remove_member: nobody is asked.
CtlAddMember(p, g, u, role) ==
    /\ groupStatus[g] # "absent"
    /\ AddMember(p, g, u, "actioned", Forever, role)

CtlRemoveMember(p, g, u) ==
    /\ groupStatus[g] # "absent"
    /\ RevokeMember(p, g, u)

\* GroupDisable.post and GroupEnable.post.  my_members of a disabled group is
\* empty, so that only group administrators can enable one.  A flag that is loaded
\* as it is to be is not written.
GroupSetEnabled(p, u, g, to) ==
    /\ groupStatus[g] \notin {"absent", to}
    /\ userEnabled[u]
    /\ UserRole(u, g) \in OwnerRoles
    /\ Begin(p, << [op |-> "group", group |-> g, to |-> to] >>)

\* UserDisable.post and UserEnable.post (memberships preserved).  Who may do
\* it is decided by permissions, which are not modelled here.
UserDisable(p, u) ==
    /\ userEnabled[u]
    /\ ~PolicyRejectsDisabling(u)
    /\ Begin(p, << [op |-> "user", user |-> u, to |-> FALSE] >>)

UserEnable(p, u) ==
    /\ ~userEnabled[u]
    /\ Begin(p, << [op |-> "user", user |-> u, to |-> TRUE] >>)

-----------------------------------------------------------------------------
(* The commits.                                                            *)

ApplyChanges(e, changes) ==
    [e EXCEPT !.role = IF "role" \in changes.keys THEN changes.role ELSE @,
              !.expiration = IF "expiration" \in changes.keys
                             THEN changes.expiration ELSE @,
              !.active = IF "active" \in changes.keys
                         THEN changes.active ELSE @]

Current(p, op) == txn[p] # << >> /\ Head(txn[p]).op = op

Done(p) == txn' = [txn EXCEPT ![p] = Tail(@)]

\* The unique indexes group_member_idx and groups.groupname refuse a row that
\* was inserted since the handler looked.
Conflicts(w) ==
    \/ w.op \in {"edge", "file"} /\ w.insert /\ edges[w.group][w.member].row
    \/ w.op = "create" /\ groupStatus[w.group] # "absent"

CommitEdge(p) ==
    /\ Current(p, "edge")
    /\ LET w == Head(txn[p])
           e == IF w.insert THEN NewEdge(w.role) ELSE edges[w.group][w.member]
       IN  /\ ~Conflicts(w)
           /\ edges' = [edges EXCEPT ![w.group][w.member] =
                            ApplyChanges(e, w.changes)]
           /\ requests' = IF w.status = "none" THEN requests
                          ELSE [requests EXCEPT ![w.request].status = w.status]
    /\ Done(p)
    /\ UNCHANGED <<groupStatus, userEnabled, now, expiring>>

CommitFiledRequest(p) ==
    /\ Current(p, "file")
    /\ LET w == Head(txn[p])
       IN  /\ ~Conflicts(w)
           /\ edges' = IF w.insert
                       THEN [edges EXCEPT ![w.group][w.member] = NewEdge(w.role)]
                       ELSE edges
           /\ requests' = Append(requests,
                  [group |-> w.group, member |-> w.member,
                   status |-> w.status, changes |-> w.changes])
    /\ Done(p)
    /\ UNCHANGED <<groupStatus, userEnabled, now, expiring>>

CommitCreate(p) ==
    /\ Current(p, "create")
    /\ LET w == Head(txn[p])
       IN  /\ ~Conflicts(w)
           /\ groupStatus' = [groupStatus EXCEPT ![w.group] = "enabled"]
           /\ edges' = [edges EXCEPT ![w.group][w.member] =
                            [NewEdge(w.role) EXCEPT !.active = TRUE]]
    /\ Done(p)
    /\ UNCHANGED <<userEnabled, requests, now, expiring>>

CommitGroup(p) ==
    /\ Current(p, "group")
    /\ LET w == Head(txn[p])
       IN  groupStatus' = [groupStatus EXCEPT ![w.group] = w.to]
    /\ Done(p)
    /\ UNCHANGED <<userEnabled, edges, requests, now, expiring>>

CommitUser(p) ==
    /\ Current(p, "user")
    /\ LET w == Head(txn[p])
       IN  userEnabled' = [userEnabled EXCEPT ![w.user] = w.to]
    /\ Done(p)
    /\ UNCHANGED <<groupStatus, edges, requests, now, expiring>>

\* The process dies, its database connection drops, or the insertion is
\* refused: what was committed stays and the rest never happens.
Abort(p) ==
    /\ txn[p] # << >>
    /\ txn' = [txn EXCEPT ![p] = << >>]
    /\ UNCHANGED <<groupStatus, userEnabled, edges, requests, now, expiring>>

-----------------------------------------------------------------------------
(* The calendar and BackgroundProcessor.expire_edges.                      *)

Tick ==
    /\ now < MaxDay
    /\ now' = now + 1
    /\ UNCHANGED <<groupStatus, userEnabled, edges, requests, txn, expiring>>

ExpiredEdges ==
    {gm \in Groups \X Members :
        /\ groupStatus[gm[1]] = "enabled"
        /\ edges[gm[1]][gm[2]].row /\ edges[gm[1]][gm[2]].active
        /\ ~Unexpired(edges[gm[1]][gm[2]])}

LoadExpiredEdges ==
    /\ expiring = {}
    /\ expiring' = ExpiredEdges
    /\ UNCHANGED <<groupStatus, userEnabled, edges, requests, now, txn>>

\* my_owners of either group: whom the audit log names for a group's expiry.
HasOwner(g) == \E u \in Users : IsMember(g, u) /\ edges[g][u].role \in OwnerRoles

HasActor(g, m) == IF m \in Users THEN TRUE ELSE HasOwner(g) \/ HasOwner(m)

\* The audit log entry and the e-mail commit before active is cleared, on the
\* row loaded earlier; its expiration is not looked at again.
ExpireEdge(g, m) ==
    /\ <<g, m>> \in expiring
    /\ HasActor(g, m)
    /\ edges' = [edges EXCEPT ![g][m].active = FALSE]
    /\ expiring' = expiring \ {<<g, m>>}
    /\ UNCHANGED <<groupStatus, userEnabled, requests, now, txn>>

\* notify_edge_expiration raises and run() ends the process; a supervisor
\* restarts it.  It may also die of anything else between two edges.
ExpiryCrash ==
    /\ expiring # {}
    /\ expiring' = {}
    /\ UNCHANGED <<groupStatus, userEnabled, edges, requests, now, txn>>

-----------------------------------------------------------------------------
Handler(p) ==
    \E g \in Groups :
        \/ \E u \in Users :
            \/ \E role \in FormRoles : GroupCreate(p, u, g, role)
            \/ \E m \in Members, role \in FormRoles,
                  date \in FormDates \union {Forever} :
                \/ GroupJoin(p, u, g, m, role, date)
                \/ GroupAdd(p, u, g, m, role, date)
                \/ GroupEditMember(p, u, g, m, role, date)
            \/ \E m \in Members : GroupRemove(p, u, g, m)
            \/ \E i \in 1..Len(requests), status \in {"actioned", "cancelled"} :
                GroupRequestUpdate(p, u, g, i, status)
            \/ GroupLeave(p, u, g)
            \/ \E to \in {"enabled", "disabled"} : GroupSetEnabled(p, u, g, to)
            \/ \E role \in FormRoles : CtlAddMember(p, g, u, role)
            \/ CtlRemoveMember(p, g, u)

Commit(p) ==
    \/ CommitEdge(p)
    \/ CommitFiledRequest(p)
    \/ CommitCreate(p)
    \/ CommitGroup(p)
    \/ CommitUser(p)

Background ==
    \/ LoadExpiredEdges
    \/ \E g \in Groups, m \in Members : ExpireEdge(g, m)
    \/ ExpiryCrash

Next ==
    \/ \E p \in Procs :
        \/ Handler(p)
        \/ \E u \in Users : UserDisable(p, u) \/ UserEnable(p, u)
        \/ Commit(p)
        \/ Abort(p)
    \/ Background
    \/ Tick

Spec == Init /\ [][Next]_vars

-----------------------------------------------------------------------------
(* Properties.                                                             *)

\* A group is only ever a plain member of another group, and nobody has asked
\* for more: _validate_role runs before the request or the edge is written,
\* whichever handler filed it.
GroupsAreOnlyMembers ==
    /\ \A g, s \in Groups : edges[g][s].role = "member"
    /\ \A i \in 1..Len(requests) :
            requests[i].member \in Groups => requests[i].changes.role = "member"

\* A user has at most one request pending for a group: GroupJoin counts the
\* pending ones before it files another.  Only while no two processes work on the
\* same membership.
OnePendingRequest ==
    \A g \in Groups, u \in Users : \A i, j \in PendingFor(g, u) : i = j

\* A request that was actioned or cancelled keeps that status:
\* REQUEST_STATUS_CHOICES gives both no successor.
DecidedOnce ==
    [][\A i \in 1..Len(requests) : requests[i].status # "pending" =>
            requests'[i].status = requests[i].status]_vars

\* What an approval makes active has the expiration that its request holds, even
\* when the process dies between the commits of apply_changes: the expiration
\* is committed before the membership is.  A request holds none when the date that
\* was asked for was the date of the row already: _serialize_changes drops it.
\* What such an approval makes active keeps the date that the row has been given
\* since, which need not be the one asked for.
ApprovedWithItsExpiration ==
    [][\A p \in Procs :
        LET w == Head(txn[p])
            asked == requests[w.request].changes
        IN  (CommitEdge(p) /\ w.request # 0 /\ "active" \in w.changes.keys)
            => edges'[w.group][w.member].expiration =
                 IF "expiration" \in asked.keys THEN asked.expiration
                 ELSE edges[w.group][w.member].expiration]_vars

\* A removal that is cut short never leaves a membership that lasts longer
\* than before: clearing the expiration and clearing active are one commit.
RevocationNeverExtends ==
    [][\A g \in Groups, m \in Members :
        (/\ IsMember(g, m) /\ edges[g][m].expiration # Forever
         /\ edges'[g][m].active /\ edges'[g][m].expiration = Forever)
        => \E p \in Procs : CommitEdge(p) /\ Head(txn[p]).changes.active]_vars

LosesPermanentOwners(g) ==
    /\ groupStatus[g] = "enabled" /\ groupStatus'[g] = "enabled"
    /\ PermanentOwners(g) # {} /\ PermanentOwners(g)' = {}

Approving(p) == CommitEdge(p) /\ Head(txn[p]).request # 0

\* The change was begun on a member that was no owner.
Promoting(p) == CommitEdge(p) /\ Head(txn[p]).role \notin OwnerRoles

\* The expiry task's list has not gone stale: what happens when it has is the
\* question of OnlyExpiredEdgesExpire.
LoadedAreExpired == \A e \in expiring : ~Unexpired(edges[e[1]][e[2]])

\* With the ownership policy loaded, no handler that goes through
\* persist_group_member_changes or disable_user takes an enabled group's last
\* permanent owner away.  Who is made an owner until some day, in a group that is
\* to drop out of another, is one for good between the commits of apply_changes:
\* that ownership may end with the change that gave it.  Only while no two processes
\* work on the same group, and while the list of the expiry task is current.
PolicyKeepsAnOwner ==
    [][\A g \in Groups : LosesPermanentOwners(g) =>
            \E p \in Procs : Approving(p) \/ Promoting(p)]_vars

\* The expiry task deactivates an edge only once it has expired.
OnlyExpiredEdgesExpire ==
    [][\A g \in Groups, m \in Members :
            ExpireEdge(g, m) /\ edges[g][m].active =>
                ~Unexpired(edges[g][m])]_vars

=============================================================================
