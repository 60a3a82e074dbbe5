------------------------------- MODULE Accounts -------------------------------
(***************************************************************************)
(* Accounts: the users table, where a row is a user, a role user (a user   *)
(* with a group of the same name) or the account of a service account, the *)
(* groups that own service accounts, the conversion of users to service    *)
(* accounts, and the credentials of accounts.  A handler reads what it     *)
(* needs and checks its caller in one action and commits in another, with  *)
(* the other processes running in between; it may die before its commit.   *)
(* A role user, its group and its memberships are read by one query after  *)
(* the other, and a commit writes only the flags that differ from those    *)
(* that were loaded.  Several commits of one handler are one here where    *)
(* none but an audit log entry, a counter or a notice comes after the      *)
(* first.                                                                  *)
(***************************************************************************)
EXTENDS Integers, FiniteSets

CONSTANTS
    Accounts, Groups,
    Procs,          \* front-end workers and grouper-ctl invocations
    AccountProcs,   \* bound: those that get requests to change accounts
    Admins,         \* further users, never disabled here, holding
                    \* grouper.user.admin
    Delegates,      \* further users holding grouper.user.disable and .enable
                    \* for every account
    RoleUsers,      \* accounts with the role_user flag
    RoleGroup,      \* [RoleUsers -> Groups], the group of the same name
    NewServices,    \* names for new service accounts
    Joinable,       \* bound: <<group, account, role>> that membership changes
                    \* make and unmake
    Requestable,    \* bound: <<account, group>> of requests to join
    Rows,           \* <<table, account, key>> of the unique credentials:
                    \* public keys, passwords and metadata
    Tokens          \* <<account, name>> of the tokens

ASSUME AccountsAssumption ==
    /\ RoleUsers \subseteq Accounts /\ NewServices \subseteq Accounts \ RoleUsers
    /\ AccountProcs \subseteq Procs
    /\ (Admins \union Delegates) \cap Accounts = {}
    /\ RoleGroup \in [RoleUsers -> Groups]
    /\ \A r, s \in RoleUsers : RoleGroup[r] = RoleGroup[s] => r = s
    /\ Joinable \subseteq Groups \X Accounts \X {"member", "np-owner"}
    /\ Requestable \subseteq Accounts \X Groups
    /\ \A r \in RoleUsers : <<RoleGroup[r], r, "member">> \notin Joinable
    /\ \A r \in Rows : r[1] \in {"key", "password", "metadata"} /\ r[2] \in Accounts
    /\ \A t \in Tokens : t[1] \in Accounts

VARIABLES
    users,        \* [Accounts -> User], the rows of users
    enabledGroups,
    edges,        \* active memberships: rows of group_edges
    pending,      \* <<account, group>> with a pending request to join
    owners,       \* <<service account, group>>: rows of group_service_accounts
    granted,      \* service accounts that hold a permission
    credentials,  \* [Rows -> Nat], how often a row is in its table
    tokens,       \* [Tokens -> {"absent", "usable", "disabled"}]
    txn           \* what each process still has to read and to commit

tables == <<users, enabledGroups, edges, pending, owners, granted>>
vars == <<tables, credentials, tokens, txn>>

User == [row : BOOLEAN, enabled : BOOLEAN, services : Nat]
Nothing == [op |-> "none"]

Edges == Groups \X Accounts \X {"member", "np-owner"}

\* In write: whether the flag of the account differs from what it is set to.
Write == {Nothing}
    \union [op : {"create", "own"}, account : Accounts, groups : SUBSET Groups,
            items : SUBSET Rows]
    \union [op : {"loadGroup"}, account : Accounts, to : BOOLEAN,
            preserve : BOOLEAN, write : BOOLEAN]
    \union [op : {"loadMemberships", "disable", "disableService"},
            account : Accounts, write : BOOLEAN, groups : SUBSET Groups]
    \union [op : {"enable"}, account : Accounts, write : BOOLEAN,
            groups : SUBSET Groups, revoked : SUBSET Edges]
    \union [op : {"enableService"}, account : Accounts, write : BOOLEAN,
            group : Groups, revoked : SUBSET Edges]
    \union [op : {"grant"}, account : Accounts]
    \union [op : {"convert"}, account : Accounts, group : Groups,
            cancelled : SUBSET (Accounts \X Groups)]
    \union [op : {"group"}, group : Groups, to : BOOLEAN]
    \union [op : {"insert", "delete"}, credential : Rows]
    \union [op : {"addToken", "disableToken"}, token : Tokens]

TypeOK ==
    /\ users \in [Accounts -> User]
    /\ enabledGroups \subseteq Groups
    /\ edges \subseteq Edges
    /\ pending \subseteq Accounts \X Groups
    /\ owners \subseteq Accounts \X Groups
    /\ granted \subseteq Accounts
    /\ credentials \in [Rows -> Nat]
    /\ tokens \in [Tokens -> {"absent", "usable", "disabled"}]
    /\ txn \in [Procs -> Write]

\* Role users are deprecated: the front end has no page to create one.  Those
\* of old are members of their group, as create_role_user made them.
Init ==
    /\ users = [a \in Accounts |-> [row |-> a \notin NewServices,
                                    enabled |-> a \notin NewServices,
                                    services |-> 0]]
    /\ enabledGroups = Groups
    /\ edges = {<<RoleGroup[r], r, "member">> : r \in RoleUsers}
    /\ pending = {}
    /\ owners = {}
    /\ granted = {}
    /\ credentials = [r \in Rows |-> 0]
    /\ tokens = [t \in Tokens |-> "absent"]
    /\ txn = [p \in Procs |-> Nothing]

-----------------------------------------------------------------------------
(* What the handlers read.                                                 *)

\* A second service_accounts row for an account makes every query for it raise.
IsService(a) == users[a].services = 1
OwnersOf(s) == {g \in Groups : <<s, g>> \in owners}

\* Group.my_members, of an enabled group.
Members(g) == {a \in Accounts : /\ g \in enabledGroups /\ users[a].enabled
                                /\ \E role \in {"member", "np-owner"} :
                                       <<g, a, role>> \in edges}

\* my_owners_as_strings.
GroupOwners(g) == {a \in Members(g) : <<g, a, "np-owner">> \in edges}

Actors == Admins \union Delegates \union {a \in Accounts : users[a].enabled}

\* is_owner_of_role_user and can_manage_role_user: managers and owners alike.
IsOwnerOfRoleUser(actor, a) ==
    /\ a \in RoleUsers
    /\ actor = a \/ actor \in GroupOwners(RoleGroup[a]) \/ actor \in Admins

\* can_manage_service_account; an account with several owners makes it raise.
CanManageService(actor, a) ==
    /\ IsService(a)
    /\ \/ actor \in Admins
       \/ \E g \in Groups : OwnersOf(a) = {g} /\ actor \in Members(g)

\* check_access of the handlers that change an account's credentials.
ManagesCredentials(actor, a) ==
    actor = a \/ IsOwnerOfRoleUser(actor, a) \/ CanManageService(actor, a)

\* get_groups_by_user: the memberships in enabled groups.
GroupsByUser(a) == {e \in edges : e[2] = a /\ e[1] \in enabledGroups}

\* groups_of_user of the SQL repository, that grouper-ctl uses: nothing for
\* role users, service accounts and disabled users.
GroupsOfUser(a) ==
    IF a \in RoleUsers \/ users[a].services > 0 \/ ~users[a].enabled THEN {}
    ELSE {e[1] : e \in {x \in GroupsByUser(a) : x[3] # "np-owner"}}

\* UserToken.enabled, and the answer of the API server to a token with its
\* secret.
TokenEnabled(t) == tokens[t] = "usable" /\ users[t[1]].enabled
TokenValidate(t) == tokens[t] # "absent" /\ TokenEnabled(t)

\* pending_requests_for_user, whose query does not mention the user.
PendingRequestsForUser(a) == pending

-----------------------------------------------------------------------------
(* The handlers.                                                           *)

Begin(p, write) ==
    /\ txn[p] = Nothing
    /\ txn' = [txn EXCEPT ![p] = write]
    /\ UNCHANGED <<tables, credentials, tokens>>

Continue(p, write) ==
    /\ txn' = [txn EXCEPT ![p] = write]
    /\ UNCHANGED <<tables, credentials, tokens>>

MetadataOf(s) == {r \in Rows : r[1] = "metadata" /\ r[2] = s}

\* can_create_service_account and create_service_account, whose callers may
\* give items of initial metadata; no page does.
CreateServiceAccount(p, actor, s, g, items) ==
    /\ actor \in Admins \/ (actor \in Accounts /\ g \in GroupsOfUser(actor))
    /\ ~users[s].row
    /\ Begin(p, [op |-> "create", account |-> s, groups |-> {g}, items |-> items])

\* disable_user, or disable_role_user for a role user.
DisableUser(p, a) ==
    /\ users[a].row
    /\ Begin(p, IF a \in RoleUsers
                THEN [op |-> "loadGroup", account |-> a, to |-> FALSE,
                      preserve |-> TRUE, write |-> users[a].enabled]
                ELSE [op |-> "disable", account |-> a, write |-> users[a].enabled,
                      groups |-> {}])

\* enable_user, or enable_role_user for a role user.
EnableUser(p, a, preserve) ==
    /\ users[a].row
    /\ Begin(p, IF a \in RoleUsers
                THEN [op |-> "loadGroup", account |-> a, to |-> TRUE,
                      preserve |-> preserve, write |-> ~users[a].enabled]
                ELSE IF preserve
                THEN [op |-> "enable", account |-> a, write |-> ~users[a].enabled,
                      groups |-> {}, revoked |-> {}]
                ELSE [op |-> "loadMemberships", account |-> a,
                      write |-> ~users[a].enabled, groups |-> {}])

\* get_role_user: the group of the same name, whose flag is written unless it is
\* loaded as it is to be.
LoadGroup(p) ==
    /\ txn[p].op = "loadGroup"
    /\ LET w == txn[p]
           g == RoleGroup[w.account]
       IN  Continue(p,
              IF ~w.to
              THEN [op |-> "disable", account |-> w.account, write |-> w.write,
                    groups |-> {g} \cap enabledGroups]
              ELSE IF w.preserve
              THEN [op |-> "enable", account |-> w.account, write |-> w.write,
                    groups |-> {g} \ enabledGroups, revoked |-> {}]
              ELSE [op |-> "loadMemberships", account |-> w.account,
                    write |-> w.write, groups |-> {g} \ enabledGroups])

\* Mutant: the group of a role user is enabled before its memberships are read.
LoadAllMemberships(p) ==
    /\ txn[p].op = "loadMemberships"
    /\ LET w == txn[p]
       IN  Continue(p, [op |-> "enable", account |-> w.account, write |-> w.write,
                        groups |-> w.groups, revoked |-> {e \in edges : e[2] = w.account}])

\* enable_user, before enable_role_user enables the group: a role user stays a
\* member of its own group, which is disabled yet.
LoadMemberships(p) ==
    /\ txn[p].op = "loadMemberships"
    /\ LET w == txn[p]
       IN  Continue(p, [op |-> "enable", account |-> w.account, write |-> w.write,
                        groups |-> w.groups, revoked |-> GroupsByUser(w.account)])

\* UserDisable.post, for service accounts as well.
UserDisable(p, actor, a) ==
    /\ actor \in Admins \union Delegates \/ IsOwnerOfRoleUser(actor, a)
    /\ DisableUser(p, a)

\* UserEnable.post, for an account that is enabled as well.
UserEnable(p, actor, a, preserve) ==
    /\ \/ actor \in Admins \/ IsOwnerOfRoleUser(actor, a)
       \/ actor \in Delegates /\ ~preserve
    /\ EnableUser(p, a, preserve)

\* user_command: "disable" and "enable" look at the flag first.
CtlUser(p, a, preserve) ==
    \/ users[a].enabled /\ DisableUser(p, a)
    \/ ~users[a].enabled /\ EnableUser(p, a, preserve)

\* ServiceAccountDisable.post and disable_service_account, which raises for an
\* account without an owner.
ServiceAccountDisable(p, actor, s) ==
    /\ CanManageService(actor, s)
    /\ Cardinality(OwnersOf(s)) = 1
    /\ Begin(p, [op |-> "disableService", account |-> s, write |-> users[s].enabled,
                 groups |-> OwnersOf(s)])

\* Mutant: the owner that is there already does not matter.
ServiceAccountEnableAgain(p, actor, s, g) ==
    /\ actor \in Admins
    /\ IsService(s)
    /\ Begin(p, [op |-> "enableService", account |-> s, write |-> ~users[s].enabled,
                 group |-> g, revoked |-> GroupsByUser(s)])

\* ServiceAccountEnable.post and enable_service_account.  An owner that is
\* there already would lose its account, which the table refuses.
ServiceAccountEnable(p, actor, s, g) ==
    /\ actor \in Admins
    /\ IsService(s)
    /\ OwnersOf(s) = {}
    /\ Begin(p, [op |-> "enableService", account |-> s, write |-> ~users[s].enabled,
                 group |-> g, revoked |-> GroupsByUser(s)])

\* convert_user_to_service_account, of grouper-ctl: one transaction, rolled
\* back when there is a service_accounts row already.
ConvertUserToServiceAccount(p, actor, a, g) ==
    /\ actor \in Admins
    /\ users[a].row
    /\ GroupsOfUser(a) = {}
    /\ users[a].services = 0
    /\ Begin(p, [op |-> "convert", account |-> a, group |-> g,
                 cancelled |-> PendingRequestsForUser(a)])

\* GrantPermissionToServiceAccount (in Permissions), which looks the owner up.
GrantPermissionToServiceAccount(p, s) ==
    /\ users[s].enabled /\ IsService(s) /\ Cardinality(OwnersOf(s)) = 1
    /\ Begin(p, [op |-> "grant", account |-> s])

\* Mutant: the group of a role user can be disabled alone.
GroupSetEnabledAny(p, g, to) ==
    /\ to # (g \in enabledGroups)
    /\ Begin(p, [op |-> "group", group |-> g, to |-> to])

\* GroupDisable.post and GroupEnable.post, who refuse the group of a role user
\* and write nothing when the flag is loaded as it is to be.
GroupSetEnabled(p, g, to) ==
    /\ to # (g \in enabledGroups)
    /\ g \notin {RoleGroup[r] : r \in RoleUsers}
    /\ Begin(p, [op |-> "group", group |-> g, to |-> to])

\* PublicKeyAdd.post, UserPasswordAdd.post; UserMetadata.post and UserShell.post
\* when set_user_metadata finds no row to update.
AddCredential(p, actor, r) ==
    /\ ManagesCredentials(actor, r[2])
    /\ r[1] = "metadata" => credentials[r] = 0
    /\ Begin(p, [op |-> "insert", credential |-> r])

\* PublicKeyDelete.post and UserPasswordDelete.post; set_user_metadata without
\* a value, from grouper-ctl.
DeleteCredential(p, actor, r) ==
    /\ ManagesCredentials(actor, r[2]) \/ actor \in Admins
    /\ credentials[r] > 0
    /\ Begin(p, [op |-> "delete", credential |-> r])

\* UserTokenAdd.post.
UserTokenAdd(p, actor, t) ==
    /\ ManagesCredentials(actor, t[1])
    /\ Begin(p, [op |-> "addToken", token |-> t])

\* UserTokenDisable.post.
UserTokenDisable(p, actor, t) ==
    /\ ManagesCredentials(actor, t[1]) \/ actor \in Admins
    /\ tokens[t] # "absent"
    /\ Begin(p, [op |-> "disableToken", token |-> t])

-----------------------------------------------------------------------------
(* The commits.                                                            *)

NewService == [row |-> TRUE, enabled |-> TRUE, services |-> 1]

\* set_user_metadata commits: the first item takes the account along.
CommitItem(p) ==
    LET w == txn[p]
    IN  /\ w.op = "own" \/ (w.op = "create" /\ ~users[w.account].row)
        /\ \E r \in w.items :
              /\ credentials' = [credentials EXCEPT ![r] = IF @ = 0 THEN @ + 1 ELSE @]
              /\ txn' = [txn EXCEPT ![p] = [w EXCEPT !.op = "own", !.items = @ \ {r}]]
        /\ users' = IF w.op = "own" THEN users
                    ELSE [users EXCEPT ![w.account] = NewService]
        /\ UNCHANGED <<enabledGroups, edges, pending, owners, granted, tokens>>

\* A name that was taken in the meantime violates the unique index.
CommitCreate(w) ==
    /\ w.items = {} /\ ~users[w.account].row
    /\ users' = [users EXCEPT ![w.account] = NewService]
    /\ owners' = owners \union {<<w.account, g>> : g \in w.groups}
    /\ UNCHANGED <<enabledGroups, edges, pending, granted>>

\* The owner, once the initial metadata is there.
CommitOwn(w) ==
    /\ w.items = {}
    /\ owners' = owners \union {<<w.account, g>> : g \in w.groups}
    /\ UNCHANGED <<users, enabledGroups, edges, pending, granted>>

\* The flag of an account, which is written unless it was loaded as it is to be.
SetEnabled(w, to) ==
    users' = IF w.write THEN [users EXCEPT ![w.account].enabled = to] ELSE users

CommitDisable(w) ==
    /\ SetEnabled(w, FALSE)
    /\ enabledGroups' = enabledGroups \ w.groups
    /\ UNCHANGED <<edges, pending, owners, granted>>

CommitEnable(w) ==
    /\ SetEnabled(w, TRUE)
    /\ edges' = edges \ w.revoked
    /\ enabledGroups' = enabledGroups \union w.groups
    /\ UNCHANGED <<pending, owners, granted>>

\* Mutant: the grants stay with the account.
CommitDisableServiceOnly(w) ==
    /\ SetEnabled(w, FALSE)
    /\ owners' = owners \ {<<w.account, g>> : g \in w.groups}
    /\ UNCHANGED <<enabledGroups, edges, pending, granted>>

CommitDisableService(w) ==
    /\ SetEnabled(w, FALSE)
    /\ owners' = owners \ {<<w.account, g>> : g \in w.groups}
    /\ granted' = granted \ {w.account}
    /\ UNCHANGED <<enabledGroups, edges, pending>>

CommitEnableService(w) ==
    /\ <<w.account, w.group>> \notin owners
    /\ SetEnabled(w, TRUE)
    /\ edges' = edges \ w.revoked
    /\ owners' = owners \union {<<w.account, w.group>>}
    /\ UNCHANGED <<enabledGroups, pending, granted>>

\* The account is disabled and enabled again in one transaction.
CommitConvert(w) ==
    /\ users' = [users EXCEPT ![w.account].services = @ + 1,
                              ![w.account].enabled = TRUE]
    /\ pending' = pending \ w.cancelled
    /\ owners' = owners \union {<<w.account, w.group>>}
    /\ UNCHANGED <<enabledGroups, edges, granted>>

CommitGroup(w) ==
    /\ enabledGroups' = IF w.to THEN enabledGroups \union {w.group}
                        ELSE enabledGroups \ {w.group}
    /\ UNCHANGED <<users, edges, pending, owners, granted>>

\* The repository looks at the account again before it inserts the row.
CommitGrant(w) ==
    /\ users[w.account].enabled
    /\ granted' = granted \union {w.account}
    /\ UNCHANGED <<users, enabledGroups, edges, pending, owners>>

\* The unique indexes: fingerprints of all keys, names of an account's
\* passwords, keys of an account's metadata.
Conflicting(r) ==
    {s \in Rows : s[1] = r[1] /\ s[3] = r[3] /\ (s[2] = r[2] \/ r[1] = "key")}

\* An IntegrityError rolls the insertion back.
CommitInsert(w) ==
    /\ \A r \in Conflicting(w.credential) : credentials[r] = 0
    /\ credentials' = [credentials EXCEPT ![w.credential] = @ + 1]
    /\ UNCHANGED <<tables, tokens>>

CommitDelete(w) ==
    /\ credentials' = [credentials EXCEPT ![w.credential] = 0]
    /\ UNCHANGED <<tables, tokens>>

\* Mutant: a disabled token does not stand in the way of a new one.
CommitReaddToken(w) ==
    /\ tokens[w.token] # "usable"
    /\ tokens' = [tokens EXCEPT ![w.token] = "usable"]
    /\ UNCHANGED <<tables, credentials>>

\* A token is never deleted: its name stays taken, disabled or not.
CommitAddToken(w) ==
    /\ tokens[w.token] = "absent"
    /\ tokens' = [tokens EXCEPT ![w.token] = "usable"]
    /\ UNCHANGED <<tables, credentials>>

CommitDisableToken(w) ==
    /\ tokens' = [tokens EXCEPT ![w.token] = "disabled"]
    /\ UNCHANGED <<tables, credentials>>

CommitAccount(w) ==
    /\ \/ w.op = "create" /\ CommitCreate(w)
       \/ w.op = "own" /\ CommitOwn(w)
       \/ w.op = "disable" /\ CommitDisable(w)
       \/ w.op = "enable" /\ CommitEnable(w)
       \/ w.op = "disableService" /\ CommitDisableService(w)
       \/ w.op = "enableService" /\ CommitEnableService(w)
       \/ w.op = "convert" /\ CommitConvert(w)
       \/ w.op = "group" /\ CommitGroup(w)
       \/ w.op = "grant" /\ CommitGrant(w)
    /\ UNCHANGED <<credentials, tokens>>

CommitCredential(w) ==
    \/ w.op = "insert" /\ CommitInsert(w)
    \/ w.op = "delete" /\ CommitDelete(w)
    \/ w.op = "addToken" /\ CommitAddToken(w)
    \/ w.op = "disableToken" /\ CommitDisableToken(w)

Commit(p) ==
    /\ txn[p] # Nothing
    /\ txn' = [txn EXCEPT ![p] = Nothing]
    /\ CommitAccount(txn[p]) \/ CommitCredential(txn[p])

\* The process dies, or its commit is refused and rolled back.
Rollback(p) ==
    /\ txn[p] # Nothing
    /\ txn' = [txn EXCEPT ![p] = Nothing]
    /\ UNCHANGED <<tables, credentials, tokens>>

\* Memberships and requests change in GroupMembership.
ChangeMembership(e) ==
    /\ edges' = IF e \in edges THEN edges \ {e} ELSE edges \union {e}
    /\ UNCHANGED <<users, enabledGroups, pending, owners, granted, credentials,
                   tokens, txn>>

ChangeRequest(q) ==
    /\ pending' = IF q \in pending THEN pending \ {q} ELSE pending \union {q}
    /\ UNCHANGED <<users, enabledGroups, edges, owners, granted, credentials,
                   tokens, txn>>

ChangeAccount(p) ==
    \/ \E a \in Accounts, preserve \in BOOLEAN :
          \/ CtlUser(p, a, preserve)
          \/ \E actor \in Actors : UserEnable(p, actor, a, preserve)
    \/ \E actor \in Actors, a \in Accounts :
          \/ UserDisable(p, actor, a)
          \/ ServiceAccountDisable(p, actor, a)
          \/ \E g \in Groups :
                \/ \E items \in SUBSET MetadataOf(a) :
                      a \in NewServices /\ CreateServiceAccount(p, actor, a, g, items)
                \/ ServiceAccountEnable(p, actor, a, g)
                \/ ConvertUserToServiceAccount(p, actor, a, g)
    \/ \E s \in Accounts : GrantPermissionToServiceAccount(p, s)
    \/ \E g \in Groups, to \in BOOLEAN : GroupSetEnabled(p, g, to)

ChangeCredentials(p) ==
    \E actor \in Actors :
       \/ \E r \in Rows : AddCredential(p, actor, r) \/ DeleteCredential(p, actor, r)
       \/ \E t \in Tokens : UserTokenAdd(p, actor, t) \/ UserTokenDisable(p, actor, t)

Next ==
    \/ \E p \in AccountProcs : ChangeAccount(p)
    \/ \E p \in Procs :
          \/ ChangeCredentials(p)
          \/ LoadGroup(p) \/ LoadMemberships(p)
          \/ Commit(p) \/ CommitItem(p)
          \/ Rollback(p)
    \/ \E e \in Joinable : ChangeMembership(e)
    \/ \E q \in Requestable : ChangeRequest(q)

Spec == Init /\ [][Next]_vars

-----------------------------------------------------------------------------
(* Properties.                                                             *)

\* A role user is enabled if and only if its group is, through the pages for
\* users, through grouper-ctl and in spite of the pages for groups; unless the
\* user has been converted to a service account, which leaves its group alone.
RoleUserMatchesItsGroup ==
    \A r \in RoleUsers :
        users[r].services = 0 => (users[r].enabled <=> RoleGroup[r] \in enabledGroups)

\* A role user that is enabled again is still a member of its own group, even
\* when its memberships are not preserved (enable_role_user).
RoleUserStaysInItsGroup ==
    [][\A r \in RoleUsers :
          /\ users[r].services = 0 /\ ~users[r].enabled /\ users'[r].enabled
          /\ <<RoleGroup[r], r, "member">> \in edges
          => <<RoleGroup[r], r, "member">> \in edges']_vars

\* A service account that changes hands takes no permission along: while it has
\* no owner it holds none, however it is disabled, enabled and granted to.
NewOwnersInheritNothing ==
    [][\A s \in Accounts :
          (\A g \in Groups : <<s, g>> \notin owners)
          /\ (\E g \in Groups : <<s, g>> \in owners') => s \notin granted']_vars

\* No sequence of enabling, disabling and conversion gives a service account a
\* second owner, which every handler that looks the owner up would choke on.
AtMostOneOwner == \A s \in Accounts : Cardinality(OwnersOf(s)) <= 1

\* A conversion cancels the requests of the user it converts and nobody else's
\* (convert_user_to_service_account_test.py: test_cancels_group_requests).
ConversionCancelsItsOwnRequests ==
    [][\A a \in Accounts :
          users[a].row /\ users'[a].services > users[a].services
          => \A q \in pending : q[1] # a => q \in pending']_vars

\* A token that was disabled is never valid again, whatever becomes of its
\* account and whoever adds a token of the same name.
DisabledTokensStayDisabled ==
    [][\A t \in Tokens :
          tokens[t] = "disabled" => ~TokenValidate(t)']_vars

=============================================================================
