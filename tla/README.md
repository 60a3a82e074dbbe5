# Grouper, specified in TLA+

Grouper (the repository beside this directory) keeps track of which users and
groups belong to which groups, and of the permissions they get from it. This
directory holds TLA+ specifications of the parts where its correctness depends
on the order of things: several front-end workers, command-line invocations, a
background task and the API servers share one SQL database, commit in the
middle of what looks like one change, and answer from a graph in memory that
may be behind.

Run a check with `tlc -config membership_changes.cfg MCGroupMembership.tla`, a
proof with `tlapm GroupMembership_proofs.tla`. A module `X_proofs` holds theorems
about `X`.

## Inventory

| Component | State | Operations | Interaction | Hard behaviours |
|---|---|---|---|---|
| Memberships and join requests (`group_member.py`, `models/group*.py`, `models/request.py`, handlers `group_*.py`, `ctl/group.py`) | rows of `group_edges`, `requests`, `groups.enabled`, `users.enabled` | create a group, join, add, edit, remove, leave, decide a request, enable and disable | shared tables, no locking; plugin hooks; the expiry task changes the same rows | commits in the middle of a change, check-then-act between workers, requests applied long after they were checked |
| Ownership policy plugin (`plugins/group_ownership_policy.py`) | none | refuses changes that take the last permanent owner | called by `persist_group_member_changes` and `disable_user` | paths that do not call it; two owners leaving at once |
| Background processor (`background/background_processor.py`) | its loop | expire edges, promote non-auditors, send e-mails, prune traces | same tables; own graph | a list that goes stale, a crash between two rows, one bad row that stops the loop |
| Permission graph cache (`graph.py`, `database.py`, `models/counter.py`, `repositories/checkpoint.py`) | graph, checkpoint and two locks per process; the counter "updates" | refresh by the thread or by a handler; move the counter | every writer is to move the counter with its change | counter behind or ahead of the data, snapshot reads, two threads, restarts |
| Graph queries (`graph.py`, `user_permissions.py`, `repositories/permission_grant.py`) | none | memberships, grants, audited groups | read the cache or SQL | the implementations must agree; cycles; `np-owner` edges |
| Expiration notices and e-mail (`expiration.py`, `email_util.py`) | `async_notifications` | schedule, cancel, send | called inside `apply_changes`, which makes it commit | lost or repeated mails, stale dates and recipients |
| Audits (`audit.py`, `audits_*.py`) | `audits`, `audit_members` | start, decide members, complete | uses cache and tables; changes memberships | started twice, half enacted, members who change meanwhile |
| Permissions and requests (`permissions.py`, `usecases/`, `services/`) | `permissions`, grants, `permission_requests` | create, grant, revoke, disable, ask, decide | SQL and cache | decisions racing, a grant of a disabled permission |
| Service accounts, role users (`service_account.py`, `role_user.py`) | account rows, owner rows | create, disable, enable, convert | a user, an owner group | two owners after two enables, pairs that part |
| Accounts, keys, tokens, passwords, metadata | single rows | add, remove, disable | unique indexes | two processes that add the same |
| Read-only API and pages | none | lists, details, grants | graph and SQL | must say the same |
| Command line, plugins, templates, settings | | | | none of their own |

What makes each correct: a membership changes only as its request or form said,
completely, and after every check that applies to it; a request is decided once;
an enabled group keeps a permanent owner where the policy is loaded; the graph of
a process is that of its checkpoint, never moves back and arrives at the current
data; notices and mails reach those they are about, once; an audit can be
completed and its decisions are applied; a decided permission request and the
grants agree; an enabled service account has one owner.

`PROJECT.json` lists every hazard with its line.

## Modules

### `GroupMembership`: memberships and requests

`edges[g][m]` is the row of `group_edges` for group `g` and member `m`: whether
there is one, `active`, `role` and `expiration` (a day; `Forever` is NULL).
`requests` holds the rows of `requests` that were filed as pending. A request
that is filed as actioned is only a record: no handler can decide it again.
`now` counts days, which is what the forms' dates tell apart.

A handler is two kinds of action. The first (`GroupJoin`, `GroupAdd`,
`GroupEditMember`, `GroupRemove`, `GroupLeave`, `GroupRequestUpdate`,
`GroupCreate`, `GroupSetEnabled`, `UserDisable`, `UserEnable`, `CtlAddMember`,
`CtlRemoveMember`) reads the tables: its guards are the early returns of the
code, in `persist_group_member_changes` and the policy plugin too. It leaves in
`txn[p]` the commits the process still has to make. The second kind
(`CommitEdge`, `CommitFiledRequest`, `CommitCreate`, `CommitGroup`,
`CommitUser`) makes the next one. Between them other processes, the expiry task
and the calendar take steps, and `Abort` stands for a process that dies or a
transaction the database refuses.

There is more than one commit because `GroupEdge.apply_changes` and the setter of
`GroupEdge.role` call `add_expiration` and `cancel_expiration`, and both commit the
session they are given (`email_util.py:90`, `expiration.py:93`). `CommitsAfterRole`
and `CommitsAfterExpiration` say when, `Segments` which columns each commit takes
along, and `Commits` builds those that write the row, three at most. The others,
which come once for each further group the setter goes over and once when the role
has been committed before the old notice is cancelled, write a notice alone: they
are steps of `Notices`. After a commit the session reloads the row, so
a later commit sets what the change says on the row as it is by then, while the
first one writes only what differs from the row as it was loaded.

`LoadExpiredEdges` and `ExpireEdge` are `BackgroundProcessor.expire_edges`: the
list is loaded once and each row is deactivated without another look at its
expiration. `HasActor` is the guard of `notify_edge_expiration`, whose exception
ends the process (`ExpiryCrash`). `promote_nonauditors` adds a member to the
auditors group with no expiration, which `CtlAddMember` covers.

`AuditRefusals` stands for `assert_can_join`, which answers from the cached
graph of the process: any set of refusals, but never of a plain user. Who may
disable and enable users depends on permissions and is left open.

### `GraphCache` and `CachedGraph`: the permission graph

`db` gives each table that `update_from_db` reads a version number, `counter` is
the row "updates" of `counters`. A server has a published graph (`view`,
`checkpoint`), the lock `_update_lock` and two threads that may update it: the
`DbRefreshThread` and, in the front end, a handler that got `refresh=yes`.
`StartUpdate` takes the lock and reads the counter, `SkipUpdate` is the early
return, `LoadTable` one query, `Publish` the assignments under `self.lock`. The
order of the queries is left open. A handler's session was opened when its user
was looked up (`OpenSession`); where the database reads from snapshots (MySQL's
REPEATABLE READ, SQLite in a transaction) it sees the tables and the counter of
that moment. Both kinds of reads are checked (`SnapshotModes`).

The writers differ in how the counter goes with the change: in one commit
(`Update`); after it, because something in between commits (`CommitBeforeCounter`,
then `CommitCounter` or the crash `LoseCounter`): `apply_changes` with a notice,
the audit log in `disable_permission_auditing` and `disable_service_account`;
or not at all (`ChangeSilently`): a new permission, and an edge that reaches its
expiration. The history variable `unannounced` holds the tables changed since
the counter last moved.

`CachedGraph` is what a reader may count on: every table it sees is one the
database has held, and a refresh does not take it back unless sessions read from
snapshots. `GraphCache` implements it, with the variables of the same names
(`Cached == INSTANCE CachedGraph`, property `CachedGraphSpec`).

### `Notices`: announcing the end of memberships

`Notices` extends `GroupMembership` with `notices`, the rows of
`async_notifications` with a key of `expiration.py`: group, member, recipient and
date, and with `duty`, what a process has read about notices when it loaded the row
and still has to do: the notices the setter of the role is to schedule or cancel
(`SetterNotices`, one for each group of `my_expiring_groups`), whether the notice of
the old date is to be cancelled, and whom a new one goes to. Each notice is a commit.
`CommitRole` is the first of the setter, which takes the role along, `AdjustNotice` a
later one; `Reload` is `apply_changes` going on with the row as it is after them;
`CancelAlone` cancels the old notice when the columns before it are committed, and
`CommitWithNotices` makes the commits of `apply_changes` that write the row, with the
notice cancelled or scheduled (`CancelExpiration`, `AddExpiration`). A process may die
between any two. `SendNotices` sends what is due.

The histories `told` and `excused` are what the properties need: what has been sent
for the present date, and what no property can speak for. That is a user's membership
whose change was cut short before its notice; a group's membership whose notices a
former owner's setter was cut short of cancelling; and a group's membership that was
not in force (`InForce`) while a notice about it was out: the setter finds the
memberships of a group by `my_expiring_groups`, which does not see one that is
inactive or whose group or member is disabled, and so leaves its notice alone, or
comes to schedule a notice about one that has ended since (`Late`).

### `Permissions`: permissions, grants and requests

Tables `permissions`, `permissions_map`, `service_account_permissions` and
`permission_requests`, and the graph of the one process, which lags behind until
`UpdateFromDb`. A handler checks and reads in one action (`CreateRequest`,
`UpdateRequest`, `PermissionsGrant`, `GrantPermissionToServiceAccount`,
`DisablePermission`, `ChangeAuditing` and so on) and leaves its commits to `Commit`;
`Crash` may come in between. Disabling a permission is two deletions more,
`RevokeAllGroupGrants` and `RevokeAllServiceAccountGrants`, each an action of its own
that reads the rows it will have deleted when the transaction commits. Their queries see the
newest committed rows (READ COMMITTED), and their own deletions. Under MySQL's REPEATABLE READ or
in SQLite the second sees the snapshot of the first, which hides what other processes
commit in between: those behaviours are among the ones modelled here. Who belongs to which group and who holds the
administrative permissions are constants.

### `Accounts`: users, role users, service accounts, credentials

`users[a]` is a row of `users` with the number of its `service_accounts` rows;
`owners`, `granted`, `edges`, `pending` are the tables around it, `credentials` and
`tokens` those of keys, passwords, metadata and tokens. Handlers of the front end
and commands of `grouper-ctl` read in one action and commit in another
(`txn[p]`); `Rollback` is a crash or a refused commit. A role user, its group
(`LoadGroup`) and its memberships (`LoadMemberships`) are read by one query after the
other, and the commit writes only the flags that differ from what was loaded
(`SetEnabled`; SQLAlchemy emits no update for an attribute that is set to its loaded
value). `enable_user` reads the memberships before the group is enabled, so that
stripping them spares the one in its own group, as `enable_role_user` relies on.
Creating a service account with initial metadata commits the account with its first
item (`CommitItem`), the further items, and the owner at last (`CommitOwn`): although
the usecase opens one transaction for all of it, `set_user_metadata` commits, and a process
that dies in between leaves an enabled account without an owner. No page and no command
of the repository passes initial metadata; the usecase and its test do. `PendingRequestsForUser` is the
query as it is written, without the user. Memberships and requests come and go by
`ChangeMembership` and `ChangeRequest`. `AccountProcs` bounds who changes accounts.

### `PermissionGraph` and `AuditPolicy`: what is asked of the graph

`PermissionGraph` has no steps: it defines, over the tables, what
`get_group_details`, `get_user_details`, `get_permission_details`, `get_groups`, the
grants by permission and the API's lists answer (what is `Found` along memberships),
what the SQL repositories and `user_permissions` answer to the same questions, what
the pages show, and `AssertCanJoin` and `AssertControllersAreAuditors` with the
worklist of the code (`Visit` is one turn of its loop, `Runs` are all its runs, which
take a group from the queue in any order). `DownArcs`, `DownGrantArcs` and `UpArcs` are
the three graphs the code keeps, `Spread` is the search of networkx in them, level by
level for as many levels as there are nodes. Names (`NameOf`) matter to the walk only:
a role user has that of its group.

`AuditPolicy` makes the databases to ask about: joins and edits that
`AssertCanJoin` lets through, leaving, disabling and enabling of users (with and
without their memberships) and groups, grants, revocations, audited flags, and
`PromoteNonauditors`. Its handlers have a graph that is up to date; how a graph
lags behind is in `GraphCache`.

### `MailQueue` and `Audits`: the background processor, e-mails and audits

`MailQueue` is the loop of `BackgroundProcessor.run` around the queue: `BgStart`
loads the expired memberships, `BgNotify` and `BgDeactivate` are two commits,
`BgLoad` loads the batch, `BgSend` marks a mail if it is still unsent and hands it
to the mail server, `BgCommit` commits all marks. `BgCrash` leaves what was
committed. The order in which a batch is worked off is left open.

`Audits` composes it with the handlers of audits: `AuditsCreate`, `InsertAudits`
and `RemindOwners` for `POST /audits/create`, `AuditsComplete`, `CommitReview`,
`CheckPending`, `Enact`, `CommitComplete` and `CancelReminders` for a review, which may
set a decided member back to "pending", and whose
commits are interrupted by members who come and go, by `GroupDisable` (which
completes the audit of its group) and by crashes. `IdOf` gives users their primary
keys, which the review compares. `back` is a history of the memberships that came
back during an audit: their old status still counts.

### MC modules

The `MC` modules declare the model values and define the functions that the
`.cfg` files give to constants.

## Runs

| Run | Checks | Bounds |
|---|---|---|
| `membership_changes` | `DecidedOnce`, `ApprovedWithItsExpiration`, `RevocationNeverExtends`, `PolicyKeepsAnOwner` | 2 users (interchangeable: `SYMMETRY`), 1 group, 1 request, 2 days, dates "tomorrow" and none; the expiry task's list is current (`CONSTRAINT LoadedAreExpired`) |
| `membership_groups` (`MCNotices`) | `TypeOK`, `GroupsAreOnlyMembers`, `NoticesHaveTheDate`, `ExpiringMembersAreTold`, `FormerOwnersAreNotTold`, `OnePendingRequest` | 1 user, 2 groups (one open that expires memberships after a day, one closed), 2 days, 2 requests, 5 handlers (`MaxChanges`); also from `SupergroupInit`, where a third group is a member of both until the last day, 2 handlers (`MoreChanges`) |
| `graph_cache` | `TypeOK`, `Fresh`, `CheckpointOrdersAnnounced`, `CheckpointNeverRecedes`, `RefreshedServersConverge`, `CachedGraphSpec` | a front-end and an API server, 2 writers, 2 tables changed once each (the counter moves more often), 1 crash, both snapshot modes |
| `permissions` | `OnePendingPermissionRequest`, `DecidedRequestsStay`, `ApprovalsRecheckAuditing`, `DisablingRevokesAll`, `DisablingSparesOthers` | 2 users, a group, a service account, 2 permissions, 1 argument, 2 requests, 1 worker |
| `accounts` | `RoleUserMatchesItsGroup`, `AtMostOneOwner`, `RoleUserStaysInItsGroup`, `NewOwnersInheritNothing`, `DisabledTokensStayDisabled` | a role user, a new service account with an item of metadata or without, 2 groups, a token; 2 processes, one of which changes accounts |
| `graph_queries` (`MCAuditPolicy`) | `GrantsMirrorUserDetails`, `SqlMatchesGraph`, `AuditedMatchesDetails`, `AssertCoversSubgroups`, `JoinsKeepPolicy`, `PromotionRestoresPolicy` | a user, a service account, 3 groups, 2 permissions; 9 possible memberships, 3 possible grants, 4 members that are ever disabled |
| `audits` | `TypeOK`, `TriedOncePerLife`, `CompletionIsEnacted`, `CancelledMailIsNotSent`, `ExpiryIsAnnounced`, `BackgroundCatchesUp` | 2 owners (one an auditor), 1 group, 1 audit, 2 workers, crashes while the queue has at most 1 mail |
| `stale_expiry` | `OnlyExpiredEdgesExpire`: violated | 2 users, 1 group, 2 days |
| `graph_expired_edges` | `SilentChangesArrive`: violated | 1 server, 1 writer |
| `disabled_grants` | `DisabledPermissionsNotGranted`: violated | as `permissions` |
| `convert_requests` | `ConversionCancelsItsOwnRequests`: violated | 2 users, 1 group |
| `smtp_retry` | `RefusedMailIsRetried`: violated | as `audits`, with refusals |

Why the bounds are enough. The conditions of the membership handlers concern one
group, one member and the user at work, so two users give an owner and somebody
else, and two owners; two groups give a member group and the notices its owners
are sent. The row of one change is written in at most three commits, and one date in
the future makes all of them happen; two larger groups make the
setter of the role commit twice. `SupergroupInit` is what five handlers leave (a
user creates three groups and adds the third to the others), since getting there
takes more steps than TLC can follow; the constraint `TwoGroupsOrThree` keeps the third
group out of the behaviours that start with nothing. In the graph a second table is what makes a copy
mixed, a second writer is what moves the counter between the commit and the
counter of the first. A table's version is 0 or 1, but the counter moves up to
four times, so that graphs with several checkpoints meet. In `membership_groups`
the one date of the forms is in the future on the first day and past on the second
(the forms take past dates too), and five handlers are what it takes to create
two groups, make one a member of the other, change its owners and renew its membership.

In `accounts` a role user and a service account share the
processes, and have a group each to own and to be paired with. In `graph_queries` two
groups that may contain each other make cycles, the third is the auditors' group
below one of them, and Alice has every role that the queries tell apart (a manager
is to the policy what an owner is). In `audits` the second owner is the one that
can be removed, the first the one that cannot review herself away; a second crash
of the processor starts from what the first one left.

`membership_changes`, `membership_groups` and `permissions` have one process at
work, which other steps (the calendar, the expiry task, a crash between two
commits) interrupt. That is one front-end worker; it is what the properties need,
and "With two processes" says what a second worker does to them.

Deadlock is checked in every run.

### What the failing runs show

* `stale_expiry`: the expiry task loads an expired edge, another process makes it
  permanent, the task deactivates it.
* `graph_expired_edges`: no step moves the counter when an edge expires, so
  `SkipUpdate` skips for ever and the edge stays in the graph.
* `disabled_grants`: a process grants to a service account what its graph still has
  as an enabled permission.
* `convert_requests`: the query for the requests to cancel does not mention the
  user; bob's request goes when alice is converted.
* `smtp_retry`: the mark is made before the mail, and stays when the server refuses.

### What the properties except

Writing the properties meant finding where they stop to hold. `PolicyKeepsAnOwner`
leaves approvals out: `Request.update_status` does not call the plugin. It leaves
out promotions that give a date (`Promoting`): in a group that is to drop out of
another, setting the role commits before the date is set, and who is made an
owner until some day is one for good in between. Two groups are needed for that,
so `membership_changes` does not get there; TLC finds it with a second group and
a group administrator if the exception is dropped. It is also
checked only while the expiry task's list is current: an owner whose expired
membership was made permanent after the task loaded it counts for the plugin, lets
the other owner leave, and is then deactivated by the task, which is the race of
`stale_expiry` with a greater loss (`LoadedAreExpired` keeps it out; without it TLC
finds the property violated).
`ApprovedWithItsExpiration` speaks of the date a request holds. A request holds none
when the date that was asked for was the row's already (`_serialize_changes` drops what
does not differ): if the row is given another date before the request is approved, the
membership becomes active with that one, and the property says no more than that the
approval leaves it as it is.
`CheckpointOrdersAnnounced` leaves out changes that were committed before the
counter moved. `RoleUserMatchesItsGroup` leaves out role users that were
converted, `RoleUserStaysInItsGroup` those that are enabled twice.
`SqlMatchesGraph` leaves out `np-owner` memberships for the checks that look at
direct memberships only: they grant what the graph denies. `JoinsKeepPolicy`
leaves out becoming an `np-owner`, which can cost the auditor permission
elsewhere, `PromotionRestoresPolicy` service accounts that are members from of
old. `CompletionIsEnacted` leaves out memberships that came back during the
audit. `NoticesHaveTheDate` needs no exception while one process works; `ExpiringMembersAreTold` and
`FormerOwnersAreNotTold` leave out what `excused` holds, the latter also notices that the
setter is in the course of cancelling (`BeingCancelled`). A setter that is cut short
between two groups leaves the notices about the rest to a former owner, and nothing
finds them again, because the ownership does not change any more: TLC finds that when
those notices are not excused. For
`FormerOwnersAreNotTold` that matters beyond the run's instance: with a group
administrator TLC finds a group that is added again to a disabled group, so that
the notices go out before the setter can find the membership.

### With two processes

With `Procs = {p1, p2}` TLC finds these violated, each by a handler that reads
before another one commits:

* `OnePendingRequest`, `OnePendingPermissionRequest`: the same request is filed twice.
* `DecidedOnce`, `DecidedRequestsStay`: it is approved and cancelled, or decided twice.
* `ApprovedWithItsExpiration`: an owner adds the user anew between the commits of an
  approval; `RevocationNeverExtends`: a renewal in three commits around a removal.
* `PolicyKeepsAnOwner`: two owners leave.
* `FormerOwnersAreNotTold`: an owner is demoted while another process has scheduled a
  notice and not yet made the membership active.
* `NoticesHaveTheDate`: a process has found no date to cancel the notice of, another one
  sets a date and its notice, and the first goes on and changes the date.
* `ApprovalsRecheckAuditing`: the permission becomes audited before the approval
  commits; `DisablingRevokesAll`: it is granted before the disabling commits;
  `DisablingSparesOthers`: it is granted to a group between the two deletions, and the
  query of the second, which names the groups' table, finds all grants of all accounts.
* `RoleUserMatchesItsGroup`: one process loads a role user that is enabled, another
  disables the pair, the first loads the group and enables it: it does not write
  the user, which it has loaded as enabled.
* `AtMostOneOwner`: an account is enabled twice; `NewOwnersInheritNothing`: it is granted
  to by a handler that saw the owner before the last; `RoleUserStaysInItsGroup`: a
  role user is disabled and enabled while another process is about to enable it.
* `CompletionIsEnacted`: two reviewers of an audit, or two requests that start audits.

They are listed as hazards at the lines where the reads are. For each the theorem names
what is enough to rule these orders out, for any number of processes (see *Processes that
leave each other's work alone*). The other properties hold for any number without
further ado.

## Fairness

The safety runs assume none. `Spec` of `Audits` assumes that the processor keeps
taking steps: it is a loop that ends on an exception and is started again.
`BackgroundCatchesUp` holds unless it crashes infinitely often; front-end workers
need not finish what they began. `FairSpec` of `GraphCache` assumes that
the refresh thread keeps taking steps (`DbRefreshThread.run` is an endless loop
that ends the process on any exception, and a supervisor starts it again), and
that a handler that is inside `update_from_db` finishes it. No handler has to
start an update, and no writer has to write. Crashes are bounded by
`MaxCrashes`; a server that dies for ever converges to nothing.

## Proofs

The theorems hold for every value of the constants that satisfies the module's
assumption: users, groups, tables, processes and the rest are arbitrary sets,
of any size. TLC looked for a state that violates each inductive invariant, on
the bounds of the run or somewhat beyond them, before it was proved. The bounds
of the runs (`MaxDay`, `MaxChanges`, ...) are constants too, so that a theorem
says nothing less for them.

Some theorems have a hypothesis `[]P`, where `P` says of the processes at work that none
is about to change what another one has read. It is an assumption the code makes and
does not enforce: its handlers read, check and commit without a lock. "With two
processes" says how each of those properties fails without it. The calendar, the
expiry task, the processor and crashes between commits are free to step in, and so is
all work on something else. One process alone satisfies every such `P`, so that these
theorems cover the runs, and one front-end worker, as a special case.

### Any number of processes

| Module | Theorem | Property |
|---|---|---|
| `GroupMembership_proofs` | `TypeCorrect`, `GroupsStayMembers` | `TypeOK`, `GroupsAreOnlyMembers` |
| `Notices_proofs` | `NoticesImplementMembership`, `MembersTold` | `Spec` of `GroupMembership`, `ExpiringMembersAreTold` |
| `GraphCache_proofs` | `TypeCorrect`, `FreshGraphs`, `CheckpointMonotone`, `ImplementsCachedGraph`, `CheckpointsOrder` | `TypeOK`, `Fresh`, `CheckpointNeverRecedes`, `CachedGraphSpec`, `CheckpointOrdersAnnounced` |
| `Permissions_proofs` | `TypeCorrect` | `TypeOK` |
| `Accounts_proofs` | `TypeCorrect`, `TokensStayDisabled` | `TypeOK`, `DisabledTokensStayDisabled` |
| `Audits_proofs` | `TypeCorrect`, `TriedOnce`, `CancelledStays`, `ExpiryAnnounced` | `TypeOK`, `TriedOncePerLife`, `CancelledMailIsNotSent`, `ExpiryIsAnnounced` |
| `AuditPolicy_proofs` | `MirrorHolds`, `AuditedAgree`, `SqlAgrees`, `PromotionRestores` | `GrantsMirrorUserDetails`, `AuditedMatchesDetails`, `SqlMatchesGraph`, `PromotionRestoresPolicy` |
| `AuditPolicy_proofs`, where role users control no group | `WalkCovers`, `JoinsKeep` | `AssertCoversSubgroups`, `JoinsKeepPolicy` |

In `AuditPolicy` a handler is one action, so that there are no processes to count.
`NamesDiffer` says that users and groups have different names, but for role users
and their groups: names are unique, and a group's may not contain an @
(`groups_view.py:63`) while a user's does. `PlainRoleUsers` says that a role user is at
most a plain member of any group. The code does not enforce it, and the two theorems
need it: the walk of `assert_controllers_are_auditors` keeps one set of names for
users and groups, and passes over a role user once its group has been looked at. TLC
finds that with a role user who owns a group, and finds nothing with one who is a plain
member of its own group and of another.

### Processes that leave each other's work alone

| Module | Hypothesis: at any time ... | Theorem | Property |
|---|---|---|---|
| `GroupMembership_proofs` | `Apart`: no two processes have commits to come for the same membership | `RequestsAreSingle`, `DecisionsStay`, `ApprovalsKeepTheDate`, `RevocationsNeverExtend` | `OnePendingRequest`, `DecidedOnce`, `ApprovedWithItsExpiration`, `RevocationNeverExtends` |
| `OwnerPolicy_proofs` | `GroupsApart`: no two for the same group, nobody else at work while an account is enabled or disabled; `LoadedAreExpired` | `KeepsAnOwner` | `PolicyKeepsAnOwner` |
| `Notices_proofs` | `Apart`, and `OwnersApart`: nobody changes a group's owner while another changes what that group belongs to | `NoticesDated`, `OwnersAreTold` | `NoticesHaveTheDate`, `FormerOwnersAreNotTold` |
| `Permissions_proofs` | `NoClash`: no two file or decide the same request, none makes a permission audited that another approves, or grants one that another disables | `RequestsAreSingle`, `DecisionsStay`, `ApprovalsAudited`, `DisablingRevokes` | `OnePendingPermissionRequest`, `DecidedRequestsStay`, `ApprovalsRecheckAuditing`, `DisablingRevokesAll` |
| `Permissions_proofs` | `NoneBetween`: none grants a permission to a group that another has deleted the groups' grants of and not yet the accounts' | `SparesOthers` | `DisablingSparesOthers` |
| `Accounts_proofs` | `RolesApart`: no two enable or disable the same role user | `RoleUsersMatch`, `RoleUsersStay` | `RoleUserMatchesItsGroup`, `RoleUserStaysInItsGroup` |
| `Accounts_proofs` | `OwnersApart`: no two give the same account an owner, by conversion, by enabling it or at the end of its creation | `OneOwner` | `AtMostOneOwner` |
| `Accounts_proofs` | `GrantsApart`: none disables an account that another one grants to | `InheritNothing` | `NewOwnersInheritNothing` |
| `Audits_proofs` | `ReviewsApart`: no two are about to insert audits, none reviews a group's audit while another ends memberships of that group for its audit | `CompletionEnacted` | `CompletionIsEnacted` |

### The arguments

The properties speak of the tables, and the work that is under way decides what
becomes of them: nearly every inductive invariant here says what a waiting
commit, a loaded list or a half-read graph still has to do with the tables.

*Memberships.* `IInv` says of each waiting commit about a member group that its
roles are "member" (`SafeWrite`; `_validate_role` looked at it when it was begun),
and the same of requests and rows. Where processes are `Apart`, `WorkInv` adds that the
commits of a list belong to one change (`SameChange`), that the request to decide
is pending until the first commit and its date is written before `active`
(`ReadyToDecide`, `DatedFirst`), and that a removal that clears a date clears
`active` with it (`EndsWithDate`). `SegmentsOrder` is where the order in which
`apply_changes` commits its columns enters. Each handler is shown once to leave
such a list (`Prepares`), each commit to leave such a rest, and to leave alone the
lists that are not `About` its membership (`OthersPrepared`).

*The ownership policy.* The plugin is asked once, before up to three commits of the row.
`PolicyInv` carries what it found through them (`LetThrough`): the change takes
nothing away; or there is another permanent owner, whom no commit about this
member touches (`OthersStay`); or the member is none and does not become one before
the change ends (`StaysOut`), because the account is disabled, the first commit
takes the role, or the date is written before the membership is active. The
theorem assumes `[]LoadedAreExpired`, as the run does by its `CONSTRAINT`: an expiry
of an edge that was renewed takes an owner the policy has counted. Commits about another
group change nothing that was counted (`OthersElsewhere`); an account that is enabled or
disabled may be in every group, hence the second half of `GroupsApart`.

*Notices.* `NoticeInv` says, for any number of processes, that a user with a date to
come has been told or will be, unless the next commit of somebody changes that date
(`ToldOrDue`), that the date is in one of the first two commits of a list
(`OneMembership`), that a duty fits the list it belongs to (`DutyFits`), and that a
commit finds its row unless it inserts it (`RowInv`). The refinement makes the theorems
about `Spec` hold of `NoticeSpec`: a commit of a notice alone is a stutter. For
processes apart, `ApartInv` adds what each of them still knows (`Knows`), as nobody
else changes what it has read: the dates the setter has found are those of the rows
(`DatesRead`), no notice is out where none is to be cancelled (`OldCancelled`), those
who will be told of a group are its owners (`RecipientsOwn`), the setter has found every
notice of a former owner (`DemotionFound`), and a new owner is one by the time the later
notices are scheduled (`PromotionMade`).
`OwnersTold` adds to `FormerOwnersAreNotTold` that a group's membership with a notice
out is in force, so that the setter of the role finds it, or is being worked on, or
is excused.

*The graph.* `Fresh` is a claim about published graphs; `IInv` of `GraphCache_proofs`
makes it of what a thread has copied so far (`Faithful`) and adds that nothing is
ahead of the counter (`NoneAhead`) and that a thread that loads holds the lock, with
a graph no newer than its own to replace (`LockHeld`). For the refinement a thread's
copy is no older than the graph it will replace unless its session reads from a
snapshot (`Behind`), so that `Publish` is a `Refresh` of `CachedGraph` and everything
else but a commit a stutter. For `CheckpointOrdersAnnounced` `Ordered` compares all
graphs and all copies with one another and with the database, and `Points` the
snapshots of sessions.

*Permissions.* The filter of the query for the accounts' grants names the table of the
groups' grants. Where none is granted between the two deletions, `SpareInv` says that
a process that has deleted the groups' grants has got all there are, so that the query
finds nothing and the "disable" that waits takes no account's grant. Where no commits clash a waiting one is still right about the tables (`Ready`): the
request to file has no pending double, the one to decide is pending and may be
approved, and a "disable" has every group's grant of its permission with it, while
no account has one.

*Accounts.* `IInv` says what each waiting action holds: a "group" is no role user's, an
account to be enabled or disabled as a service account is one. Where no two processes
toggle the same role user, `RoleInv` says what a process knows of the pair it has loaded
(`Fresh`): the flags are as they were loaded, so that a commit writes both or none,
and, when it is about to strip the memberships of a user it enables, the one in the user's
own group is not among them, because that group is still disabled. `OwnerInv` says that
an account has one owner at most, that who is no service account has none, and that
an account about to be converted, enabled or handed over has none (`Ready`);
`HandOverInv` that only owned accounts have grants, and that an account about to be
granted to has an owner (`Seen`).

*Audits and mails.* `MailInv` relates the batch in hand, the marks and the queue: what
was tried in this life is marked, what is marked has left the batch, and the
notice of the membership about to end is in the queue (`Announced`). `ReviewInv`
follows a review through its commits: audits are inserted only while none is open,
so that an open audit is its group's current one, and whoever the review has to
decide about is approved, back during the audit, or on the list to remove
(`Settled`). That survives the reviews of other groups, because the audit a group
knows is one of its own.

*Queries and audit policy.* The answers are sets reached along memberships in graphs of
any size, so the proofs start with an induction: the library knows that < on the
naturals is well founded, and a set of numbers without a least one outside is all of
them (`Counting`). From it follow that the recursive function in `Iterated` has the
values it is defined to have (`Iterates`: functions for longer and longer initial
segments exist and agree), and what all else rests on: `Spread` lies in every set
that holds its start and is closed under the arcs (`SpreadIsLeast`), and is
closed itself, because a level that is not has more nodes than the one before and
there are no more than `Members` (`SpreadCloses`, by cardinality; the accounts and
groups are finitely many). Two walks are then compared without looking at their
levels: down along `DownArcs` is up along `UpArcs` (`FoundBack`), and the last or the
first arc of a walk can be split off (`FoundLast`, `FoundFirst`).

`GraphInv` adds to the types that groups are in other groups as "member" only: with an
`np-owner` group in between, the graph of the grants would be thinner than that of the
members, and walking down would find less than walking up. For the walk of
`assert_controllers_are_auditors`, `WalkInv` says what each run knows: the controllers of
a group whose name is checked are auditors, and the groups directly in it are checked or
in the queue. When the queue is empty the groups checked are closed, hence cover
all that is below (`AcceptedIsCovered`). The other way round, no run raises where
all those controllers are auditors, and every run has ended after `MaxTurns` turns,
since a group is looked into once and then adds no more than all groups to the queue
(`RunsEnd`, `CoveredIsAccepted`); so the order in which the code pops makes no difference
to what it says. For joins, `AuditedGrowsBelow` says that a new
membership makes audited only what lies below the new member, and only if the
group was audited, which is when the walk was made; and `AuditorsStay` that more
memberships take the auditor permission from nobody. The promotion is the same
with the auditors' group: only users enter it, so no group becomes audited by it.

### Only model-checked

Liveness (`RefreshedServersConverge`, `BackgroundCatchesUp`): fairness and ENABLED are
out of the prover's reach. The five properties of the failing runs are false.

## Not modelled

The components with status `not_modelled` in `PROJECT.json`, which hold no state
of their own, and within the others: names and attributes of groups (a rename
makes notices miss their keys), descriptions and machine sets, comments, permission
aliases of plugins, distances and paths in the graph, paging, e-mail contents, the
wording of forms, what keys and tokens are made of. The exact time of day is a
day. The counter row exists from the start. A graph that lags behind is modelled
where a decision is made from it alone (`GraphCache`, `Permissions`, the groups an
audit is started for), not in `AuditPolicy`.

## Plan

1. Runs with two processes under the hypotheses of the theorems, which the bounds of
   the runs leave no room for now.
2. `AuditPolicy` with handlers that answer from a graph of the past.
3. Names in `Notices`, and memberships between groups in `MailQueue`.
4. API workers that are forked after the refresh thread has started.
