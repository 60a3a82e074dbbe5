--------------------------- MODULE Accounts_proofs ---------------------------
(***************************************************************************)
(* Proofs about Accounts, for every number of accounts, groups and         *)
(* processes: disabled tokens; and, as long as no two processes do what    *)
(* each of them has found undone, role users and their groups, the owners  *)
(* of service accounts, and the grants of those that change hands.         *)
(***************************************************************************)
EXTENDS Accounts, FiniteSetTheorems, TLAPS

Ops == {"none", "create", "own", "loadGroup", "loadMemberships", "disable",
        "disableService", "enable", "enableService", "grant", "convert", "group",
        "insert", "delete", "addToken", "disableToken"}

\* The operations of an account that is named, and those that read or write the
\* flags of an account that is there.
AccountOps == {"create", "own", "loadGroup", "loadMemberships", "disable",
               "disableService", "enable", "enableService", "grant", "convert"}
Toggles == {"loadGroup", "loadMemberships", "disable", "enable"}

\* What is left of a handler has the fields of its kind.
LEMMA WriteFields ==
    ASSUME NEW w \in Write
    PROVE  /\ w.op \in Ops
           /\ w.op \in AccountOps => w.account \in Accounts
           /\ w.op \in {"create", "own", "loadMemberships", "disable", "disableService",
                        "enable"} => w.groups \in SUBSET Groups
           /\ w.op \in {"create", "own"} => w.items \in SUBSET Rows
           /\ w.op \in Toggles \union {"disableService", "enableService"}
                => w.write \in BOOLEAN
           /\ w.op = "loadGroup" => w.to \in BOOLEAN /\ w.preserve \in BOOLEAN
           /\ w.op \in {"enable", "enableService"} => w.revoked \in SUBSET Edges
           /\ w.op \in {"enableService", "convert", "group"} => w.group \in Groups
           /\ w.op \in {"insert", "delete"} => w.credential \in Rows
           /\ w.op \in {"addToken", "disableToken"} => w.token \in Tokens
<1> USE DEF Ops, AccountOps, Toggles
<1>1. CASE w = Nothing
  BY <1>1 DEF Nothing
<1>2. CASE w \in [op : {"create", "own"}, account : Accounts, groups : SUBSET Groups,
                  items : SUBSET Rows]
  BY <1>2
<1>3. CASE w \in [op : {"loadGroup"}, account : Accounts, to : BOOLEAN,
                  preserve : BOOLEAN, write : BOOLEAN]
  BY <1>3
<1>4. CASE w \in [op : {"loadMemberships", "disable", "disableService"},
                  account : Accounts, write : BOOLEAN, groups : SUBSET Groups]
  BY <1>4
<1>5. CASE w \in [op : {"enable"}, account : Accounts, write : BOOLEAN,
                  groups : SUBSET Groups, revoked : SUBSET Edges]
  BY <1>5
<1>6. CASE w \in [op : {"enableService"}, account : Accounts, write : BOOLEAN,
                  group : Groups, revoked : SUBSET Edges]
  BY <1>6
<1>7. CASE w \in [op : {"grant"}, account : Accounts]
  BY <1>7
<1>8. CASE w \in [op : {"convert"}, account : Accounts, group : Groups,
                  cancelled : SUBSET (Accounts \X Groups)]
  BY <1>8
<1>9. CASE w \in [op : {"group"}, group : Groups, to : BOOLEAN]
  BY <1>9
<1>10. CASE w \in [op : {"insert", "delete"}, credential : Rows]
  BY <1>10
<1>11. CASE w \in [op : {"addToken", "disableToken"}, token : Tokens]
  BY <1>11
<1> QED
  BY <1>1, <1>2, <1>3, <1>4, <1>5, <1>6, <1>7, <1>8, <1>9, <1>10, <1>11 DEF Write

-----------------------------------------------------------------------------
(* What the handlers have read.                                            *)

OwnGroup(a) == IF a \in RoleUsers THEN {RoleGroup[a]} ELSE {}

\* What no other process undoes: an account that is created is no role user, the
\* group of a role user is toggled with it alone, and once a service account always
\* a service account.
SafeWrite(w) ==
    /\ w.op \in {"create", "own"} =>
          w.account \notin RoleUsers /\ \E g \in Groups : w.groups = {g}
    /\ w.op \in {"own", "disableService", "enableService"} => users[w.account].services > 0
    /\ w.op = "loadGroup" => w.account \in RoleUsers
    /\ w.op \in {"loadMemberships", "disable", "enable"} => w.groups \subseteq OwnGroup(w.account)
    /\ w.op = "group" => \A r \in RoleUsers : RoleGroup[r] # w.group

\* The account that is given an owner has none.
Ready(w) ==
    /\ w.op = "convert" => users[w.account].row /\ users[w.account].services = 0
    /\ w.op \in {"enableService", "own"} => OwnersOf(w.account) = {}

\* The account that is granted to has one.
Seen(w) == w.op = "grant" => OwnersOf(w.account) # {}

\* The flags of a role user and its group are as they were loaded, and a disabled
\* group does not list the role user among its members.
Fresh(w) ==
    w.op \in Toggles /\ w.account \in RoleUsers /\ users[w.account].services = 0 =>
       LET a == w.account
       IN  /\ w.op = "loadGroup" => (w.write <=> (users[a].enabled # w.to))
           /\ w.op = "disable" =>
                 (w.write <=> users[a].enabled) /\ w.groups = {RoleGroup[a]} \cap enabledGroups
           /\ w.op \in {"enable", "loadMemberships"} =>
                 (w.write <=> ~users[a].enabled) /\ w.groups = {RoleGroup[a]} \ enabledGroups
           /\ w.op = "enable" /\ RoleGroup[a] \notin enabledGroups =>
                 <<RoleGroup[a], a, "member">> \notin w.revoked

IInv == TypeOK /\ \A p \in Procs : SafeWrite(txn[p])

\* A process reads, and what it keeps of it is true.
Reads(p) ==
    \E w \in Write : /\ SafeWrite(w) /\ Ready(w) /\ Seen(w) /\ (Fresh(txn[p]) => Fresh(w))
                     /\ Continue(p, w)

\* The same of a handler that begins.
LEMMA BeginReads ==
    ASSUME TypeOK, NEW p \in Procs, NEW w \in Write,
           SafeWrite(w), Ready(w), Seen(w), Fresh(w), Begin(p, w)
    PROVE  Reads(p)
<1>1. Continue(p, w)
  BY DEF Begin, Continue
<1> QED
  BY <1>1 DEF Reads

LEMMA DisableReads ==
    ASSUME AccountsAssumption, TypeOK, NEW p \in Procs, NEW a \in Accounts, DisableUser(p, a)
    PROVE  Reads(p)
<1>u. users[a].enabled \in BOOLEAN
  BY DEF TypeOK, User
<1>1. CASE a \in RoleUsers
  <2> DEFINE w == [op |-> "loadGroup", account |-> a, to |-> FALSE, preserve |-> TRUE,
                   write |-> users[a].enabled]
  <2>1. w \in Write
    BY <1>u DEF Write
  <2>2. SafeWrite(w) /\ Ready(w) /\ Seen(w)
    BY <1>1 DEF SafeWrite, Ready, Seen
  <2>3. Fresh(w)
    BY <1>u DEF Fresh
  <2>4. Begin(p, w)
    BY <1>1 DEF DisableUser
  <2> QED
    BY <2>1, <2>2, <2>3, <2>4, BeginReads
<1>2. CASE a \notin RoleUsers
  <2> DEFINE w == [op |-> "disable", account |-> a, write |-> users[a].enabled, groups |-> {}]
  <2>1. w \in Write
    BY <1>u DEF Write
  <2>2. SafeWrite(w) /\ Ready(w) /\ Seen(w) /\ Fresh(w)
    BY <1>2 DEF SafeWrite, Ready, Seen, Fresh
  <2>3. Begin(p, w)
    BY <1>2 DEF DisableUser
  <2> QED
    BY <2>1, <2>2, <2>3, BeginReads
<1> QED
  BY <1>1, <1>2

LEMMA EnableReads ==
    ASSUME AccountsAssumption, TypeOK, NEW p \in Procs, NEW a \in Accounts,
           NEW preserve \in BOOLEAN, EnableUser(p, a, preserve)
    PROVE  Reads(p)
<1>u. users[a].enabled \in BOOLEAN
  BY DEF TypeOK, User
<1>1. CASE a \in RoleUsers
  <2> DEFINE w == [op |-> "loadGroup", account |-> a, to |-> TRUE, preserve |-> preserve,
                   write |-> ~users[a].enabled]
  <2>1. w \in Write
    BY <1>u DEF Write
  <2>2. SafeWrite(w) /\ Ready(w) /\ Seen(w)
    BY <1>1 DEF SafeWrite, Ready, Seen
  <2>3. Fresh(w)
    BY <1>u DEF Fresh
  <2>4. Begin(p, w)
    BY <1>1 DEF EnableUser
  <2> QED
    BY <2>1, <2>2, <2>3, <2>4, BeginReads
<1>2. CASE a \notin RoleUsers
  <2> DEFINE v == [op |-> "enable", account |-> a, write |-> ~users[a].enabled,
                   groups |-> {}, revoked |-> {}]
             w == [op |-> "loadMemberships", account |-> a, write |-> ~users[a].enabled,
                   groups |-> {}]
  <2>1. v \in Write /\ w \in Write
    BY <1>u DEF Write
  <2>2. SafeWrite(v) /\ Ready(v) /\ Seen(v) /\ Fresh(v)
    BY <1>2 DEF SafeWrite, Ready, Seen, Fresh
  <2>3. SafeWrite(w) /\ Ready(w) /\ Seen(w) /\ Fresh(w)
    BY <1>2 DEF SafeWrite, Ready, Seen, Fresh
  <2>4. Begin(p, v) \/ Begin(p, w)
    BY <1>2 DEF EnableUser
  <2> QED
    BY <2>1, <2>2, <2>3, <2>4, BeginReads
<1> QED
  BY <1>1, <1>2

\* Handlers of service accounts.
LEMMA ServicesRead ==
    ASSUME AccountsAssumption, TypeOK, NEW p \in Procs, NEW s \in Accounts, NEW g \in Groups,
           NEW items \in SUBSET MetadataOf(s), NEW actor,
           \/ ServiceAccountDisable(p, actor, s)
           \/ ServiceAccountEnable(p, actor, s, g)
           \/ ConvertUserToServiceAccount(p, actor, s, g)
           \/ s \in NewServices /\ CreateServiceAccount(p, actor, s, g, items)
           \/ GrantPermissionToServiceAccount(p, s)
    PROVE  Reads(p)
<1>u. /\ users[s].enabled \in BOOLEAN /\ GroupsByUser(s) \in SUBSET Edges
      /\ OwnersOf(s) \in SUBSET Groups
  BY DEF TypeOK, User, GroupsByUser, OwnersOf
<1>1. CASE ServiceAccountDisable(p, actor, s)
  <2> DEFINE w == [op |-> "disableService", account |-> s, write |-> users[s].enabled,
                   groups |-> OwnersOf(s)]
  <2>1. w \in Write
    BY <1>u DEF Write
  <2>2. users[s].services > 0 /\ Begin(p, w)
    BY <1>1 DEF ServiceAccountDisable, CanManageService, IsService
  <2>3. SafeWrite(w) /\ Ready(w) /\ Seen(w) /\ Fresh(w)
    BY <2>2 DEF SafeWrite, Ready, Seen, Fresh, Toggles
  <2> QED
    BY <2>1, <2>2, <2>3, BeginReads
<1>2. CASE ServiceAccountEnable(p, actor, s, g)
  <2> DEFINE w == [op |-> "enableService", account |-> s, write |-> ~users[s].enabled,
                   group |-> g, revoked |-> GroupsByUser(s)]
  <2>1. w \in Write
    BY <1>u DEF Write
  <2>2. users[s].services > 0 /\ OwnersOf(s) = {} /\ Begin(p, w)
    BY <1>2 DEF ServiceAccountEnable, IsService
  <2>3. SafeWrite(w) /\ Ready(w) /\ Seen(w) /\ Fresh(w)
    BY <2>2 DEF SafeWrite, Ready, Seen, Fresh, Toggles
  <2> QED
    BY <2>1, <2>2, <2>3, BeginReads
<1>3. CASE ConvertUserToServiceAccount(p, actor, s, g)
  <2> DEFINE w == [op |-> "convert", account |-> s, group |-> g,
                   cancelled |-> PendingRequestsForUser(s)]
  <2>1. w \in Write
    BY DEF Write, TypeOK, PendingRequestsForUser
  <2>2. users[s].row /\ users[s].services = 0 /\ Begin(p, w)
    BY <1>3 DEF ConvertUserToServiceAccount
  <2>3. SafeWrite(w) /\ Ready(w) /\ Seen(w) /\ Fresh(w)
    BY <2>2 DEF SafeWrite, Ready, Seen, Fresh, Toggles
  <2> QED
    BY <2>1, <2>2, <2>3, BeginReads
<1>4. CASE s \in NewServices /\ CreateServiceAccount(p, actor, s, g, items)
  <2> DEFINE w == [op |-> "create", account |-> s, groups |-> {g}, items |-> items]
  <2>1. w \in Write
    BY DEF Write, MetadataOf
  <2>2. SafeWrite(w) /\ Ready(w) /\ Seen(w) /\ Fresh(w)
    BY <1>4 DEF SafeWrite, Ready, Seen, Fresh, Toggles, AccountsAssumption
  <2>3. Begin(p, w)
    BY <1>4 DEF CreateServiceAccount
  <2> QED
    BY <2>1, <2>2, <2>3, BeginReads
<1>5. CASE GrantPermissionToServiceAccount(p, s)
  <2> DEFINE w == [op |-> "grant", account |-> s]
  <2>1. w \in Write
    BY DEF Write
  <2>2. Begin(p, w) /\ Cardinality(OwnersOf(s)) = 1
    BY <1>5 DEF GrantPermissionToServiceAccount
  <2>3. OwnersOf(s) # {}
    <3>1. \A S : S = {} => Cardinality(S) = 0
      BY FS_EmptySet, Zenon
    <3> QED
      BY <2>2, <3>1
  <2>4. SafeWrite(w) /\ Ready(w) /\ Seen(w) /\ Fresh(w)
    BY <2>3 DEF SafeWrite, Ready, Seen, Fresh, Toggles
  <2> QED
    BY <2>1, <2>2, <2>4, BeginReads
<1> QED
  BY <1>1, <1>2, <1>3, <1>4, <1>5

LEMMA ChangeAccountReads ==
    ASSUME AccountsAssumption, TypeOK, NEW p \in AccountProcs, ChangeAccount(p)
    PROVE  Reads(p)
<1>p. p \in Procs
  BY DEF AccountsAssumption
<1>m. \A s : {} \in SUBSET MetadataOf(s)
  OBVIOUS
<1>e. \A S : Cardinality(S) = 1 => \E g : g \in S
  <2>1. \A S : S = {} => Cardinality(S) = 0
    BY FS_EmptySet, Zenon
  <2> QED
    BY <2>1
<1>1. ASSUME NEW g \in Groups, NEW to \in BOOLEAN, GroupSetEnabled(p, g, to)
      PROVE  Reads(p)
  <2> DEFINE w == [op |-> "group", group |-> g, to |-> to]
  <2>1. w \in Write
    BY DEF Write
  <2>2. SafeWrite(w) /\ Ready(w) /\ Seen(w) /\ Fresh(w)
    BY <1>1 DEF SafeWrite, Ready, Seen, Fresh, Toggles, GroupSetEnabled
  <2>3. Begin(p, w)
    BY <1>1 DEF GroupSetEnabled
  <2> QED
    BY <1>p, <2>1, <2>2, <2>3, BeginReads
<1>2. CASE \E a \in Accounts, preserve \in BOOLEAN :
             DisableUser(p, a) \/ EnableUser(p, a, preserve)
  BY <1>p, <1>2, DisableReads, EnableReads
<1>3. CASE \E actor \in Actors, s \in Accounts : ServiceAccountDisable(p, actor, s)
  <2>1. PICK s \in Accounts : Cardinality(OwnersOf(s)) = 1
                              /\ \E actor \in Actors : ServiceAccountDisable(p, actor, s)
    BY <1>3 DEF ServiceAccountDisable
  <2>2. PICK g \in Groups : g \in OwnersOf(s)
    BY <1>e, <2>1 DEF OwnersOf
  <2> QED
    BY <1>p, <1>m, <2>1, <2>2, ServicesRead
<1>4. CASE \E actor \in Actors, s \in Accounts, g \in Groups :
             \/ ServiceAccountEnable(p, actor, s, g)
             \/ ConvertUserToServiceAccount(p, actor, s, g)
             \/ \E items \in SUBSET MetadataOf(s) :
                   s \in NewServices /\ CreateServiceAccount(p, actor, s, g, items)
  BY <1>p, <1>m, <1>4, ServicesRead
<1>5. CASE \E s \in Accounts : GrantPermissionToServiceAccount(p, s)
  <2>1. PICK s \in Accounts : Cardinality(OwnersOf(s)) = 1
                              /\ GrantPermissionToServiceAccount(p, s)
    BY <1>5 DEF GrantPermissionToServiceAccount
  <2>2. PICK g \in Groups : g \in OwnersOf(s)
    BY <1>e, <2>1 DEF OwnersOf
  <2> QED
    BY <1>p, <1>m, <2>1, <2>2, ServicesRead
<1> QED
  BY <1>1, <1>2, <1>3, <1>4, <1>5 DEF ChangeAccount, CtlUser, UserEnable, UserDisable

\* So does every handler of credentials.
LEMMA ChangeCredentialsReads ==
    ASSUME TypeOK, NEW p \in Procs, ChangeCredentials(p)
    PROVE  Reads(p)
<1>1. ASSUME NEW r \in Rows, NEW op \in {"insert", "delete"},
             Begin(p, [op |-> op, credential |-> r])
      PROVE  Reads(p)
  <2> DEFINE w == [op |-> op, credential |-> r]
  <2>1. w \in Write
    BY DEF Write
  <2>2. SafeWrite(w) /\ Ready(w) /\ Seen(w) /\ Fresh(w)
    BY DEF SafeWrite, Ready, Seen, Fresh, Toggles
  <2> QED
    BY <1>1, <2>1, <2>2, BeginReads
<1>2. ASSUME NEW t \in Tokens, NEW op \in {"addToken", "disableToken"},
             Begin(p, [op |-> op, token |-> t])
      PROVE  Reads(p)
  <2> DEFINE w == [op |-> op, token |-> t]
  <2>1. w \in Write
    BY DEF Write
  <2>2. SafeWrite(w) /\ Ready(w) /\ Seen(w) /\ Fresh(w)
    BY DEF SafeWrite, Ready, Seen, Fresh, Toggles
  <2> QED
    BY <1>2, <2>1, <2>2, BeginReads
<1>3. \/ \E r \in Rows : \/ Begin(p, [op |-> "insert", credential |-> r])
                        \/ Begin(p, [op |-> "delete", credential |-> r])
      \/ \E t \in Tokens : \/ Begin(p, [op |-> "addToken", token |-> t])
                          \/ Begin(p, [op |-> "disableToken", token |-> t])
  BY DEF ChangeCredentials, AddCredential, DeleteCredential, UserTokenAdd, UserTokenDisable
<1> QED
  BY <1>1, <1>2, <1>3

\* The queries for the group and the memberships of a role user.
LEMMA LoadsRead ==
    ASSUME AccountsAssumption, IInv, NEW p \in Procs, LoadGroup(p) \/ LoadMemberships(p)
    PROVE  Reads(p)
<1>t. txn[p] \in Write /\ SafeWrite(txn[p])
  BY DEF IInv, TypeOK
<1>1. CASE LoadGroup(p)
  <2> DEFINE a == txn[p].account
             g == RoleGroup[txn[p].account]
             d == [op |-> "disable", account |-> a, write |-> txn[p].write,
                   groups |-> {g} \cap enabledGroups]
             e == [op |-> "enable", account |-> a, write |-> txn[p].write,
                   groups |-> {g} \ enabledGroups, revoked |-> {}]
             m == [op |-> "loadMemberships", account |-> a, write |-> txn[p].write,
                   groups |-> {g} \ enabledGroups]
  <2>1. /\ txn[p].op = "loadGroup" /\ a \in Accounts /\ a \in RoleUsers
        /\ txn[p].write \in BOOLEAN /\ g \in Groups /\ txn[p].to \in BOOLEAN
    BY <1>1, <1>t, WriteFields DEF LoadGroup, SafeWrite, AccountOps, Toggles, AccountsAssumption
  <2>2. d \in Write /\ e \in Write /\ m \in Write
    BY <2>1 DEF Write
  <2>3. SafeWrite(d) /\ SafeWrite(e) /\ SafeWrite(m)
    BY <2>1 DEF SafeWrite, OwnGroup
  <2>4. Ready(d) /\ Ready(e) /\ Ready(m) /\ Seen(d) /\ Seen(e) /\ Seen(m)
    BY DEF Ready, Seen
  <2>5. \/ ~txn[p].to /\ Continue(p, d)
        \/ txn[p].to /\ (Continue(p, e) \/ Continue(p, m))
    BY <1>1, <2>1 DEF LoadGroup
  <2>6. users[a].enabled \in BOOLEAN
    BY <2>1 DEF IInv, TypeOK, User
  <2>7. Fresh(txn[p]) /\ ~txn[p].to => Fresh(d)
    BY <2>1, <2>6 DEF Fresh, Toggles
  <2>8. Fresh(txn[p]) /\ txn[p].to => Fresh(e) /\ Fresh(m)
    BY <2>1, <2>6 DEF Fresh, Toggles
  <2> HIDE DEF d, e, m
  <2> QED
    BY <2>2, <2>3, <2>4, <2>5, <2>7, <2>8 DEF Reads
<1>2. CASE LoadMemberships(p)
  <2> DEFINE a == txn[p].account
             w == [op |-> "enable", account |-> a, write |-> txn[p].write,
                   groups |-> txn[p].groups, revoked |-> GroupsByUser(a)]
  <2>1. /\ txn[p].op = "loadMemberships" /\ a \in Accounts /\ txn[p].write \in BOOLEAN
        /\ txn[p].groups \in SUBSET Groups /\ GroupsByUser(a) \in SUBSET Edges
    BY <1>2, <1>t, WriteFields
    DEF LoadMemberships, AccountOps, Toggles, GroupsByUser, IInv, TypeOK
  <2>2. w \in Write
    BY <2>1 DEF Write
  <2>3. SafeWrite(w) /\ Ready(w) /\ Seen(w)
    BY <1>t, <2>1 DEF SafeWrite, Ready, Seen
  <2>4. RoleGroup[a] \notin enabledGroups => <<RoleGroup[a], a, "member">> \notin w.revoked
    BY DEF GroupsByUser
  <2>5. Fresh(txn[p]) => Fresh(w)
    BY <2>1, <2>4 DEF Fresh, Toggles
  <2>6. Continue(p, w)
    BY <1>2 DEF LoadMemberships
  <2> QED
    BY <2>2, <2>3, <2>5, <2>6 DEF Reads
<1> QED
  BY <1>1, <1>2

\* A step that commits nothing and reads nothing.
Quiet ==
    /\ UNCHANGED <<users, enabledGroups, owners, granted, credentials, tokens>>
    /\ edges' \subseteq Edges /\ pending' \subseteq Accounts \X Groups
    /\ txn' \in [Procs -> Write]
    /\ \A p \in Procs : txn'[p] = txn[p] \/ txn'[p] = Nothing

\* The steps of the specification.
LEMMA Steps ==
    ASSUME AccountsAssumption, IInv, [Next]_vars
    PROVE  \/ \E p \in Procs : Reads(p) \/ Commit(p) \/ CommitItem(p)
           \/ Quiet
<1>t. txn \in [Procs -> Write] /\ Nothing \in Write
  BY DEF IInv, TypeOK, Write
<1>1. CASE \E p \in AccountProcs : ChangeAccount(p)
  BY <1>1, ChangeAccountReads DEF AccountsAssumption, IInv
<1>2. CASE \E p \in Procs : ChangeCredentials(p)
  BY <1>2, ChangeCredentialsReads DEF IInv
<1>3. CASE \E p \in Procs : LoadGroup(p) \/ LoadMemberships(p)
  BY <1>3, LoadsRead
<1>4. CASE \E p \in Procs : Rollback(p)
  BY <1>t, <1>4 DEF Rollback, Quiet, tables, IInv, TypeOK
<1>5. CASE \/ \E e \in Joinable : ChangeMembership(e)
           \/ \E q \in Requestable : ChangeRequest(q)
  BY <1>t, <1>5 DEF ChangeMembership, ChangeRequest, Quiet, AccountsAssumption, Edges, IInv,
                    TypeOK
<1>6. CASE UNCHANGED vars
  BY <1>t, <1>6 DEF vars, tables, Quiet, IInv, TypeOK
<1> QED
  BY <1>1, <1>2, <1>3, <1>4, <1>5, <1>6 DEF Next

-----------------------------------------------------------------------------
(* What the commits do.                                                    *)

\* The row of an account after a commit of w.
Becomes(w, a) ==
    IF w.op \notin AccountOps \/ w.account # a THEN users[a]
    ELSE IF w.op = "create" THEN NewService
    ELSE IF w.op \in {"disable", "disableService"} /\ w.write
    THEN [users[a] EXCEPT !.enabled = FALSE]
    ELSE IF w.op \in {"enable", "enableService"} /\ w.write
    THEN [users[a] EXCEPT !.enabled = TRUE]
    ELSE IF w.op = "convert" THEN [users[a] EXCEPT !.services = @ + 1, !.enabled = TRUE]
    ELSE users[a]

LEMMA CommitUsers ==
    ASSUME TypeOK, NEW p \in Procs, NEW w \in Write, w = txn[p], Commit(p) \/ CommitItem(p)
    PROVE  /\ \A a \in Accounts : users'[a] = Becomes(w, a)
           /\ users' \in [Accounts -> User]
           /\ w.op = "create" => ~users[w.account].row
<1>t. users \in [Accounts -> User]
  BY DEF TypeOK
<1>f. w.op \in AccountOps => w.account \in Accounts
  BY WriteFields
<1>1. /\ \A a \in Accounts : users'[a] = Becomes(w, a)
      /\ users' = [a \in Accounts |-> users'[a]]
      /\ w.op = "create" => ~users[w.account].row
  <2>1. CASE Commit(p) /\ CommitCredential(w)
    BY <1>t, <2>1 DEF CommitCredential, CommitInsert, CommitDelete, CommitAddToken,
                      CommitDisableToken, tables, Becomes, AccountOps
  <2>2. CASE w.op = "create" /\ users' = [users EXCEPT ![w.account] = NewService]
             /\ ~users[w.account].row
    BY <1>t, <1>f, <2>2 DEF Becomes, AccountOps
  <2>3. CASE w.op \in {"own", "group", "grant"} /\ users' = users
    BY <1>t, <1>f, <2>3 DEF Becomes, AccountOps
  <2>4. CASE w.op \in {"disable", "disableService"} /\ SetEnabled(w, FALSE)
    BY <1>t, <1>f, <2>4 DEF Becomes, AccountOps, SetEnabled
  <2>5. CASE w.op \in {"enable", "enableService"} /\ SetEnabled(w, TRUE)
    BY <1>t, <1>f, <2>5 DEF Becomes, AccountOps, SetEnabled
  <2>6. CASE w.op = "convert" /\ CommitConvert(w)
    BY <1>t, <1>f, <2>6 DEF Becomes, AccountOps, CommitConvert, User
  <2> QED
    BY <2>1, <2>2, <2>3, <2>4, <2>5, <2>6
    DEF Commit, CommitItem, CommitAccount, CommitCreate, CommitOwn, CommitDisable,
        CommitEnable, CommitDisableService, CommitEnableService, CommitGroup, CommitGrant
<1>2. \A a \in Accounts : Becomes(w, a) \in User
  <2>1. \A u \in User, b \in BOOLEAN :
           /\ [u EXCEPT !.enabled = b] \in User
           /\ [u EXCEPT !.services = @ + 1, !.enabled = b] \in User
    <3>1. \A u \in User, b \in BOOLEAN : [u EXCEPT !.enabled = b] \in User
      BY DEF User
    <3>2. \A u \in User : [u EXCEPT !.services = @ + 1] \in User
      BY DEF User
    <3>3. \A u \in User, b \in BOOLEAN :
             [u EXCEPT !.services = @ + 1, !.enabled = b] =
             [[u EXCEPT !.services = @ + 1] EXCEPT !.enabled = b]
      BY DEF User
    <3> QED
      BY <3>1, <3>2, <3>3
  <2>2. NewService \in User
    BY DEF NewService, User
  <2>3. \A a \in Accounts : users[a] \in User
    BY <1>t
  <2> QED
    BY <2>1, <2>2, <2>3 DEF Becomes
<1> QED
  BY <1>1, <1>2

\* Once a row, always a row, and once a service account, always one.
LEMMA RowsStay ==
    ASSUME TypeOK, NEW p \in Procs, Commit(p) \/ CommitItem(p), NEW a \in Accounts
    PROVE  /\ users[a].row => users'[a].row
           /\ users[a].services > 0 => users'[a].services > 0
<1>1. users[a] \in User /\ txn[p] \in Write
  BY DEF TypeOK
<1>2. users'[a] = Becomes(txn[p], a)
  BY <1>1, CommitUsers
<1> QED
  BY <1>1, <1>2 DEF Becomes, User, NewService

\* The owners of an account after a commit of w, whose first metadata may take
\* the account along and leave its owner for later.
LEMMA CommitOwners ==
    ASSUME TypeOK, NEW p \in Procs, NEW w \in Write, w = txn[p], NEW a \in Accounts,
           Commit(p) \/ CommitItem(p)
    PROVE  /\ \/ OwnersOf(a)' = OwnersOf(a)
              \/ w.account = a /\ w.op = "disableService"
                 /\ OwnersOf(a)' \subseteq OwnersOf(a) /\ a \notin granted'
              \/ w.account = a /\ w.op \in {"create", "own"}
                 /\ OwnersOf(a)' = OwnersOf(a) \union w.groups
              \/ w.account = a /\ w.op \in {"enableService", "convert"}
                 /\ OwnersOf(a)' = OwnersOf(a) \union {w.group}
           /\ granted' \subseteq granted
              \/ (w.op = "grant" /\ granted' = granted \union {w.account} /\ owners' = owners)
<1>f. /\ w.op \in {"create", "own", "disableService"} => w.groups \subseteq Groups
      /\ w.op \in {"enableService", "convert"} => w.group \in Groups
  BY WriteFields
<1>1. CASE owners' = owners
  BY <1>1 DEF OwnersOf, Commit, CommitItem, CommitAccount, CommitCreate, CommitOwn, CommitDisable,
              CommitEnable, CommitDisableService, CommitEnableService, CommitConvert, CommitGroup,
              CommitGrant, CommitCredential, CommitInsert, CommitDelete, CommitAddToken,
              CommitDisableToken, tables
<1>2. CASE w.op = "disableService" /\ CommitDisableService(w)
  BY <1>2 DEF CommitDisableService, OwnersOf
<1>3. CASE w.op \in {"create", "own"} /\ granted' = granted
           /\ owners' = owners \union {<<w.account, g>> : g \in w.groups}
  BY <1>3, <1>f DEF OwnersOf
<1>4. CASE w.op \in {"enableService", "convert"} /\ granted' = granted
           /\ owners' = owners \union {<<w.account, w.group>>}
  BY <1>4, <1>f DEF OwnersOf
<1> QED
  BY <1>1, <1>2, <1>3, <1>4
  DEF Commit, CommitItem, CommitAccount, CommitCreate, CommitOwn, CommitDisable,
      CommitEnable, CommitEnableService, CommitConvert, CommitGroup,
      CommitGrant, CommitCredential, CommitInsert, CommitDelete, CommitAddToken,
      CommitDisableToken, tables

\* A commit is the last of its handler, except one of metadata before the account
\* has its owner.
LEMMA CommitLeaves ==
    ASSUME TypeOK, NEW p \in Procs, NEW w \in Write, w = txn[p], Commit(p) \/ CommitItem(p)
    PROVE  /\ txn' \in [Procs -> Write]
           /\ \A q \in Procs \ {p} : txn'[q] = txn[q]
           /\ \/ txn'[p] = Nothing
              \/ /\ CommitItem(p) /\ w.op \in {"create", "own"} /\ txn'[p].op = "own"
                 /\ txn'[p].account = w.account /\ txn'[p].groups = w.groups
                 /\ owners' = owners
<1>1. CASE Commit(p)
  BY <1>1 DEF Commit, TypeOK, Write
<1>2. CASE CommitItem(p)
  <2>1. PICK r \in w.items : txn' = [txn EXCEPT ![p] = [w EXCEPT !.op = "own", !.items = @ \ {r}]]
    BY <1>2 DEF CommitItem
  <2>2. w.op \in {"create", "own"} /\ owners' = owners
    BY <1>2 DEF CommitItem
  <2>3. w \in [op : {"create", "own"}, account : Accounts, groups : SUBSET Groups,
               items : SUBSET Rows]
    BY <2>2 DEF Write, Nothing
  <2>4. [w EXCEPT !.op = "own", !.items = @ \ {r}] \in
           [op : {"create", "own"}, account : Accounts, groups : SUBSET Groups,
            items : SUBSET Rows]
    BY <2>3
  <2>5. [w EXCEPT !.op = "own", !.items = @ \ {r}] \in Write
    BY <2>4 DEF Write
  <2> QED
    BY <1>2, <2>1, <2>2, <2>3, <2>5 DEF TypeOK
<1> QED
  BY <1>1, <1>2

-----------------------------------------------------------------------------
(* Type correctness.                                                       *)

LEMMA InitKeeps == AccountsAssumption /\ Init => IInv
<1> SUFFICES ASSUME AccountsAssumption, Init
             PROVE  IInv
  OBVIOUS
<1>1. TypeOK
  <2>1. users \in [Accounts -> User]
    BY DEF Init, User
  <2>2. txn \in [Procs -> Write]
    BY DEF Init, Write, Nothing
  <2>3. edges \subseteq Edges
    BY DEF Init, Edges, AccountsAssumption
  <2> QED
    BY <2>1, <2>2, <2>3 DEF Init, TypeOK
<1>2. \A p \in Procs : SafeWrite(txn[p])
  BY DEF Init, SafeWrite, Nothing
<1> QED
  BY <1>1, <1>2 DEF IInv

LEMMA NextKeeps ==
    ASSUME AccountsAssumption, IInv, [Next]_vars
    PROVE  IInv'
<1>t. TypeOK /\ txn \in [Procs -> Write]
  BY DEF IInv, TypeOK
<1>1. ASSUME NEW p \in Procs, Reads(p)
      PROVE  IInv'
  <2>1. PICK w \in Write : SafeWrite(w) /\ Continue(p, w)
    BY <1>1 DEF Reads
  <2>2. TypeOK'
    BY <1>t, <2>1 DEF Continue, TypeOK, tables
  <2>3. \A q \in Procs : txn'[q] = txn[q] \/ txn'[q] = w
    BY <1>t, <2>1 DEF Continue
  <2>4. \A q \in Procs : SafeWrite(txn[q])'
    BY <2>1, <2>3 DEF Continue, tables, SafeWrite, IInv, OwnGroup
  <2> QED
    BY <2>2, <2>4 DEF IInv
<1>2. ASSUME NEW p \in Procs, Commit(p) \/ CommitItem(p)
      PROVE  IInv'
  <2> DEFINE w == txn[p]
  <2>w. w \in Write /\ SafeWrite(w)
    BY <1>t DEF IInv
  <2> HIDE DEF w
  <2>d. w = txn[p]
    BY DEF w
  <2>u. users' \in [Accounts -> User] /\ txn' \in [Procs -> Write]
    BY <1>t, <1>2, <2>w, <2>d, CommitUsers, CommitLeaves
  <2>1. /\ enabledGroups' \subseteq Groups /\ edges' \subseteq Edges
        /\ pending' \subseteq Accounts \X Groups /\ owners' \subseteq Accounts \X Groups
        /\ granted' \subseteq Accounts
    <3>1. /\ w.op \in {"create", "own", "disable", "disableService", "enable"} =>
                w.groups \subseteq Groups
          /\ w.op \in AccountOps => w.account \in Accounts
          /\ w.op \in {"enableService", "convert", "group"} => w.group \in Groups
      BY <2>w, WriteFields
    <3> USE <3>1 DEF TypeOK, AccountOps
    <3>2. CASE CommitItem(p)
      BY <1>t, <3>2 DEF CommitItem
    <3>3. CASE CommitCredential(w)
      BY <1>t, <3>3 DEF CommitCredential, CommitInsert, CommitDelete, CommitAddToken,
                        CommitDisableToken, tables
    <3>4. CASE \/ w.op = "create" /\ CommitCreate(w)
               \/ w.op = "own" /\ CommitOwn(w)
      BY <1>t, <3>4 DEF CommitCreate, CommitOwn
    <3>5. CASE \/ w.op = "disable" /\ CommitDisable(w)
               \/ w.op = "enable" /\ CommitEnable(w)
      BY <1>t, <3>5 DEF CommitDisable, CommitEnable
    <3>6. CASE w.op = "disableService" /\ CommitDisableService(w)
      BY <1>t, <3>6 DEF CommitDisableService
    <3>7. CASE w.op = "enableService" /\ CommitEnableService(w)
      BY <1>t, <3>7 DEF CommitEnableService
    <3>9. CASE w.op = "convert" /\ CommitConvert(w)
      BY <1>t, <3>9 DEF CommitConvert
    <3>8. CASE \/ w.op = "group" /\ CommitGroup(w)
               \/ w.op = "grant" /\ CommitGrant(w)
      BY <1>t, <3>8 DEF CommitGroup, CommitGrant
    <3> QED
      <4>1. CommitItem(p) \/ CommitAccount(w) \/ CommitCredential(w)
        BY <1>2, <2>d DEF Commit
      <4> QED
        BY <4>1, <3>2, <3>3, <3>4, <3>5, <3>6, <3>7, <3>8, <3>9 DEF CommitAccount
  <2>2. credentials' \in [Rows -> Nat] /\ tokens' \in [Tokens -> {"absent", "usable", "disabled"}]
    <3>1. w.op \in {"create", "own"} => w.items \subseteq Rows
      BY <2>w, WriteFields
    <3>2. CASE CommitItem(p)
      <4>1. PICK r \in w.items :
               credentials' = [credentials EXCEPT ![r] = IF @ = 0 THEN @ + 1 ELSE @]
        BY <2>d, <3>2 DEF CommitItem
      <4> QED
        BY <1>t, <2>d, <3>1, <3>2, <4>1 DEF CommitItem, TypeOK
    <3>3. CASE Commit(p) /\ w.op = "insert" /\ CommitInsert(w)
      <4>1. w.credential \in Rows
        BY <2>w, <3>3, WriteFields
      <4> QED
        BY <1>t, <3>3, <4>1 DEF CommitInsert, TypeOK
    <3>4. CASE Commit(p) /\ w.op = "delete" /\ CommitDelete(w)
      BY <1>t, <3>4 DEF CommitDelete, TypeOK
    <3>5. CASE Commit(p) /\ w.op = "addToken" /\ CommitAddToken(w)
      BY <1>t, <3>5 DEF CommitAddToken, TypeOK
    <3>6. CASE Commit(p) /\ w.op = "disableToken" /\ CommitDisableToken(w)
      BY <1>t, <3>6 DEF CommitDisableToken, TypeOK
    <3>7. CASE Commit(p) /\ CommitAccount(w)
      BY <1>t, <3>7 DEF CommitAccount, TypeOK
    <3> QED
      BY <1>2, <2>d, <3>2, <3>3, <3>4, <3>5, <3>6, <3>7 DEF Commit, CommitCredential
  <2>3. TypeOK'
    BY <2>u, <2>1, <2>2 DEF TypeOK
  <2>4. ASSUME NEW q \in Procs
        PROVE  SafeWrite(txn[q])'
    <3>1. CASE txn'[q] = txn[q]
      <4>1. txn[q] \in Write /\ SafeWrite(txn[q])
        BY <1>t DEF IInv
      <4>2. txn[q].op \in AccountOps => txn[q].account \in Accounts
        BY <4>1, WriteFields
      <4>3. txn[q].op \in {"own", "disableService", "enableService"} =>
               users'[txn[q].account].services > 0
        BY <1>t, <1>2, <4>1, <4>2, RowsStay DEF SafeWrite, AccountOps
      <4> QED
        BY <3>1, <4>1, <4>3 DEF SafeWrite, OwnGroup
    <3>2. CASE q = p /\ txn'[p] = Nothing
      BY <3>2 DEF SafeWrite, Nothing
    <3>3. CASE q = p /\ w.op \in {"create", "own"} /\ txn'[p].op = "own"
               /\ txn'[p].account = w.account /\ txn'[p].groups = w.groups
      <4>1. w.account \in Accounts /\ w.account \notin RoleUsers
            /\ \E g \in Groups : w.groups = {g}
        BY <2>w, <3>3, WriteFields DEF SafeWrite, AccountOps
      <4>2. users'[w.account] = Becomes(w, w.account)
        BY <1>t, <1>2, <2>w, <2>d, <4>1, CommitUsers
      <4>3. users'[w.account].services > 0
        BY <1>t, <1>2, <2>w, <2>d, <3>3, <4>1, <4>2, RowsStay
        DEF Becomes, NewService, AccountOps, SafeWrite
      <4> QED
        BY <3>3, <4>1, <4>3 DEF SafeWrite
    <3> QED
      BY <1>t, <1>2, <2>w, <2>d, <3>1, <3>2, <3>3, CommitLeaves
  <2> QED
    BY <2>3, <2>4 DEF IInv
<1>3. CASE Quiet
  <2>1. TypeOK'
    BY <1>t, <1>3 DEF Quiet, TypeOK
  <2>2. \A q \in Procs : SafeWrite(txn[q])'
    BY <1>3 DEF Quiet, IInv, SafeWrite, OwnGroup, Nothing
  <2> QED
    BY <2>1, <2>2 DEF IInv
<1> QED
  BY <1>1, <1>2, <1>3, Steps

LEMMA Invariance == Spec => []IInv
<1>1. Init => IInv
  BY InitKeeps, AccountsAssumption
<1>2. IInv /\ [Next]_vars => IInv'
  BY NextKeeps, AccountsAssumption
<1> QED
  BY <1>1, <1>2, PTL DEF Spec

\* The tables and what the handlers have left to do have their types.
THEOREM TypeCorrect == Spec => []TypeOK
<1>1. IInv => TypeOK
  BY DEF IInv
<1> QED
  BY <1>1, Invariance, PTL


-----------------------------------------------------------------------------
(* Role users and their groups.                                            *)

\* Both toggle the same role user.
BothToggle(v, w) ==
    {v.op, w.op} \subseteq Toggles /\ v.account = w.account /\ v.account \in RoleUsers

\* No two processes at work disable or enable the same role user.
RolesApart == \A p, q \in Procs : BothToggle(txn[p], txn[q]) => p = q

RoleInv ==
    /\ RoleUserMatchesItsGroup
    /\ \A p \in Procs : Fresh(txn[p])

\* A commit leaves a role user alone that it does not toggle, unless it converts
\* the user.
LEMMA Untouched ==
    ASSUME AccountsAssumption, IInv, NEW p \in Procs, Commit(p) \/ CommitItem(p),
           NEW r \in RoleUsers, users'[r].services = 0,
           txn[p].op \in Toggles => txn[p].account # r
    PROVE  /\ users[r].services = 0
           /\ users'[r] = users[r]
           /\ RoleGroup[r] \in enabledGroups' <=> RoleGroup[r] \in enabledGroups
<1>r. /\ r \in Accounts
      /\ \A s \in RoleUsers : RoleGroup[s] = RoleGroup[r] => s = r
  BY DEF AccountsAssumption
<1>t. /\ TypeOK /\ txn[p] \in Write /\ SafeWrite(txn[p]) /\ users[r] \in User
  BY <1>r DEF IInv, TypeOK
<1>1. users'[r] = Becomes(txn[p], r)
  BY <1>r, <1>t, CommitUsers
<1>2. users[r].services = 0
  BY <1>r, <1>t, RowsStay DEF User
<1>3. users'[r] = users[r]
  BY <1>t, <1>1, <1>2 DEF Becomes, SafeWrite, Toggles, User
<1>4. RoleGroup[r] \in enabledGroups' <=> RoleGroup[r] \in enabledGroups
  <2>1. txn[p].op \in {"disable", "enable"} => RoleGroup[r] \notin txn[p].groups
    BY <1>r, <1>t DEF SafeWrite, OwnGroup, Toggles
  <2>2. txn[p].op = "group" => RoleGroup[r] # txn[p].group
    BY <1>t DEF SafeWrite
  <2> QED
    BY <2>1, <2>2
    DEF Commit, CommitItem, CommitAccount, CommitCreate, CommitOwn, CommitDisable,
        CommitEnable, CommitDisableService, CommitEnableService, CommitConvert, CommitGroup,
        CommitGrant, CommitCredential, CommitInsert, CommitDelete, CommitAddToken,
        CommitDisableToken, tables
<1> QED
  BY <1>2, <1>3, <1>4

\* A commit that toggles a role user sets the flag of its group as well.
LEMMA Toggled ==
    ASSUME AccountsAssumption, IInv, RoleInv, NEW p \in Procs, Commit(p),
           NEW r \in RoleUsers, users[r].services = 0,
           txn[p].op \in Toggles, txn[p].account = r
    PROVE  users'[r].enabled <=> RoleGroup[r] \in enabledGroups'
<1>t. r \in Accounts /\ TypeOK /\ txn[p] \in Write /\ users[r] \in User /\ Fresh(txn[p])
  BY DEF IInv, TypeOK, AccountsAssumption, RoleInv
<1>1. users'[r] = Becomes(txn[p], r)
  BY <1>t, CommitUsers
<1>2. CASE txn[p].op = "disable"
  <2>1. /\ txn[p].write <=> users[r].enabled
        /\ txn[p].groups = {RoleGroup[r]} \cap enabledGroups
    BY <1>t, <1>2 DEF Fresh, Toggles
  <2>2. enabledGroups' = enabledGroups \ txn[p].groups
    BY <1>2 DEF Commit, CommitAccount, CommitDisable, CommitCredential
  <2>3. ~users'[r].enabled
    BY <1>t, <1>1, <1>2, <2>1 DEF Becomes, AccountOps, User
  <2> QED
    BY <2>1, <2>2, <2>3
<1>3. CASE txn[p].op = "enable"
  <2>1. /\ txn[p].write <=> ~users[r].enabled
        /\ txn[p].groups = {RoleGroup[r]} \ enabledGroups
    BY <1>t, <1>3 DEF Fresh, Toggles
  <2>2. enabledGroups' = enabledGroups \union txn[p].groups
    BY <1>3 DEF Commit, CommitAccount, CommitEnable, CommitCredential
  <2>3. users'[r].enabled
    BY <1>t, <1>1, <1>3, <2>1 DEF Becomes, AccountOps, User
  <2> QED
    BY <2>1, <2>2, <2>3
<1> QED
  BY <1>2, <1>3 DEF Commit, CommitAccount, CommitCredential, Toggles

LEMMA RoleKeeps ==
    ASSUME AccountsAssumption, RolesApart, IInv, RoleInv, [Next]_vars
    PROVE  RoleInv'
<1>t. txn \in [Procs -> Write]
  BY DEF IInv, TypeOK
<1>1. ASSUME NEW p \in Procs, Reads(p)
      PROVE  RoleInv'
  <2>1. PICK w \in Write : (Fresh(txn[p]) => Fresh(w)) /\ Continue(p, w)
    BY <1>1 DEF Reads
  <2>2. \A v : Fresh(v) => Fresh(v)'
    BY <2>1 DEF Continue, tables, Fresh
  <2>3. \A q \in Procs : \E v : v = txn'[q] /\ Fresh(v)
    BY <1>t, <2>1 DEF Continue, RoleInv
  <2> QED
    BY <2>1, <2>2, <2>3 DEF RoleInv, RoleUserMatchesItsGroup, Continue, tables
<1>2. ASSUME NEW p \in Procs, Commit(p) \/ CommitItem(p)
      PROVE  RoleInv'
  <2>1. ASSUME NEW r \in RoleUsers, users'[r].services = 0
        PROVE  users'[r].enabled <=> RoleGroup[r] \in enabledGroups'
    <3>1. CASE txn[p].op \in Toggles /\ txn[p].account = r
      <4>1. users[r].services = 0
        <5>1. r \in Accounts /\ users[r] \in User /\ TypeOK
          BY DEF AccountsAssumption, IInv, TypeOK
        <5> QED
          BY <1>2, <2>1, <5>1, RowsStay DEF User
      <4>2. Commit(p)
        BY <1>2, <3>1 DEF CommitItem, Toggles
      <4> QED
        BY <3>1, <4>1, <4>2, Toggled
    <3>2. CASE txn[p].op \in Toggles => txn[p].account # r
      BY <1>2, <2>1, <3>2, Untouched DEF RoleInv, RoleUserMatchesItsGroup
    <3> QED
      BY <3>1, <3>2
  <2>2. ASSUME NEW q \in Procs
        PROVE  Fresh(txn[q])'
    <3>1. CASE txn'[q] = txn[q] /\ q # p
      <4>1. SUFFICES ASSUME txn[q].op \in Toggles, txn[q].account \in RoleUsers,
                            users'[txn[q].account].services = 0
                     PROVE  Fresh(txn[q])'
        BY <3>1 DEF Fresh
      <4>2. txn[p].op \in Toggles => txn[p].account # txn[q].account
        BY <3>1, <4>1 DEF RolesApart, BothToggle
      <4>3. /\ users[txn[q].account].services = 0
            /\ users'[txn[q].account] = users[txn[q].account]
            /\ RoleGroup[txn[q].account] \in enabledGroups'
                 <=> RoleGroup[txn[q].account] \in enabledGroups
        BY <1>2, <4>1, <4>2, Untouched
      <4>4. Fresh(txn[q])
        BY DEF RoleInv
      <4> QED
        BY <3>1, <4>1, <4>3, <4>4 DEF Fresh
    <3>2. CASE txn'[q].op \notin Toggles
      BY <3>2 DEF Fresh
    <3>3. \/ txn'[q] = txn[q] /\ q # p
          \/ txn'[q].op \notin Toggles
      <4>1. TypeOK /\ txn[p] \in Write
        BY DEF IInv, TypeOK
      <4> QED
        BY <1>2, <4>1, CommitLeaves DEF Toggles, Nothing
    <3> QED
      BY <3>1, <3>2, <3>3
  <2> QED
    BY <2>1, <2>2 DEF RoleInv, RoleUserMatchesItsGroup
<1>3. CASE Quiet
  <2>1. RoleUserMatchesItsGroup'
    BY <1>3 DEF Quiet, RoleInv, RoleUserMatchesItsGroup
  <2>2. \A q \in Procs : Fresh(txn[q])'
    BY <1>3 DEF Quiet, RoleInv, Fresh, Nothing, Toggles
  <2> QED
    BY <2>1, <2>2 DEF RoleInv
<1> QED
  BY <1>1, <1>2, <1>3, Steps

LEMMA RoleInit == AccountsAssumption /\ Init => RoleInv
<1> SUFFICES ASSUME AccountsAssumption, Init
             PROVE  RoleInv
  OBVIOUS
<1>1. RoleUserMatchesItsGroup
  BY DEF AccountsAssumption, Init, RoleUserMatchesItsGroup
<1>2. \A p \in Procs : Fresh(txn[p])
  BY DEF Init, Fresh, Nothing, Toggles
<1> QED
  BY <1>1, <1>2 DEF RoleInv

LEMMA RoleAlways == Spec /\ []RolesApart => [](IInv /\ RoleInv)
<1>1. RolesApart /\ IInv /\ RoleInv /\ [Next]_vars => RoleInv'
  BY RoleKeeps, AccountsAssumption
<1> QED
  BY <1>1, RoleInit, AccountsAssumption, Invariance, PTL DEF Spec

\* A role user and its group are enabled and disabled together, however their
\* queries and commits interleave with those of other accounts and groups, as
\* long as no two processes toggle the same role user.
THEOREM RoleUsersMatch == Spec /\ []RolesApart => []RoleUserMatchesItsGroup
<1>1. RoleInv => RoleUserMatchesItsGroup
  BY DEF RoleInv
<1> QED
  BY <1>1, RoleAlways, PTL

\* A role user that is enabled again stays in its group, under the same condition.
THEOREM RoleUsersStay == Spec /\ []RolesApart => RoleUserStaysInItsGroup
<1>1. ASSUME IInv, RoleInv, [Next]_vars, NEW r \in RoleUsers,
             users[r].services = 0, ~users[r].enabled, users'[r].enabled,
             <<RoleGroup[r], r, "member">> \in edges
      PROVE  <<RoleGroup[r], r, "member">> \in edges'
  <2>t. TypeOK /\ txn \in [Procs -> Write] /\ r \in Accounts /\ users[r] \in User
    BY <1>1, AccountsAssumption DEF AccountsAssumption, IInv, TypeOK
  <2>1. RoleGroup[r] \notin enabledGroups
    BY <1>1 DEF RoleInv, RoleUserMatchesItsGroup
  <2>2. PICK p \in Procs : Commit(p) \/ CommitItem(p)
    <3>1. \A p \in Procs : Reads(p) => users' = users
      BY DEF Reads, Continue, tables
    <3> QED
      BY <1>1, <3>1, Steps, AccountsAssumption DEF Quiet
  <2>3. users'[r] = Becomes(txn[p], r) /\ SafeWrite(txn[p]) /\ Fresh(txn[p])
    BY <1>1, <2>t, <2>2, CommitUsers DEF IInv, RoleInv
  <2>4. txn[p].op \in {"create", "enable", "convert"}
    BY <1>1, <2>t, <2>3 DEF Becomes, SafeWrite, User
  <2>5. CASE txn[p].op = "enable"
    <3>1. txn[p].account = r
      BY <1>1, <2>3, <2>5 DEF Becomes
    <3>2. <<RoleGroup[r], r, "member">> \notin txn[p].revoked
      BY <1>1, <2>1, <2>3, <2>5, <3>1 DEF Fresh, Toggles
    <3>3. edges' = edges \ txn[p].revoked
      BY <2>2, <2>5 DEF Commit, CommitItem, CommitAccount, CommitCredential, CommitEnable
    <3> QED
      BY <1>1, <3>2, <3>3
  <2>6. CASE txn[p].op \in {"create", "convert"}
    BY <1>1, <2>2, <2>6 DEF Commit, CommitItem, CommitAccount, CommitCredential, CommitCreate,
                            CommitConvert
  <2> QED
    BY <2>4, <2>5, <2>6
<1>2. IInv /\ RoleInv /\ [Next]_vars =>
        [\A r \in RoleUsers :
            /\ users[r].services = 0 /\ ~users[r].enabled /\ users'[r].enabled
            /\ <<RoleGroup[r], r, "member">> \in edges
            => <<RoleGroup[r], r, "member">> \in edges']_vars
  BY <1>1
<1> QED
  BY <1>2, RoleAlways, PTL DEF Spec, RoleUserStaysInItsGroup


-----------------------------------------------------------------------------
(* Tokens.                                                                 *)

\* No process makes a disabled token valid, under whatever name and order.
THEOREM TokensStayDisabled == Spec => DisabledTokensStayDisabled
<1>1. ASSUME IInv, [Next]_vars, NEW t \in Tokens, tokens[t] = "disabled"
      PROVE  ~TokenValidate(t)'
  <2> USE <1>1
  <2>1. tokens \in [Tokens -> {"absent", "usable", "disabled"}]
    BY DEF IInv, TypeOK
  <2>2. CASE tokens' = tokens
    BY <2>2 DEF TokenValidate, TokenEnabled
  <2>3. ASSUME NEW p \in Procs, Commit(p) \/ CommitItem(p)
        PROVE  tokens'[t] = "disabled"
    BY <2>1, <2>3 DEF Commit, CommitItem, CommitAccount, CommitCredential, CommitInsert,
                      CommitDelete, CommitAddToken, CommitDisableToken
  <2>4. tokens'[t] = "disabled" => ~TokenValidate(t)'
    BY DEF TokenValidate, TokenEnabled
  <2>5. \/ tokens' = tokens
        \/ \E p \in Procs : Commit(p) \/ CommitItem(p)
    <3>1. \A p \in Procs : Reads(p) => tokens' = tokens
      BY DEF Reads, Continue
    <3> QED
      BY <3>1, Steps, AccountsAssumption DEF Quiet
  <2> QED
    BY <2>2, <2>3, <2>4, <2>5
<1>2. IInv /\ [Next]_vars =>
        [\A t \in Tokens : tokens[t] = "disabled" => ~TokenValidate(t)']_vars
  BY <1>1
<1> QED
  BY <1>2, Invariance, PTL DEF Spec, DisabledTokensStayDisabled

-----------------------------------------------------------------------------
(* Owners of service accounts.                                             *)

OwnedOnce(a) ==
    /\ ~users[a].row => users[a].services = 0
    /\ users[a].services = 0 => OwnersOf(a) = {}
    /\ OwnersOf(a) = {} \/ \E g \in Groups : OwnersOf(a) = {g}

OwnerInv ==
    /\ \A a \in Accounts : OwnedOnce(a)
    /\ \A p \in Procs : Ready(txn[p])

\* Both are to give the account the owner that it has been found without.
BothOwn(v, w) ==
    {v.op, w.op} \subseteq {"convert", "enableService", "own"} /\ v.account = w.account

\* No two processes at work give the same account an owner.
OwnersApart == \A p, q \in Procs : BothOwn(txn[p], txn[q]) => p = q

\* A commit gives an owner to an account that has none.
LEMMA CommitOwnsOnce ==
    ASSUME AccountsAssumption, IInv, NEW p \in Procs, Ready(txn[p]),
           \A a \in Accounts : OwnedOnce(a), Commit(p) \/ CommitItem(p), NEW a \in Accounts
    PROVE  OwnedOnce(a)'
<1> DEFINE w == txn[p]
<1>t. /\ TypeOK /\ w \in Write /\ SafeWrite(w) /\ OwnedOnce(a) /\ users[a] \in User
  BY DEF IInv, TypeOK
<1>f. w.op \in {"enableService", "convert"} => w.group \in Groups
  BY <1>t, WriteFields
<1> HIDE DEF w
<1>w. w = txn[p] /\ Ready(w)
  BY DEF w
<1>b. users'[a] = Becomes(w, a) /\ (w.op = "create" => ~users[w.account].row)
  BY <1>t, <1>w, CommitUsers
<1>1. CASE OwnersOf(a)' \subseteq OwnersOf(a)
  <2>1. OwnersOf(a)' = {} \/ \E g \in Groups : OwnersOf(a)' = {g}
    BY <1>1, <1>t DEF OwnedOnce
  <2>2. /\ users'[a].services = 0 => users[a].services = 0
        /\ ~users'[a].row => ~users[a].row /\ users'[a].services = users[a].services
    <3>1. w.op = "convert" => users[w.account].row
      BY <1>w DEF Ready
    <3> QED
      BY <1>b, <1>t, <3>1 DEF Becomes, User, NewService
  <2> QED
    BY <1>1, <1>t, <2>1, <2>2 DEF OwnedOnce
<1>2. CASE \E g \in Groups : OwnersOf(a)' = {g} /\ w.account = a
                             /\ w.op \in {"create", "own", "enableService", "convert"}
  <2>1. users'[a].row /\ users'[a].services > 0
    BY <1>2, <1>b, <1>t, <1>w DEF Becomes, AccountOps, User, NewService, SafeWrite, Ready,
                                  OwnedOnce
  <2> QED
    BY <1>2, <2>1 DEF OwnedOnce
<1>3. CASE w.account = a /\ w.op \in {"create", "own"}
           /\ OwnersOf(a)' = OwnersOf(a) \union w.groups
  <2>1. OwnersOf(a) = {} /\ \E g \in Groups : w.groups = {g}
    BY <1>3, <1>b, <1>t, <1>w DEF SafeWrite, Ready, OwnedOnce
  <2> QED
    BY <1>2, <1>3, <2>1
<1>4. CASE w.account = a /\ w.op \in {"enableService", "convert"}
           /\ OwnersOf(a)' = OwnersOf(a) \union {w.group}
  <2>1. OwnersOf(a) = {}
    BY <1>4, <1>t, <1>w DEF Ready, OwnedOnce
  <2> QED
    BY <1>2, <1>4, <1>f, <2>1
<1> QED
  BY <1>1, <1>3, <1>4, <1>t, <1>w, CommitOwners

\* It leaves alone what another process has read of another account: one that is
\* converted has been a user, one that is enabled has been an account.
LEMMA OthersReady ==
    ASSUME AccountsAssumption, IInv, NEW p \in Procs, Commit(p) \/ CommitItem(p),
           \A a \in Accounts : OwnedOnce(a), Ready(txn[p]),
           NEW w \in Write, SafeWrite(w), Ready(w), ~BothOwn(txn[p], w)
    PROVE  Ready(w)'
<1> DEFINE v == txn[p]
<1>t. /\ TypeOK /\ v \in Write
      /\ w.op \in {"convert", "enableService", "own"} => w.account \in Accounts
  BY WriteFields DEF IInv, TypeOK, AccountOps
<1> HIDE DEF v
<1>v. v = txn[p] /\ ~BothOwn(v, w)
  BY DEF v
<1>1. CASE w.op = "convert"
  <2>1. /\ users[w.account].row /\ users[w.account].services = 0
        /\ users[w.account] \in User
    BY <1>1, <1>t DEF Ready, TypeOK
  <2>2. /\ users'[w.account] = Becomes(v, w.account)
        /\ v.op = "create" => ~users[v.account].row
    BY <1>1, <1>t, <1>v, CommitUsers
  <2>3. v.op \in {"convert", "create"} => v.account # w.account
    BY <1>1, <1>v, <2>1, <2>2 DEF BothOwn
  <2> QED
    BY <1>1, <2>1, <2>2, <2>3 DEF Ready, Becomes, User
<1>2. CASE w.op \in {"enableService", "own"}
  <2>1. users[w.account].services > 0 /\ OwnersOf(w.account) = {}
    BY <1>2 DEF SafeWrite, Ready
  <2>2. users[w.account].row
    BY <1>2, <1>t, <2>1 DEF OwnedOnce
  <2>3. v.op = "create" => ~users[v.account].row
    BY <1>t, <1>v, CommitUsers
  <2>4. v.op \in {"create", "convert", "enableService", "own"} => v.account # w.account
    BY <1>2, <1>v, <2>2, <2>3 DEF BothOwn
  <2>5. OwnersOf(w.account)' = {}
    BY <1>2, <1>t, <1>v, <2>1, <2>4, CommitOwners
  <2> QED
    BY <1>2, <2>5 DEF Ready
<1> QED
  BY <1>1, <1>2 DEF Ready

LEMMA OwnerKeeps ==
    ASSUME AccountsAssumption, OwnersApart, IInv, OwnerInv, [Next]_vars
    PROVE  OwnerInv'
<1>t. TypeOK /\ txn \in [Procs -> Write]
  BY DEF IInv, TypeOK
<1>1. ASSUME NEW p \in Procs, Reads(p)
      PROVE  OwnerInv'
  <2>1. PICK w \in Write : Ready(w) /\ Continue(p, w)
    BY <1>1 DEF Reads
  <2>2. \A q \in Procs : \E v : v = txn'[q] /\ Ready(v)
    BY <1>t, <2>1 DEF Continue, OwnerInv
  <2>3. \A v : Ready(v) => Ready(v)'
    BY <2>1 DEF Ready, OwnersOf, Continue, tables
  <2> QED
    BY <2>1, <2>2, <2>3 DEF OwnerInv, OwnedOnce, OwnersOf, Continue, tables
<1>2. ASSUME NEW p \in Procs, Commit(p) \/ CommitItem(p)
      PROVE  OwnerInv'
  <2>1. \A a \in Accounts : OwnedOnce(a)'
    BY <1>2, CommitOwnsOnce DEF OwnerInv
  <2>2. ASSUME NEW q \in Procs
        PROVE  Ready(txn[q])'
    <3>1. CASE txn'[q] = txn[q] /\ q # p
      <4>1. PICK w \in Write : w = txn[q] /\ w = txn'[q]
        BY <1>t, <3>1
      <4>2. SafeWrite(w) /\ Ready(w) /\ ~BothOwn(txn[p], w)
        BY <3>1, <4>1 DEF IInv, OwnerInv, OwnersApart
      <4>3. Ready(w)'
        BY <1>2, <4>1, <4>2, OthersReady DEF OwnerInv
      <4> QED
        BY <4>1, <4>3
    <3>2. CASE q = p /\ txn'[p] = Nothing
      BY <3>2 DEF Ready, Nothing
    <3>3. CASE q = p /\ txn[p].op \in {"create", "own"} /\ txn'[p].op = "own"
               /\ txn'[p].account = txn[p].account /\ owners' = owners
      <4>1. txn[p] \in Write /\ txn[p].account \in Accounts
        BY <1>t, <3>3, WriteFields DEF AccountOps
      <4>2. txn[p].op = "create" => ~users[txn[p].account].row
        BY <1>t, <1>2, <4>1, CommitUsers
      <4>3. OwnersOf(txn[p].account) = {}
        BY <3>3, <4>1, <4>2 DEF OwnerInv, OwnedOnce, Ready
      <4> QED
        BY <3>3, <4>3 DEF Ready, OwnersOf
    <3> QED
      BY <1>t, <1>2, <3>1, <3>2, <3>3, CommitLeaves
  <2> QED
    BY <2>1, <2>2 DEF OwnerInv
<1>3. CASE Quiet
  <2>1. \A a \in Accounts : OwnedOnce(a)'
    BY <1>3 DEF Quiet, OwnerInv, OwnedOnce, OwnersOf
  <2>2. \A q \in Procs : Ready(txn[q])'
    BY <1>3 DEF Quiet, OwnerInv, Ready, OwnersOf, Nothing
  <2> QED
    BY <2>1, <2>2 DEF OwnerInv
<1> QED
  BY <1>1, <1>2, <1>3, Steps

LEMMA OwnerInit == AccountsAssumption /\ Init => OwnerInv
<1> SUFFICES ASSUME AccountsAssumption, Init
             PROVE  OwnerInv
  OBVIOUS
<1>1. \A a \in Accounts : OwnedOnce(a)
  BY DEF Init, OwnedOnce, OwnersOf
<1>2. \A p \in Procs : Ready(txn[p])
  BY DEF Init, Ready, Nothing
<1> QED
  BY <1>1, <1>2 DEF OwnerInv

\* No account has a second owner, as long as no two processes give the same
\* account one.
THEOREM OneOwner == Spec /\ []OwnersApart => []AtMostOneOwner
<1>1. OwnersApart /\ IInv /\ OwnerInv /\ [Next]_vars => OwnerInv'
  BY OwnerKeeps, AccountsAssumption
<1>2. OwnerInv => AtMostOneOwner
  <2>1. \A S : S = {} => Cardinality(S) = 0
    BY FS_EmptySet, Zenon
  <2>2. \A S, g : S = {g} => Cardinality(S) = 1
    BY FS_Singleton, Zenon
  <2>3. \A s \in Accounts : OwnerInv =>
           OwnersOf(s) = {} \/ \E g \in Groups : OwnersOf(s) = {g}
    BY DEF OwnerInv, OwnedOnce
  <2>4. \A s \in Accounts : OwnerInv =>
           Cardinality(OwnersOf(s)) = 0 \/ Cardinality(OwnersOf(s)) = 1
    BY <2>1, <2>2, <2>3, Zenon
  <2> QED
    BY <2>4 DEF AtMostOneOwner
<1> QED
  BY <1>1, <1>2, OwnerInit, AccountsAssumption, Invariance, PTL DEF Spec

-----------------------------------------------------------------------------
(* Grants of service accounts.                                             *)

HandOverInv ==
    /\ \A a \in granted : OwnersOf(a) # {}
    /\ \A p \in Procs : Seen(txn[p])

\* One takes the owner away that the other has found the account to have.
BothHandle(v, w) == v.op = "disableService" /\ w.op = "grant" /\ v.account = w.account

\* No process at work disables a service account that another one grants to.
GrantsApart == \A p, q \in Procs : ~BothHandle(txn[p], txn[q])

LEMMA HandOverKeeps ==
    ASSUME AccountsAssumption, GrantsApart, IInv, HandOverInv, [Next]_vars
    PROVE  HandOverInv'
<1>t. TypeOK /\ txn \in [Procs -> Write] /\ granted \subseteq Accounts
  BY DEF IInv, TypeOK
<1>1. ASSUME NEW p \in Procs, Reads(p)
      PROVE  HandOverInv'
  <2>1. PICK w \in Write : Seen(w) /\ Continue(p, w)
    BY <1>1 DEF Reads
  <2>2. \A q \in Procs : \E v : v = txn'[q] /\ Seen(v)
    BY <1>t, <2>1 DEF Continue, HandOverInv
  <2>3. \A v : Seen(v) => Seen(v)'
    BY <2>1 DEF Seen, OwnersOf, Continue, tables
  <2> QED
    BY <2>1, <2>2, <2>3 DEF HandOverInv, OwnersOf, Continue, tables
<1>2. ASSUME NEW p \in Procs, Commit(p) \/ CommitItem(p)
      PROVE  HandOverInv'
  <2> DEFINE v == txn[p]
  <2>v. v \in Write /\ Seen(v)
    BY <1>t DEF HandOverInv
  <2> HIDE DEF v
  <2>d. v = txn[p]
    BY DEF v
  <2>o. \A a \in Accounts :
           \/ OwnersOf(a) \subseteq OwnersOf(a)'
           \/ v.op = "disableService" /\ v.account = a /\ a \notin granted'
    BY <1>t, <1>2, <2>v, <2>d, CommitOwners
  <2>g. \/ granted' \subseteq granted
        \/ v.op = "grant" /\ granted' = granted \union {v.account}
    <3>1. CASE \E a : a \in Accounts
      BY <1>t, <1>2, <2>v, <2>d, <3>1, CommitOwners
    <3>2. CASE \A a : a \notin Accounts
      <4>1. granted' \subseteq Accounts
        BY NextKeeps DEF IInv, TypeOK
      <4> QED
        BY <3>2, <4>1
    <3> QED
      BY <3>1, <3>2
  <2>1. ASSUME NEW a \in granted'
        PROVE  OwnersOf(a)' # {}
    <3>1. a \in Accounts
      BY NextKeeps DEF IInv, TypeOK
    <3>2. OwnersOf(a) # {}
      BY <2>v, <2>g, <2>1 DEF HandOverInv, Seen
    <3> QED
      BY <2>o, <2>1, <3>1, <3>2
  <2>2. ASSUME NEW q \in Procs
        PROVE  Seen(txn[q])'
    <3>1. CASE txn'[q] = txn[q] /\ txn[q].op = "grant"
      <4>1. txn[q].account \in Accounts /\ OwnersOf(txn[q].account) # {}
        BY <1>t, <3>1, WriteFields DEF AccountOps, HandOverInv, Seen
      <4>2. ~(v.op = "disableService" /\ v.account = txn[q].account)
        BY <2>d, <3>1 DEF GrantsApart, BothHandle
      <4>3. OwnersOf(txn[q].account)' # {} \/ txn'[q] # txn[q]
        <5>1. PICK a \in Accounts : a = txn[q].account
          BY <4>1
        <5>2. OwnersOf(a) \subseteq OwnersOf(a)'
          BY <2>o, <4>2, <5>1
        <5>3. OwnersOf(a)' # {}
          BY <4>1, <5>1, <5>2
        <5>4. a = txn'[q].account
          BY <3>1, <5>1
        <5> QED
          BY <3>1, <5>1, <5>3, <5>4
      <4> QED
        BY <3>1, <4>3 DEF Seen
    <3>2. CASE txn'[q].op # "grant"
      BY <3>2 DEF Seen
    <3>3. txn'[q].op # "grant" \/ txn'[q] = txn[q]
      BY <1>t, <1>2, <2>v, <2>d, CommitLeaves DEF Nothing
    <3> QED
      BY <3>1, <3>2, <3>3
  <2> QED
    BY <2>1, <2>2 DEF HandOverInv
<1>3. CASE Quiet
  <2>1. \A a \in granted' : OwnersOf(a)' # {}
    BY <1>3 DEF Quiet, HandOverInv, OwnersOf
  <2>2. \A q \in Procs : Seen(txn[q])'
    BY <1>3 DEF Quiet, HandOverInv, Seen, OwnersOf, Nothing
  <2> QED
    BY <2>1, <2>2 DEF HandOverInv
<1> QED
  BY <1>1, <1>2, <1>3, Steps

LEMMA HandOverInit == AccountsAssumption /\ Init => HandOverInv
  BY DEF Init, HandOverInv, Seen, Nothing

LEMMA HandOverAlways == Spec /\ []GrantsApart => [](IInv /\ HandOverInv)
<1>1. GrantsApart /\ IInv /\ HandOverInv /\ [Next]_vars => HandOverInv'
  BY HandOverKeeps, AccountsAssumption
<1> QED
  BY <1>1, HandOverInit, AccountsAssumption, Invariance, PTL DEF Spec

\* Whoever is given a service account is given no permission with it, as long as
\* none is granted to it while it is disabled.
THEOREM InheritNothing == Spec /\ []GrantsApart => NewOwnersInheritNothing
<1>1. ASSUME IInv, HandOverInv, [Next]_vars, NEW s \in Accounts,
             \A g \in Groups : <<s, g>> \notin owners,
             \E g \in Groups : <<s, g>> \in owners'
      PROVE  s \notin granted'
  <2>1. s \notin granted /\ owners' # owners
    BY <1>1 DEF HandOverInv, OwnersOf
  <2>2. PICK p \in Procs : Commit(p) \/ CommitItem(p)
    <3>1. \A p \in Procs : Reads(p) => owners' = owners
      BY DEF Reads, Continue, tables
    <3> QED
      BY <1>1, <2>1, <3>1, Steps, AccountsAssumption DEF Quiet
  <2>3. txn[p] \in Write /\ TypeOK
    BY <1>1 DEF IInv, TypeOK
  <2> QED
    BY <2>1, <2>2, <2>3, CommitOwners
<1>2. IInv /\ HandOverInv /\ [Next]_vars =>
        [\A s \in Accounts :
            (\A g \in Groups : <<s, g>> \notin owners)
            /\ (\E g \in Groups : <<s, g>> \in owners') => s \notin granted']_vars
  BY <1>1
<1> QED
  BY <1>2, HandOverAlways, PTL DEF Spec, NewOwnersInheritNothing

=============================================================================
