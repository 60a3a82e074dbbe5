-------------------------- MODULE Permissions_proofs --------------------------
(***************************************************************************)
(* Proofs about Permissions, for all permissions, groups, accounts and     *)
(* processes: types; that disabling a permission spares the others, unless *)
(* it is granted between the two deletions; and where no commit of one     *)
(* process takes away what another has read, that it still holds when that *)
(* one commits, so that requests are filed and decided once, approvals     *)
(* look at auditing, and disabling revokes every grant.                    *)
(***************************************************************************)
EXTENDS Permissions, TLAPS

\* What is left of disabling a permission.
Disabling == {"revokeGroups", "revokeServices", "disable"}

\* Every commit that is waiting has the fields of its kind.
LEMMA WriteFields ==
    ASSUME NEW w \in Write
    PROVE  /\ w.op \in {"create", "audit", "noaudit", "file", "decide", "grant",
                        "revoke", "serve", "unserve"} \union Disabling
           /\ w.op \in {"create", "audit", "noaudit"} \union Disabling =>
                 w.permission \in Permissions
           /\ w.op = "file" => w.request \in Request
           /\ w.op = "decide" => w.id \in Nat /\ w.status \in {"actioned", "cancelled"}
           /\ w.op \in {"grant", "revoke"} => w.grant \in Grant
           /\ w.op \in {"serve", "unserve"} => w.grant \in ServiceGrant
           /\ w.op \in {"revokeServices", "disable"} => w.grants \subseteq Grant
           /\ w.op = "disable" => w.services \subseteq ServiceGrant
<1> USE DEF Disabling
<1>1. CASE w \in [op : {"create", "audit", "noaudit"}, permission : Permissions]
  BY <1>1
<1>2. CASE w \in [op : {"file"}, request : Request]
  BY <1>2
<1>3. CASE w \in [op : {"decide"}, id : Nat, status : {"actioned", "cancelled"}]
  BY <1>3
<1>4. CASE w \in [op : {"grant", "revoke"}, grant : Grant]
  BY <1>4
<1>5. CASE w \in [op : {"serve", "unserve"}, grant : ServiceGrant]
  BY <1>5
<1>6. CASE w \in [op : {"disable"}, permission : Permissions,
                  grants : SUBSET Grant, services : SUBSET ServiceGrant]
  BY <1>6
<1>7. CASE w \in [op : {"revokeGroups"}, permission : Permissions]
  BY <1>7
<1>8. CASE w \in [op : {"revokeServices"}, permission : Permissions, grants : SUBSET Grant]
  BY <1>8
<1> QED
  BY <1>1, <1>2, <1>3, <1>4, <1>5, <1>6, <1>7, <1>8 DEF Write

-----------------------------------------------------------------------------
(* What a handler has settled about its commits.                           *)

\* Whatever happens meanwhile: of the groups' grants it deletes those of the
\* permission to disable only.
SafeWrite(w) ==
    w.op \in {"revokeServices", "disable"} => \A x \in w.grants : x[2] = w.permission

\* As long as no other process takes it away: the request to file has no pending
\* double, the one to decide is pending and may be approved, and no grant of
\* the permission to disable is overlooked.
Ready(w) ==
    /\ w.op = "file" =>
          LET r == w.request
          IN  /\ r.status = "pending"
              /\ PendingRequests(r.group, r.permission, r.argument) = {}
    /\ w.op = "decide" =>
          /\ w.id \in 1..Len(requests) /\ requests[w.id].status = "pending"
          /\ Approvable(requests[w.id], w.status)
    /\ w.op \in Disabling => permission[w.permission] # "absent"
    /\ w.op \in Disabling /\ permission[w.permission] = "enabled" =>
          /\ w.op # "revokeGroups" =>
                \A x \in groupGrants : x[2] = w.permission => x \in w.grants
          /\ \A x \in serviceGrants : x[2] # w.permission

\* Only the grant of an approval is left for a second commit.
Prepared(commits) ==
    /\ commits \in Seq(Write)
    /\ \A n \in 1..Len(commits) :
          /\ SafeWrite(commits[n]) /\ Ready(commits[n])
          /\ n > 1 => commits[n].op = "grant"

LEMMA OneWrite ==
    ASSUME NEW w \in Write, SafeWrite(w), Ready(w)
    PROVE  Prepared(<<w>>)
BY DEF Prepared

LEMMA SimpleWrite ==
    ASSUME NEW w \in Write, w.op \notin {"file", "decide"} \union Disabling
    PROVE  Prepared(<<w>>)
BY OneWrite DEF SafeWrite, Ready, Disabling

\* A permission that some account holds is not disabled.
LEMMA DisableBegins ==
    ASSUME TypeOK, NEW proc \in Procs, NEW u \in Users, NEW p \in Permissions,
           DisablePermission(proc, u, p)
    PROVE  \E commits : Prepared(commits) /\ Begin(proc, commits)
<1> DEFINE w == [op |-> "revokeGroups", permission |-> p]
<1>1. w \in Write /\ SafeWrite(w)
  BY DEF Write, SafeWrite
<1>2. Ready(w)
  BY DEF Ready, DisablePermission, AllPermissions, ServiceAccountGrantsForPermission
<1>3. Begin(proc, <<w>>)
  BY DEF DisablePermission
<1> QED
  BY <1>1, <1>2, <1>3, OneWrite

\* The query for the accounts' grants yields nothing when no group has been granted
\* the permission since the rows of the groups were looked up.
Spares(w) ==
    /\ w.op = "revokeServices" =>
          \A x \in groupGrants : x[2] = w.permission => x \in w.grants
    /\ w.op = "disable" => w.services = {}

\* The two deletions.
Revoke(proc) == RevokeAllGroupGrants(proc) \/ RevokeAllServiceAccountGrants(proc)

LEMMA RevokeReads ==
    ASSUME TypeOK, NEW proc \in Procs, Revoke(proc), SafeWrite(txn[proc][1])
    PROVE  \E w \in Write :
              /\ SafeWrite(w) /\ (Ready(txn[proc][1]) => Ready(w))
              /\ Spares(txn[proc][1]) => Spares(w)
              /\ Continue(proc, w)
<1>t. /\ txn[proc] \in Seq(Write) /\ txn[proc] # << >> /\ txn[proc][1] \in Write
      /\ Head(txn[proc]) = txn[proc][1]
  BY DEF TypeOK, Revoke, RevokeAllGroupGrants, RevokeAllServiceAccountGrants, Idle
<1> DEFINE v == txn[proc][1]
<1> HIDE DEF v
<1>v. v \in Write /\ SafeWrite(v) /\ v = txn[proc][1]
  BY <1>t DEF v
<1>1. CASE RevokeAllGroupGrants(proc)
  <2> DEFINE w == [op |-> "revokeServices", permission |-> v.permission,
                   grants |-> RevokedGroupGrants(v.permission)]
  <2>1. v.op = "revokeGroups" /\ v.permission \in Permissions /\ Continue(proc, w)
    BY <1>1, <1>t, <1>v, WriteFields DEF RevokeAllGroupGrants, Disabling
  <2>2. RevokedGroupGrants(v.permission) \subseteq Grant
    BY DEF RevokedGroupGrants, TypeOK
  <2>3. w \in Write
    BY <2>1, <2>2 DEF Write
  <2>4. SafeWrite(w) /\ Spares(w)
    BY DEF SafeWrite, Spares, RevokedGroupGrants
  <2>5. Ready(v) => Ready(w)
    BY <2>1 DEF Ready, RevokedGroupGrants, Disabling
  <2> QED
    BY <1>v, <2>1, <2>3, <2>4, <2>5
<1>2. CASE RevokeAllServiceAccountGrants(proc)
  <2> DEFINE services == RevokedServiceGrants(v.permission, groupGrants \ v.grants)
             w == [op |-> "disable", permission |-> v.permission, grants |-> v.grants,
                   services |-> services]
  <2>1. /\ v.op = "revokeServices" /\ v.permission \in Permissions
        /\ v.grants \subseteq Grant /\ Continue(proc, w)
    BY <1>2, <1>t, <1>v, WriteFields DEF RevokeAllServiceAccountGrants, Disabling
  <2>2. services \subseteq ServiceGrant
    BY DEF RevokedServiceGrants, TypeOK
  <2>3. Spares(v) => services = {}
    BY <2>1 DEF Spares, RevokedServiceGrants
  <2> HIDE DEF services
  <2>4. w \in Write
    BY <2>1, <2>2 DEF Write
  <2>5. SafeWrite(w) /\ (Spares(v) => Spares(w))
    BY <1>v, <2>1, <2>3 DEF SafeWrite, Spares
  <2>6. Ready(v) => Ready(w)
    BY <2>1 DEF Ready, Disabling
  <2> QED
    BY <1>v, <2>1, <2>4, <2>5, <2>6
<1> QED
  BY <1>1, <1>2 DEF Revoke

LEMMA RequestBegins ==
    ASSUME TypeOK, NEW proc \in Procs, NEW u \in Users, NEW g \in Groups,
           NEW p \in Permissions, NEW a \in Arguments,
           PermissionRequest(proc, u, g, p, a)
    PROVE  \E commits : Prepared(commits) /\ Begin(proc, commits)
<1> DEFINE r == [group |-> g, permission |-> p, argument |-> a, status |-> "pending"]
           w == [op |-> "file", request |-> r]
<1>1. r \in Request
  BY DEF Request
<1>2. w \in Write /\ SafeWrite(w)
  BY <1>1 DEF Write, SafeWrite
<1>3. Ready(w)
  BY DEF PermissionRequest, CreateRequest, NotRequested, Ready, Disabling
<1>4. Begin(proc, <<w>>)
  BY DEF PermissionRequest, CreateRequest
<1> QED
  BY <1>2, <1>3, <1>4, OneWrite

LEMMA DecisionBegins ==
    ASSUME TypeOK, NEW proc \in Procs, NEW u \in Users, NEW i \in 1..MaxRequests,
           NEW status \in {"actioned", "cancelled"},
           PermissionsRequestUpdate(proc, u, i, status)
    PROVE  \E commits : Prepared(commits) /\ Begin(proc, commits)
<1> DEFINE r == requests[i]
           d == [op |-> "decide", id |-> i, status |-> status]
           w == [op |-> "grant", grant |-> <<r.group, r.permission, r.argument>>]
<1>1. /\ i \in 1..Len(requests) /\ r.status = "pending" /\ Approvable(r, status)
      /\ i \in Nat
  BY DEF PermissionsRequestUpdate, Decidable, UpdateRequest
<1>2. r \in Request
  BY <1>1 DEF TypeOK
<1>3. d \in Write /\ SafeWrite(d) /\ Ready(d)
  BY <1>1 DEF Write, SafeWrite, Ready, Disabling
<1>4. w \in Write /\ SafeWrite(w) /\ Ready(w)
  BY <1>2 DEF Request, Grant, Write, SafeWrite, Ready, Disabling
<1>5. CASE status = "cancelled"
  BY <1>3, <1>5, OneWrite DEF PermissionsRequestUpdate, UpdateRequest
<1>6. CASE status = "actioned"
  <2>1. Begin(proc, <<d>> \o <<w>>)
    BY <1>6 DEF PermissionsRequestUpdate, UpdateRequest
  <2> HIDE DEF d, w
  <2>2. <<d>> \in Seq(Write) /\ <<w>> \in Seq(Write)
    BY <1>3, <1>4
  <2>3. /\ <<d>> \o <<w>> \in Seq(Write) /\ Len(<<d>> \o <<w>>) = 2
        /\ (<<d>> \o <<w>>)[1] = d /\ (<<d>> \o <<w>>)[2] = w
    BY <2>2
  <2>4. w.op = "grant"
    BY DEF w
  <2>5. Prepared(<<d>> \o <<w>>)
    BY <1>3, <1>4, <2>3, <2>4 DEF Prepared
  <2> QED
    BY <2>1, <2>5
<1> QED
  BY <1>5, <1>6

\* Every handler begins commits that are prepared.
LEMMA HandleBegins ==
    ASSUME PermissionsAssumption, TypeOK, NEW proc \in Procs, Handle(proc)
    PROVE  \E commits : Prepared(commits) /\ Begin(proc, commits)
<1> DEFINE Goal == \E commits : Prepared(commits) /\ Begin(proc, commits)
<1>1. ASSUME NEW u \in Users, NEW p \in Permissions,
             \/ PermissionsCreate(proc, u, p)
             \/ \E op \in {"audit", "noaudit"} : ChangeAuditing(proc, u, p, op)
      PROVE  Goal
  <2>1. PICK op \in {"create", "audit", "noaudit"} :
           Begin(proc, << [op |-> op, permission |-> p] >>)
    BY <1>1 DEF PermissionsCreate, ChangeAuditing
  <2>2. [op |-> op, permission |-> p] \in Write
    BY DEF Write
  <2> QED
    BY <2>1, <2>2, SimpleWrite DEF Disabling
<1>2. ASSUME NEW u \in Users, NEW p \in Permissions,
             PermissionDisable(proc, u, p) \/ CtlDisablePermission(proc, p)
      PROVE  Goal
  BY <1>2, DisableBegins
  DEF PermissionDisable, CtlDisablePermission, PermissionsAssumption
<1>3. ASSUME NEW u \in Users, NEW g \in Groups, NEW p \in Permissions,
             NEW a \in Arguments, PermissionRequest(proc, u, g, p, a)
      PROVE  Goal
  BY <1>3, RequestBegins
<1>4. ASSUME NEW u \in Users, NEW i \in 1..MaxRequests,
             NEW status \in {"actioned", "cancelled"},
             PermissionsRequestUpdate(proc, u, i, status)
      PROVE  Goal
  BY <1>4, DecisionBegins
<1>5. ASSUME NEW op \in {"grant", "revoke"}, NEW x \in Grant,
             Begin(proc, << [op |-> op, grant |-> x] >>)
      PROVE  Goal
  <2>1. [op |-> op, grant |-> x] \in Write
    BY DEF Write
  <2> QED
    BY <1>5, <2>1, SimpleWrite DEF Disabling
<1>6. ASSUME NEW op \in {"serve", "unserve"}, NEW x \in ServiceGrant,
             Begin(proc, << [op |-> op, grant |-> x] >>)
      PROVE  Goal
  <2>1. [op |-> op, grant |-> x] \in Write
    BY DEF Write
  <2> QED
    BY <1>6, <2>1, SimpleWrite DEF Disabling
<1>7. ASSUME NEW u \in Users, NEW g \in Groups, NEW p \in Permissions,
             NEW a \in Arguments, PermissionsGrant(proc, u, g, p, a)
      PROVE  Goal
  BY <1>5, <1>7 DEF PermissionsGrant, Grant
<1>8. ASSUME NEW u \in Users, NEW x \in groupGrants, PermissionsRevoke(proc, u, x)
      PROVE  Goal
  BY <1>5, <1>8 DEF PermissionsRevoke, TypeOK
<1>9. ASSUME NEW u \in Users, NEW s \in Services, NEW x \in serviceGrants,
             ServiceAccountPermissionRevoke(proc, u, s, x)
      PROVE  Goal
  BY <1>6, <1>9 DEF ServiceAccountPermissionRevoke, TypeOK
<1>10. ASSUME NEW actor \in Users \union Services, NEW p \in Permissions,
              NEW a \in Arguments, NEW g \in Groups,
              GrantPermissionToGroup(proc, actor, g, p, a)
       PROVE  Goal
  BY <1>5, <1>10 DEF GrantPermissionToGroup, Grant
<1>11. ASSUME NEW actor \in Users \union Services, NEW p \in Permissions,
              NEW a \in Arguments, NEW s \in Services,
              ServiceAccountPermissionGrant(proc, actor, s, p, a)
       PROVE  Goal
  BY <1>6, <1>11
  DEF ServiceAccountPermissionGrant, GrantPermissionToServiceAccount, ServiceGrant
<1> QED
  BY <1>1, <1>2, <1>3, <1>4, <1>7, <1>8, <1>9, <1>10, <1>11 DEF Handle

-----------------------------------------------------------------------------
(* Types, and safe writes: for any number of processes.                    *)

IInv ==
    /\ TypeOK
    /\ \A proc \in Procs : \A n \in 1..Len(txn[proc]) : SafeWrite(txn[proc][n])

\* The commit at the head of a process's list, and what it leaves of the list.
LEMMA CommitFields ==
    ASSUME TypeOK, NEW proc \in Procs, Commit(proc)
    PROVE  LET s == txn[proc]
           IN  /\ s \in Seq(Write) /\ s # << >> /\ 1 \in 1..Len(s)
               /\ Head(s) \in Write /\ Head(s) = s[1]
               /\ Tail(s) \in Seq(Write)
               /\ \A n \in 1..Len(Tail(s)) : n + 1 \in 1..Len(s) /\ Tail(s)[n] = s[n + 1]
               /\ txn' = [txn EXCEPT ![proc] = Tail(s)]
               /\ graph' = graph
BY DEF TypeOK, Commit, Idle

\* What each kind of commit does to the tables.
CommitOf(w) ==
    \/ w.op = "create" /\ CommitCreate(w)
    \/ w.op \in {"audit", "noaudit"} /\ CommitAuditing(w)
    \/ w.op = "file" /\ CommitFile(w)
    \/ w.op = "decide" /\ CommitDecide(w)
    \/ w.op \in {"grant", "revoke"} /\ CommitGrant(w)
    \/ w.op \in {"serve", "unserve"} /\ CommitServe(w)
    \/ w.op = "disable" /\ CommitDisable(w)

LEMMA CommitType ==
    ASSUME TypeOK, NEW w \in Write, CommitOf(w)
    PROVE  /\ permission' \in [Permissions -> {"absent", "enabled", "disabled"}]
           /\ audited' \subseteq Permissions
           /\ closed' \subseteq Grantees
           /\ groupGrants' \subseteq Grant
           /\ serviceGrants' \subseteq ServiceGrant
           /\ requests' \in Seq(Request)
<1> USE WriteFields DEF TypeOK
<1>1. CASE w.op = "create" /\ CommitCreate(w)
  BY <1>1 DEF CommitCreate
<1>2. CASE w.op \in {"audit", "noaudit"} /\ CommitAuditing(w)
  BY <1>2 DEF CommitAuditing
<1>3. CASE w.op = "file" /\ CommitFile(w)
  BY <1>3 DEF CommitFile
<1>4. CASE w.op = "decide" /\ CommitDecide(w)
  <2>1. requests' = [requests EXCEPT ![w.id].status = w.status]
    BY <1>4 DEF CommitDecide
  <2>2. w.status \in {"pending", "actioned", "cancelled"}
    BY <1>4
  <2>3. \A r \in Request : [r EXCEPT !.status = w.status] \in Request
    BY <2>2 DEF Request
  <2>4. requests \in [1..Len(requests) -> Request] /\ Len(requests) \in Nat
    OBVIOUS
  <2>5. requests' \in [1..Len(requests) -> Request]
    BY <2>1, <2>3, <2>4
  <2>6. requests' \in Seq(Request)
    BY <2>4, <2>5
  <2> QED
    BY <1>4, <2>6 DEF CommitDecide
<1>5. CASE w.op \in {"grant", "revoke"} /\ CommitGrant(w)
  BY <1>5 DEF CommitGrant
<1>6. CASE w.op \in {"serve", "unserve"} /\ CommitServe(w)
  BY <1>6 DEF CommitServe
<1>7. CASE w.op = "disable" /\ CommitDisable(w)
  BY <1>7 DEF CommitDisable
<1> QED
  BY <1>1, <1>2, <1>3, <1>4, <1>5, <1>6, <1>7 DEF CommitOf

\* A step that is not a commit leaves the tables as they are, but for what is
\* disabled, and lets a process begin or drop its commits.
LEMMA Steps ==
    ASSUME PermissionsAssumption, TypeOK, [Next]_vars
    PROVE  \/ \E proc \in Procs : Commit(proc) \/ Revoke(proc)
           \/ /\ UNCHANGED <<permission, audited, groupGrants, serviceGrants, requests>>
              /\ closed' \subseteq Grantees /\ graph' \in [Procs -> Graph]
              /\ \/ txn' = txn
                 \/ \E proc \in Procs : txn' = [txn EXCEPT ![proc] = << >>]
                 \/ \E proc \in Procs : \E commits :
                       Prepared(commits) /\ txn' = [txn EXCEPT ![proc] = commits]
<1> DEFINE Quiet == /\ UNCHANGED <<permission, audited, groupGrants, serviceGrants,
                                   requests>>
                    /\ closed' \subseteq Grantees /\ graph' \in [Procs -> Graph]
<1>1. ASSUME NEW proc \in Procs, Handle(proc)
      PROVE  Quiet /\ \E commits : /\ Prepared(commits)
                                   /\ txn' = [txn EXCEPT ![proc] = commits]
  BY <1>1, HandleBegins DEF Begin, tables, TypeOK
<1>2. ASSUME NEW proc \in Procs, Crash(proc)
      PROVE  Quiet /\ txn' = [txn EXCEPT ![proc] = << >>]
  BY <1>2 DEF Crash, tables, TypeOK
<1>3. ASSUME NEW proc \in Procs, UpdateFromDb(proc)
      PROVE  Quiet /\ txn' = txn
  <2>1. [listed |-> AllPermissions,
         grants |-> {x \in groupGrants : x[1] \notin closed}] \in Graph
    BY DEF TypeOK, Graph, AllPermissions
  <2> QED
    BY <1>3, <2>1 DEF UpdateFromDb, tables, TypeOK
<1>4. ASSUME NEW x \in Closable, Toggle(x)
      PROVE  Quiet /\ txn' = txn
  BY <1>4 DEF Toggle, PermissionsAssumption, TypeOK
<1>5. CASE UNCHANGED vars
  BY <1>5 DEF vars, tables, TypeOK
<1> QED
  BY <1>1, <1>2, <1>3, <1>4, <1>5 DEF Next, Revoke

LEMMA NextKeeps ==
    ASSUME PermissionsAssumption, IInv, [Next]_vars
    PROVE  IInv'
<1>1. ASSUME NEW proc \in Procs, Commit(proc)
      PROVE  IInv'
  <2> DEFINE s == txn[proc]
  <2>1. CommitOf(Head(s)) /\ graph' = graph /\ txn' = [txn EXCEPT ![proc] = Tail(s)]
    BY <1>1 DEF Commit, CommitOf
  <2>2. TypeOK'
    BY <1>1, <2>1, CommitFields, CommitType DEF IInv, TypeOK
  <2>3. ASSUME NEW q \in Procs, NEW n \in 1..Len(txn'[q])
        PROVE  SafeWrite(txn'[q][n])
    <3>1. CASE q = proc
      BY <1>1, <2>1, <2>3, <3>1, CommitFields DEF IInv, TypeOK
    <3>2. CASE q # proc
      BY <2>1, <2>3, <3>2 DEF IInv, TypeOK
    <3> QED
      BY <3>1, <3>2
  <2> QED
    BY <2>2, <2>3 DEF IInv, SafeWrite
<1>2. ASSUME UNCHANGED <<permission, audited, groupGrants, serviceGrants, requests>>,
             closed' \subseteq Grantees, graph' \in [Procs -> Graph],
             \/ txn' = txn
             \/ \E proc \in Procs : txn' = [txn EXCEPT ![proc] = << >>]
             \/ \E proc \in Procs : \E commits :
                   Prepared(commits) /\ txn' = [txn EXCEPT ![proc] = commits]
      PROVE  IInv'
  <2>1. ASSUME txn' = txn
        PROVE  IInv'
    BY <1>2, <2>1 DEF IInv, TypeOK, SafeWrite
  <2>2. ASSUME NEW proc \in Procs, NEW commits \in Seq(Write),
               \A n \in 1..Len(commits) : SafeWrite(commits[n]),
               txn' = [txn EXCEPT ![proc] = commits]
        PROVE  IInv'
    <3>1. TypeOK'
      BY <1>2, <2>2 DEF IInv, TypeOK
    <3>2. \A q \in Procs : \A n \in 1..Len(txn'[q]) : SafeWrite(txn'[q][n])
      BY <2>2 DEF IInv, TypeOK
    <3> QED
      BY <3>1, <3>2 DEF IInv, SafeWrite
  <2>3. << >> \in Seq(Write) /\ \A n \in 1..Len(<< >>) : SafeWrite(<< >>[n])
    OBVIOUS
  <2>4. ASSUME NEW proc \in Procs, txn' = [txn EXCEPT ![proc] = << >>]
        PROVE  IInv'
    BY <2>2, <2>3, <2>4
  <2>5. ASSUME NEW proc \in Procs, NEW commits, Prepared(commits),
               txn' = [txn EXCEPT ![proc] = commits]
        PROVE  IInv'
    BY <2>2, <2>5 DEF Prepared
  <2> QED
    BY <1>2, <2>1, <2>4, <2>5
<1>3. ASSUME NEW proc \in Procs, Revoke(proc)
      PROVE  IInv'
  <2>1. SafeWrite(txn[proc][1])
    <3>1. txn[proc] \in Seq(Write) /\ txn[proc] # << >>
      BY <1>3 DEF IInv, TypeOK, Revoke, RevokeAllGroupGrants,
                  RevokeAllServiceAccountGrants, Idle
    <3> QED
      BY <3>1 DEF IInv
  <2>2. PICK w \in Write : SafeWrite(w) /\ Continue(proc, w)
    BY <1>3, <2>1, RevokeReads DEF IInv
  <2>3. /\ <<w>> \in Seq(Write) /\ Len(<<w>>) = 1 /\ <<w>>[1] = w
        /\ txn' = [txn EXCEPT ![proc] = <<w>>]
    BY <2>2 DEF Continue
  <2>4. TypeOK'
    BY <2>2, <2>3 DEF Continue, tables, IInv, TypeOK
  <2>5. \A q \in Procs : \A n \in 1..Len(txn'[q]) : SafeWrite(txn'[q][n])
    BY <2>2, <2>3 DEF IInv, TypeOK
  <2> QED
    BY <2>4, <2>5 DEF IInv, SafeWrite
<1> QED
  BY <1>1, <1>2, <1>3, Steps DEF IInv

LEMMA InitKeeps == PermissionsAssumption /\ Init => IInv
BY DEF PermissionsAssumption, Init, IInv, TypeOK, Graph

LEMMA Invariance == Spec => []IInv
BY InitKeeps, NextKeeps, PermissionsAssumption, PTL DEF Spec

\* Every variable keeps its type, and each commit that waits has its fields.
THEOREM TypeCorrect == Spec => []TypeOK
<1>1. IInv => TypeOK
  BY DEF IInv
<1> QED
  BY <1>1, Invariance, PTL

\* Only the commit that disables a permission makes it disabled.
LEMMA DisabledByCommit ==
    ASSUME PermissionsAssumption, IInv, [Next]_vars, NEW p \in Permissions,
           permission[p] = "enabled", permission'[p] = "disabled"
    PROVE  \E proc \in Procs :
              /\ Commit(proc) /\ txn[proc][1] \in Write /\ 1 \in 1..Len(txn[proc])
              /\ txn[proc][1].op = "disable" /\ txn[proc][1].permission = p
              /\ CommitDisable(txn[proc][1])
<1>1. PICK proc \in Procs : Commit(proc)
  <2>1. \A proc \in Procs : Revoke(proc) => permission' = permission
    BY DEF Revoke, RevokeAllGroupGrants, RevokeAllServiceAccountGrants, Continue, tables
  <2> QED
    BY <2>1, Steps DEF IInv
<1> DEFINE w == txn[proc][1]
<1>2. w \in Write /\ 1 \in 1..Len(txn[proc]) /\ CommitOf(w)
  <2>1. CommitOf(Head(txn[proc]))
    BY <1>1 DEF Commit, CommitOf
  <2> QED
    BY <1>1, <2>1, CommitFields DEF IInv
<1>3. permission \in [Permissions -> {"absent", "enabled", "disabled"}]
  BY DEF IInv, TypeOK
<1> HIDE DEF w
<1>4. w.op = "disable" /\ CommitDisable(w)
  BY <1>2, <1>3, WriteFields
  DEF CommitOf, CommitCreate, CommitAuditing, CommitFile, CommitDecide, CommitGrant,
      CommitServe
<1>5. w.permission = p
  BY <1>2, <1>3, <1>4, WriteFields DEF CommitDisable
<1> QED
  BY <1>1, <1>2, <1>4, <1>5 DEF w

\* A group is about to be granted the permission whose groups' rows another
\* process has looked up to delete them.
Between(v, w) ==
    v.op = "grant" /\ w.op = "revokeServices" /\ v.grant[2] = w.permission

NoneBetween ==
    \A a, b \in Procs : \A m \in 1..Len(txn[a]), n \in 1..Len(txn[b]) :
        ~Between(txn[a][m], txn[b][n])

SpareInv == \A proc \in Procs : \A n \in 1..Len(txn[proc]) : Spares(txn[proc][n])

\* No handler begins with what Spares is about.
LEMMA BeginsSpare ==
    ASSUME PermissionsAssumption, TypeOK, NEW proc \in Procs, Handle(proc)
    PROVE  \A n \in 1..Len(txn'[proc]) : txn'[proc][n].op \notin {"revokeServices", "disable"}
<1> DEFINE Goal == \A n \in 1..Len(txn'[proc]) :
                      txn'[proc][n].op \notin {"revokeServices", "disable"}
<1>1. ASSUME NEW w, Begin(proc, <<w>>), w.op \notin {"revokeServices", "disable"}
      PROVE  Goal
  <2>1. txn'[proc] = <<w>>
    BY <1>1 DEF Begin, TypeOK
  <2> QED
    BY <1>1, <2>1
<1>2. ASSUME NEW v, NEW w, Begin(proc, <<v>> \o <<w>>),
             {v.op, w.op} \cap {"revokeServices", "disable"} = {}
      PROVE  Goal
  <2>1. txn'[proc] = <<v>> \o <<w>>
    BY <1>2 DEF Begin, TypeOK
  <2>2. \A n \in 1..Len(<<v>> \o <<w>>) : (<<v>> \o <<w>>)[n] \in {v, w}
    <3>1. <<v>> \in Seq({v, w}) /\ <<w>> \in Seq({v, w})
      OBVIOUS
    <3>2. <<v>> \o <<w>> \in Seq({v, w})
      BY <3>1
    <3> QED
      BY <3>2
  <2> QED
    BY <1>2, <2>1, <2>2
<1> HIDE DEF Goal
<1>3. ASSUME NEW u \in Users, NEW i \in 1..MaxRequests, NEW status,
             PermissionsRequestUpdate(proc, u, i, status)
      PROVE  Goal
  BY <1>1, <1>2, <1>3 DEF PermissionsRequestUpdate, UpdateRequest
<1>4. ASSUME NEW u \in Users, NEW p \in Permissions,
             \/ PermissionsCreate(proc, u, p)
             \/ PermissionDisable(proc, u, p)
             \/ CtlDisablePermission(proc, p)
             \/ \E op \in {"audit", "noaudit"} : ChangeAuditing(proc, u, p, op)
      PROVE  Goal
  <2>1. \E op \in {"create", "revokeGroups", "audit", "noaudit"} :
           Begin(proc, << [op |-> op, permission |-> p] >>)
    BY <1>4 DEF PermissionsCreate, PermissionDisable, CtlDisablePermission,
                DisablePermission, ChangeAuditing
  <2> QED
    BY <1>1, <2>1
<1>5. ASSUME NEW u \in Users, NEW g \in Groups, NEW p \in Permissions,
             NEW a \in Arguments, PermissionRequest(proc, u, g, p, a)
      PROVE  Goal
  BY <1>1, <1>5 DEF PermissionRequest, CreateRequest
<1>6. ASSUME NEW op \in {"grant", "revoke", "serve", "unserve"}, NEW x,
             Begin(proc, << [op |-> op, grant |-> x] >>)
      PROVE  Goal
  BY <1>1, <1>6
<1>7. ASSUME NEW u \in Users, NEW g \in Groups, NEW p \in Permissions,
             NEW a \in Arguments, PermissionsGrant(proc, u, g, p, a)
      PROVE  Goal
  BY <1>6, <1>7 DEF PermissionsGrant
<1>8. ASSUME NEW u \in Users, NEW x \in groupGrants, PermissionsRevoke(proc, u, x)
      PROVE  Goal
  BY <1>6, <1>8 DEF PermissionsRevoke
<1>9. ASSUME NEW u \in Users, NEW s \in Services, NEW x \in serviceGrants,
             ServiceAccountPermissionRevoke(proc, u, s, x)
      PROVE  Goal
  BY <1>6, <1>9 DEF ServiceAccountPermissionRevoke
<1>10. ASSUME NEW actor \in Users \union Services, NEW p \in Permissions,
              NEW a \in Arguments, NEW g \in Groups,
              GrantPermissionToGroup(proc, actor, g, p, a)
       PROVE  Goal
  BY <1>6, <1>10 DEF GrantPermissionToGroup
<1>11. ASSUME NEW actor \in Users \union Services, NEW p \in Permissions,
              NEW a \in Arguments, NEW s \in Services,
              ServiceAccountPermissionGrant(proc, actor, s, p, a)
       PROVE  Goal
  BY <1>6, <1>11 DEF ServiceAccountPermissionGrant, GrantPermissionToServiceAccount
<1>12. Goal
  BY <1>3, <1>4, <1>5, <1>7, <1>8, <1>9, <1>10, <1>11 DEF Handle
<1> QED
  BY <1>12 DEF Goal

LEMMA SpareKeeps ==
    ASSUME PermissionsAssumption, NoneBetween, IInv, SpareInv, [Next]_vars
    PROVE  SpareInv'
<1>t. TypeOK /\ txn \in [Procs -> Seq(Write)]
  BY DEF IInv, TypeOK
<1>1. ASSUME NEW proc \in Procs, Commit(proc)
      PROVE  SpareInv'
  <2> DEFINE s == txn[proc]
  <2>1. /\ CommitOf(s[1]) /\ 1 \in 1..Len(s) /\ s[1] \in Write
        /\ txn' = [txn EXCEPT ![proc] = Tail(s)]
        /\ \A n \in 1..Len(Tail(s)) : n + 1 \in 1..Len(s) /\ Tail(s)[n] = s[n + 1]
    <3>1. CommitOf(Head(s))
      BY <1>1 DEF Commit, CommitOf
    <3> QED
      BY <1>1, <1>t, <3>1, CommitFields
  <2>2. ASSUME NEW x \in groupGrants' \ groupGrants
        PROVE  s[1].op = "grant" /\ x = s[1].grant
    BY <2>1, <2>2
    DEF CommitOf, CommitCreate, CommitAuditing, CommitFile, CommitDecide, CommitGrant,
        CommitServe, CommitDisable
  <2>3. ASSUME NEW q \in Procs, NEW n \in 1..Len(txn'[q])
        PROVE  \E k \in 1..Len(txn[q]) : txn'[q][n] = txn[q][k]
    <3>1. CASE q = proc
      <4>1. txn'[q] = Tail(s)
        BY <1>t, <2>1, <3>1
      <4> QED
        BY <2>1, <2>3, <3>1, <4>1
    <3>2. CASE q # proc
      <4>1. txn'[q] = txn[q]
        BY <1>t, <2>1, <3>2
      <4> QED
        BY <2>3, <4>1
    <3> QED
      BY <3>1, <3>2
  <2>4. \A w : (\E q \in Procs : \E k \in 1..Len(txn[q]) : w = txn[q][k]) => Spares(w)'
    <3>1. SUFFICES ASSUME NEW w, NEW q \in Procs, NEW k \in 1..Len(txn[q]), w = txn[q][k]
                   PROVE  Spares(w)'
      OBVIOUS
    <3>2. Spares(w) /\ ~Between(s[1], w)
      BY <2>1, <3>1 DEF SpareInv, NoneBetween
    <3> QED
      BY <2>2, <3>2 DEF Spares, Between
  <2>5. ASSUME NEW q \in Procs, NEW n \in 1..Len(txn'[q]), NEW w, w = txn'[q][n]
        PROVE  Spares(w)'
    BY <2>3, <2>4, <2>5
  <2> QED
    BY <2>5 DEF SpareInv, Spares
<1>2. ASSUME UNCHANGED groupGrants, NEW proc \in Procs, NEW commits,
             txn' = [txn EXCEPT ![proc] = commits],
             \A n \in 1..Len(commits) : Spares(commits[n])
      PROVE  SpareInv'
  <2>1. \A q \in Procs : \A n \in 1..Len(txn'[q]) : Spares(txn'[q][n])
    BY <1>t, <1>2 DEF SpareInv
  <2> QED
    BY <1>2, <2>1 DEF SpareInv, Spares
<1>3. ASSUME NEW proc \in Procs, Handle(proc)
      PROVE  SpareInv'
  <2>1. \E commits : Begin(proc, commits)
    BY <1>3, <1>t, HandleBegins
  <2>2. /\ UNCHANGED groupGrants
        /\ txn' = [txn EXCEPT ![proc] = txn'[proc]]
    BY <1>t, <2>1 DEF Begin, tables
  <2>3. \A n \in 1..Len(txn'[proc]) : Spares(txn'[proc][n])
    BY <1>3, <1>t, BeginsSpare DEF Spares
  <2> QED
    BY <1>2, <2>2, <2>3
<1>4. ASSUME NEW proc \in Procs, Revoke(proc)
      PROVE  SpareInv'
  <2>1. 1 \in 1..Len(txn[proc])
    <3>1. txn[proc] \in Seq(Write) /\ txn[proc] # << >>
      BY <1>4, <1>t DEF Revoke, RevokeAllGroupGrants, RevokeAllServiceAccountGrants, Idle
    <3> QED
      BY <3>1
  <2>2. SafeWrite(txn[proc][1]) /\ Spares(txn[proc][1])
    BY <2>1 DEF IInv, SpareInv
  <2>3. PICK w \in Write : Spares(w) /\ Continue(proc, w)
    BY <1>4, <1>t, <2>2, RevokeReads
  <2>4. \A n \in 1..Len(<<w>>) : Spares(<<w>>[n])
    BY <2>3
  <2> QED
    BY <1>2, <2>3, <2>4 DEF Continue, tables
<1>5. ASSUME NEW proc \in Procs, Crash(proc)
      PROVE  SpareInv'
  <2>1. txn' = [txn EXCEPT ![proc] = << >>] /\ UNCHANGED groupGrants
    BY <1>5 DEF Crash, tables
  <2>2. \A n \in 1..Len(<< >>) : Spares(<< >>[n])
    OBVIOUS
  <2> QED
    BY <1>2, <2>1, <2>2
<1>6. CASE UNCHANGED <<groupGrants, txn>>
  BY <1>6 DEF SpareInv, Spares
<1> QED
  BY <1>1, <1>3, <1>4, <1>5, <1>6 DEF Next, Revoke, UpdateFromDb, Toggle, vars, tables

LEMMA SpareAlways == Spec /\ []NoneBetween => [](IInv /\ SpareInv)
<1>1. Init => SpareInv
  BY DEF Init, SpareInv
<1> QED
  BY <1>1, InitKeeps, NextKeeps, SpareKeeps, PermissionsAssumption, PTL DEF Spec

\* Disabling a permission takes nothing away but grants of it, however many
\* processes change grants between the queries and the commit, as long as none
\* grants that permission to a group between the two deletions: the query for the
\* accounts' grants is not restricted to the permission.
THEOREM SparesOthers == Spec /\ []NoneBetween => DisablingSparesOthers
<1>1. ASSUME IInv, SpareInv, [Next]_vars, NEW p \in Permissions,
             permission[p] = "enabled", permission'[p] = "disabled",
             NEW x \in groupGrants \union serviceGrants, x[2] # p
      PROVE  x \in groupGrants' \union serviceGrants'
  <2>1. PICK proc \in Procs :
              /\ 1 \in 1..Len(txn[proc])
              /\ txn[proc][1].op = "disable" /\ txn[proc][1].permission = p
              /\ CommitDisable(txn[proc][1])
    BY <1>1, DisabledByCommit, PermissionsAssumption
  <2>2. SafeWrite(txn[proc][1]) /\ Spares(txn[proc][1])
    BY <1>1, <2>1 DEF IInv, SpareInv
  <2> QED
    BY <1>1, <2>1, <2>2 DEF SafeWrite, Spares, CommitDisable
<1>2. IInv /\ SpareInv /\ [Next]_vars =>
        [\A p \in Permissions :
            permission[p] = "enabled" /\ permission'[p] = "disabled"
            => \A x \in groupGrants \union serviceGrants :
                  x[2] # p => x \in groupGrants' \union serviceGrants']_vars
  BY <1>1
<1> QED
  BY <1>2, SpareAlways, PTL DEF Spec, DisablingSparesOthers

-----------------------------------------------------------------------------
(* Processes that leave each other what they have read.                    *)

\* The commits of the processes are ready, and no request is filed twice.
WorkInv ==
    /\ \A proc \in Procs : Prepared(txn[proc])
    /\ OnePendingPermissionRequest

LEMMA NothingPrepared == Prepared(<< >>)
BY DEF Prepared

\* What is ready stays ready as long as the tables it looks at stay.
LEMMA StillPrepared ==
    ASSUME UNCHANGED <<permission, audited, groupGrants, serviceGrants, requests>>,
           NEW commits, Prepared(commits)
    PROVE  Prepared(commits)'
BY DEF Prepared, SafeWrite, Ready, PendingRequests, Approvable, AuditAllows

\* After the first commit at most a grant is left, which is always ready.
LEMMA GrantsPrepared ==
    ASSUME NEW commits \in Seq(Write),
           \A n \in 1..Len(commits) : commits[n].op = "grant"
    PROVE  Prepared(commits)'
BY DEF Prepared, SafeWrite, Ready, Disabling

LEMMA RestPrepared ==
    ASSUME TypeOK, NEW proc \in Procs, Prepared(txn[proc]), Commit(proc)
    PROVE  Prepared(txn[proc])'
<1> DEFINE s == txn[proc]
<1>1. /\ Tail(s) \in Seq(Write) /\ txn' = [txn EXCEPT ![proc] = Tail(s)]
      /\ \A n \in 1..Len(Tail(s)) : n + 1 \in 1..Len(s) /\ Tail(s)[n] = s[n + 1]
  BY CommitFields
<1>2. \A n \in 1..Len(Tail(s)) : Tail(s)[n].op = "grant"
  BY <1>1 DEF Prepared
<1>3. txn'[proc] = Tail(s)
  BY <1>1 DEF TypeOK
<1>4. \A commits : (commits = txn'[proc] /\ commits = Tail(s)) => Prepared(commits)'
  BY <1>1, <1>2, GrantsPrepared
<1> QED
  BY <1>3, <1>4

\* A commit of what is ready keeps every request single: it files one that has
\* no pending double, or decides one.
LEMMA CommitKeepsSingle ==
    ASSUME TypeOK, OnePendingPermissionRequest, NEW w \in Write, Ready(w), CommitOf(w)
    PROVE  OnePendingPermissionRequest'
<1> SUFFICES ASSUME NEW g \in Groups, NEW p \in Permissions, NEW a \in Arguments,
                    NEW i \in PendingRequests(g, p, a)',
                    NEW j \in PendingRequests(g, p, a)'
             PROVE  i = j
  BY DEF OnePendingPermissionRequest
<1>1. CASE w.op = "file" /\ CommitFile(w)
  <2>1. requests' = Append(requests, w.request) /\ requests \in Seq(Request)
        /\ w.request \in Request
    BY <1>1, WriteFields DEF CommitFile, TypeOK
  <2>2. /\ Len(requests') = Len(requests) + 1 /\ Len(requests) \in Nat
        /\ requests'[Len(requests) + 1] = w.request
        /\ \A k \in 1..Len(requests) : requests'[k] = requests[k]
    BY <2>1
  <2>3. ASSUME NEW k \in PendingRequests(g, p, a)', k # Len(requests) + 1
        PROVE  k \in PendingRequests(g, p, a)
    BY <2>2, <2>3 DEF PendingRequests
  <2>4. CASE Len(requests) + 1 \notin PendingRequests(g, p, a)'
    BY <2>3, <2>4 DEF OnePendingPermissionRequest
  <2>5. CASE Len(requests) + 1 \in PendingRequests(g, p, a)'
    <3>1. w.request.group = g /\ w.request.permission = p /\ w.request.argument = a
      BY <2>2, <2>5 DEF PendingRequests
    <3>2. PendingRequests(g, p, a) = {}
      BY <1>1, <3>1 DEF Ready
    <3> QED
      BY <2>3, <3>2
  <2> QED
    BY <2>4, <2>5
<1>2. CASE w.op = "decide" /\ CommitDecide(w)
  <2>1. /\ requests' = [requests EXCEPT ![w.id].status = w.status]
        /\ requests \in Seq(Request) /\ w.status # "pending" /\ w.id \in 1..Len(requests)
    BY <1>2, WriteFields DEF CommitDecide, TypeOK, Ready
  <2>2. Len(requests') = Len(requests) /\ Len(requests) \in Nat
    BY <2>1
  <2>3. ASSUME NEW k \in 1..Len(requests)
        PROVE  requests'[k] = IF k = w.id THEN [requests[k] EXCEPT !.status = w.status]
                              ELSE requests[k]
    BY <2>1
  <2>4. ASSUME NEW k \in 1..Len(requests), requests'[k].status = "pending"
        PROVE  requests'[k] = requests[k]
    BY <2>1, <2>3, <2>4 DEF Request
  <2>5. i \in PendingRequests(g, p, a) /\ j \in PendingRequests(g, p, a)
    BY <2>2, <2>4 DEF PendingRequests
  <2> QED
    BY <2>5 DEF OnePendingPermissionRequest
<1>3. CASE requests' = requests
  BY <1>3 DEF PendingRequests, OnePendingPermissionRequest
<1> QED
  BY <1>1, <1>2, <1>3
  DEF CommitOf, CommitCreate, CommitAuditing, CommitGrant, CommitServe, CommitDisable

\* The commit v takes away what the handler of w has read: both file the same
\* request or decide the same one, or v makes the permission audited whose request
\* w decides, or grants the permission that w disables.
Clashes(v, w) ==
    \/ v.op = "file" /\ w.op = "file" /\ v.request = w.request
    \/ v.op = "decide" /\ w.op = "decide" /\ v.id = w.id
    \/ /\ v.op = "audit" /\ w.op = "decide"
       /\ v.permission = requests[w.id].permission
    \/ /\ v.op \in {"grant", "serve"} /\ w.op \in Disabling
       /\ v.grant[2] = w.permission

\* No process at work takes away what another one at work has read.
NoClash ==
    \A a, b \in Procs :
        (\E m \in 1..Len(txn[a]), n \in 1..Len(txn[b]) :
            Clashes(txn[a][m], txn[b][n])) => a = b

\* What waits in another process stays ready.
LEMMA OthersReady ==
    ASSUME TypeOK, NEW v \in Write, Ready(v), CommitOf(v),
           NEW w \in Write, Ready(w), ~Clashes(v, w)
    PROVE  Ready(w)'
<1>1. CASE w.op = "file"
  <2>1. w.request \in Request /\ w.request.status = "pending"
    BY <1>1, WriteFields DEF Ready
  <2>2. PICK g, p, a : /\ g = w.request.group /\ p = w.request.permission
                       /\ a = w.request.argument
    OBVIOUS
  <2>3. PendingRequests(g, p, a) = {}
    BY <1>1, <2>2 DEF Ready
  <2>4. CASE v.op = "file"
    <3>1. /\ requests' = Append(requests, v.request) /\ requests \in Seq(Request)
          /\ v.request \in Request /\ v.request.status = "pending"
          /\ v.request # w.request
      BY <1>1, <2>4, WriteFields DEF CommitOf, CommitFile, TypeOK, Ready, Clashes
    <3>2. ~(v.request.group = g /\ v.request.permission = p /\ v.request.argument = a)
      BY <2>1, <2>2, <3>1 DEF Request
    <3>3. PendingRequests(g, p, a)' = {}
      BY <2>3, <3>1, <3>2 DEF PendingRequests
    <3> QED
      BY <1>1, <2>1, <2>2, <3>3 DEF Ready, Disabling
  <2>5. CASE v.op = "decide"
    <3>1. /\ requests' = [requests EXCEPT ![v.id].status = v.status]
          /\ requests \in Seq(Request) /\ v.status # "pending"
      BY <2>5, WriteFields DEF CommitOf, CommitDecide, TypeOK
    <3>2. /\ Len(requests') = Len(requests)
          /\ \A i \in 1..Len(requests) :
                requests'[i] = IF i = v.id THEN [requests[i] EXCEPT !.status = v.status]
                               ELSE requests[i]
      BY <3>1
    <3>3. \A q \in Request : [q EXCEPT !.status = v.status].status = v.status
      BY DEF Request
    <3>4. \A i \in 1..Len(requests) : requests[i] \in Request
      BY <3>1
    <3>5. \A i \in 1..Len(requests) :
             requests'[i].status = "pending" => requests'[i] = requests[i]
      BY <3>1, <3>2, <3>3, <3>4
    <3>6. PendingRequests(g, p, a)' = {}
      BY <2>3, <3>2, <3>5 DEF PendingRequests
    <3> QED
      BY <1>1, <2>1, <2>2, <3>6 DEF Ready, Disabling
  <2>6. CASE v.op \notin {"file", "decide"}
    <3>1. requests' = requests
      BY <2>6 DEF CommitOf, CommitCreate, CommitAuditing, CommitGrant, CommitServe,
                  CommitDisable
    <3> QED
      BY <1>1, <3>1 DEF Ready, PendingRequests, Disabling
  <2> QED
    BY <2>4, <2>5, <2>6
<1>2. CASE w.op = "decide"
  <2>1. /\ w.id \in 1..Len(requests) /\ requests[w.id].status = "pending"
        /\ Approvable(requests[w.id], w.status) /\ requests \in Seq(Request)
    BY <1>2 DEF Ready, TypeOK
  <2>2. w.id \in 1..Len(requests') /\ requests'[w.id] = requests[w.id]
    <3>1. CASE v.op = "file"
      BY <2>1, <3>1, WriteFields DEF CommitOf, CommitFile
    <3>2. CASE v.op = "decide"
      BY <1>2, <2>1, <3>2 DEF CommitOf, CommitDecide, Clashes
    <3>3. CASE v.op \notin {"file", "decide"}
      BY <2>1, <3>3 DEF CommitOf, CommitCreate, CommitAuditing, CommitGrant,
                        CommitServe, CommitDisable
    <3> QED
      BY <3>1, <3>2, <3>3
  <2>3. requests[w.id].permission \in audited' => requests[w.id].permission \in audited
    <3>1. CASE v.op = "audit"
      BY <1>2, <3>1 DEF CommitOf, CommitAuditing, Clashes
    <3>2. CASE v.op # "audit"
      BY <3>2 DEF CommitOf, CommitCreate, CommitAuditing, CommitFile, CommitDecide,
                  CommitGrant, CommitServe, CommitDisable
    <3> QED
      BY <3>1, <3>2
  <2>4. PICK q : q = requests[w.id] /\ q = requests'[w.id]
    BY <2>2
  <2>5. Approvable(q, w.status)'
    BY <2>1, <2>3, <2>4 DEF Approvable, AuditAllows
  <2> QED
    BY <1>2, <2>1, <2>2, <2>4, <2>5 DEF Ready, Disabling
<1>3. CASE w.op \in Disabling
  <2>1. permission \in [Permissions -> {"absent", "enabled", "disabled"}]
        /\ w.permission \in Permissions /\ permission[w.permission] # "absent"
    BY <1>3, WriteFields DEF TypeOK, Ready
  <2>2. \/ permission'[w.permission] = permission[w.permission]
        \/ permission'[w.permission] = "disabled"
    BY <2>1, WriteFields
    DEF CommitOf, CommitCreate, CommitAuditing, CommitFile, CommitDecide, CommitGrant,
        CommitServe, CommitDisable
  <2>3. \A x \in groupGrants' : x[2] = w.permission => x \in groupGrants
    BY <1>3 DEF CommitOf, CommitCreate, CommitAuditing, CommitFile, CommitDecide,
                CommitGrant, CommitServe, CommitDisable, Clashes
  <2>4. \A x \in serviceGrants' : x[2] = w.permission => x \in serviceGrants
    BY <1>3 DEF CommitOf, CommitCreate, CommitAuditing, CommitFile, CommitDecide,
                CommitGrant, CommitServe, CommitDisable, Clashes
  <2> QED
    BY <1>3, <2>1, <2>2, <2>3, <2>4 DEF Ready, Disabling
<1>4. CASE w.op \notin {"file", "decide"} \union Disabling
  BY <1>4 DEF Ready, Disabling
<1> QED
  BY <1>1, <1>2, <1>3, <1>4

LEMMA WorkKeeps ==
    ASSUME PermissionsAssumption, NoClash, IInv, WorkInv, [Next]_vars
    PROVE  WorkInv'
<1>1. ASSUME NEW proc \in Procs, Commit(proc)
      PROVE  WorkInv'
  <2>1. Prepared(txn[proc])'
    BY <1>1, RestPrepared DEF IInv, WorkInv
  <2>2. CommitOf(Head(txn[proc]))
    BY <1>1 DEF Commit, CommitOf
  <2>3. /\ Head(txn[proc]) \in Write /\ Ready(Head(txn[proc]))
        /\ Head(txn[proc]) = txn[proc][1] /\ 1 \in 1..Len(txn[proc])
    BY <1>1, CommitFields DEF IInv, WorkInv, Prepared
  <2>4. ASSUME NEW q \in Procs, q # proc
        PROVE  Prepared(txn[q])'
    <3>1. PICK c : c = txn[q]
      OBVIOUS
    <3>2. c \in Seq(Write) /\ Prepared(c) /\ txn'[q] = c
      BY <1>1, <2>4, <3>1 DEF WorkInv, Prepared, Commit, IInv, TypeOK
    <3>3. ASSUME NEW n \in 1..Len(c)
          PROVE  Ready(c[n])'
      <4>1. ~Clashes(Head(txn[proc]), c[n])
        BY <2>4, <2>3, <3>1 DEF NoClash
      <4>2. c[n] \in Write /\ Ready(c[n])
        BY <3>2 DEF Prepared
      <4>3. PICK v, w : v = Head(txn[proc]) /\ w = c[n]
        OBVIOUS
      <4>4. Ready(w)'
        BY <2>2, <2>3, <4>1, <4>2, <4>3, OthersReady DEF IInv
      <4> QED
        BY <4>3, <4>4
    <3>4. Prepared(c)'
      BY <3>2, <3>3 DEF Prepared, SafeWrite
    <3> QED
      BY <3>2, <3>4
  <2>5. OnePendingPermissionRequest'
    BY <2>2, <2>3, CommitKeepsSingle DEF IInv, WorkInv
  <2> QED
    BY <2>1, <2>4, <2>5 DEF WorkInv
<1>2. ASSUME UNCHANGED <<permission, audited, groupGrants, serviceGrants, requests>>,
             NEW proc \in Procs, NEW commits, Prepared(commits),
             txn' = [txn EXCEPT ![proc] = commits]
      PROVE  WorkInv'
  <2>1. ASSUME NEW q \in Procs
        PROVE  Prepared(txn[q])'
    <3>1. \E c : c = txn'[q] /\ Prepared(c)
      BY <1>2 DEF IInv, TypeOK, WorkInv
    <3>2. \A c : Prepared(c) => Prepared(c)'
      BY <1>2, StillPrepared
    <3> QED
      BY <3>1, <3>2
  <2>2. OnePendingPermissionRequest'
    BY <1>2 DEF WorkInv, OnePendingPermissionRequest, PendingRequests
  <2> QED
    BY <2>1, <2>2 DEF WorkInv
<1>3. ASSUME UNCHANGED <<permission, audited, groupGrants, serviceGrants, requests>>,
             txn' = txn
      PROVE  WorkInv'
  <2>1. \A q \in Procs : Prepared(txn[q])'
    BY <1>3, StillPrepared DEF WorkInv
  <2>2. OnePendingPermissionRequest'
    BY <1>3 DEF WorkInv, OnePendingPermissionRequest, PendingRequests
  <2> QED
    BY <2>1, <2>2 DEF WorkInv
<1>4. ASSUME NEW proc \in Procs, Revoke(proc)
      PROVE  WorkInv'
  <2>1. txn[proc] \in Seq(Write) /\ txn[proc] # << >>
    BY <1>4 DEF IInv, TypeOK, Revoke, RevokeAllGroupGrants, RevokeAllServiceAccountGrants,
                Idle
  <2>2. SafeWrite(txn[proc][1]) /\ Ready(txn[proc][1])
    BY <2>1 DEF WorkInv, Prepared
  <2>3. PICK w \in Write : SafeWrite(w) /\ Ready(w) /\ Continue(proc, w)
    BY <1>4, <2>2, RevokeReads DEF IInv
  <2>4. Prepared(<<w>>)
    BY <2>3, OneWrite
  <2> QED
    BY <1>2, <2>3, <2>4 DEF Continue, tables
<1> QED
  BY <1>1, <1>2, <1>3, <1>4, NothingPrepared, Steps DEF IInv

LEMMA WorkAlways == Spec /\ []NoClash => [](IInv /\ WorkInv)
<1>1. Init => WorkInv
  BY NothingPrepared DEF Init, WorkInv, OnePendingPermissionRequest, PendingRequests
<1> QED
  BY <1>1, InitKeeps, NextKeeps, WorkKeeps, PermissionsAssumption, PTL DEF Spec

\* However many workers there are: unless one takes away what another has read,
\* create_request never files a request for what a group has asked for already.
THEOREM RequestsAreSingle == Spec /\ []NoClash => []OnePendingPermissionRequest
<1>1. WorkInv => OnePendingPermissionRequest
  BY DEF WorkInv
<1> QED
  BY <1>1, WorkAlways, PTL

\* What can become of a request in one step.
LEMMA RequestSteps ==
    ASSUME PermissionsAssumption, IInv, WorkInv, [Next]_vars, NEW i \in 1..Len(requests)
    PROVE  \/ requests'[i] = requests[i]
           \/ /\ requests[i].status = "pending"
              /\ requests'[i].status = "actioned" =>
                    AuditAllows(requests[i].group, requests[i].permission)
<1>1. CASE requests' = requests
  BY <1>1
<1>2. ASSUME requests' # requests
      PROVE  \E proc \in Procs : Commit(proc)
  <2>1. \A proc \in Procs : Revoke(proc) => requests' = requests
    BY DEF Revoke, RevokeAllGroupGrants, RevokeAllServiceAccountGrants, Continue, tables
  <2> QED
    BY <1>2, <2>1, Steps DEF IInv
<1>3. ASSUME NEW proc \in Procs, Commit(proc)
      PROVE  \E w \in Write : Ready(w) /\ CommitOf(w)
  <2>1. CommitOf(Head(txn[proc]))
    BY <1>3 DEF Commit, CommitOf
  <2> QED
    BY <1>3, <2>1, CommitFields DEF IInv, WorkInv, Prepared
<1>4. ASSUME NEW w \in Write, Ready(w), w.op = "file", CommitFile(w)
      PROVE  requests'[i] = requests[i]
  BY <1>4, WriteFields DEF CommitFile, IInv, TypeOK
<1>5. ASSUME NEW w \in Write, Ready(w), w.op = "decide", CommitDecide(w)
      PROVE  \/ requests'[i] = requests[i]
             \/ /\ requests[i].status = "pending"
                /\ requests'[i].status = "actioned" =>
                      AuditAllows(requests[i].group, requests[i].permission)
  <2>1. /\ requests' = [requests EXCEPT ![w.id].status = w.status]
        /\ requests \in Seq(Request) /\ w.id \in 1..Len(requests)
        /\ requests[w.id].status = "pending" /\ Approvable(requests[w.id], w.status)
    BY <1>5 DEF CommitDecide, IInv, TypeOK, Ready
  <2>2. CASE i # w.id
    BY <2>1, <2>2
  <2>3. CASE i = w.id
    <3>1. requests[i] \in Request /\ requests'[i] = [requests[i] EXCEPT !.status = w.status]
      BY <2>1, <2>3
    <3>2. \A r \in Request : [r EXCEPT !.status = w.status].status = w.status
      BY DEF Request
    <3>3. requests'[i].status = w.status
      BY <3>1, <3>2
    <3> QED
      BY <2>1, <2>3, <3>3 DEF Approvable
  <2> QED
    BY <2>2, <2>3
<1>6. ASSUME NEW w \in Write, CommitOf(w), w.op \notin {"file", "decide"}
      PROVE  requests' = requests
  BY <1>6 DEF CommitOf, CommitCreate, CommitAuditing, CommitGrant, CommitServe,
              CommitDisable
<1> QED
  BY <1>1, <1>2, <1>3, <1>4, <1>5, <1>6 DEF CommitOf

\* A request that has been decided keeps its status, unless two workers decide it.
THEOREM DecisionsStay == Spec /\ []NoClash => DecidedRequestsStay
<1>1. IInv /\ WorkInv /\ [Next]_vars =>
        [\A i \in 1..Len(requests) :
            requests[i].status # "pending" => requests'[i] = requests[i]]_vars
  BY RequestSteps, PermissionsAssumption
<1> QED
  BY <1>1, WorkAlways, PTL DEF Spec, DecidedRequestsStay

\* No approval gives an audited permission to a group whose controllers are not
\* auditors, however long ago the request was filed, unless another worker makes
\* the permission audited while update_request is at work on it.
THEOREM ApprovalsAudited == Spec /\ []NoClash => ApprovalsRecheckAuditing
<1>1. IInv /\ WorkInv /\ [Next]_vars =>
        [\A i \in 1..Len(requests) :
            /\ requests[i].status = "pending"
            /\ requests'[i].status = "actioned"
            /\ requests[i].permission \in audited
            => requests[i].group \in Controlled]_vars
  BY RequestSteps, PermissionsAssumption DEF AuditAllows
<1> QED
  BY <1>1, WorkAlways, PTL DEF Spec, ApprovalsRecheckAuditing

\* A permission that is disabled is left with nobody, disabled groups and accounts
\* included, unless another worker grants it meanwhile.
THEOREM DisablingRevokes == Spec /\ []NoClash => DisablingRevokesAll
<1>1. ASSUME IInv, WorkInv, [Next]_vars, NEW p \in Permissions,
             permission[p] = "enabled", permission'[p] = "disabled",
             NEW x \in groupGrants' \union serviceGrants'
      PROVE  x[2] # p
  <2>1. PICK proc \in Procs :
              /\ 1 \in 1..Len(txn[proc])
              /\ txn[proc][1].op = "disable" /\ txn[proc][1].permission = p
              /\ CommitDisable(txn[proc][1])
    BY <1>1, DisabledByCommit, PermissionsAssumption
  <2>2. Ready(txn[proc][1])
    BY <1>1, <2>1 DEF WorkInv, Prepared
  <2> QED
    BY <1>1, <2>1, <2>2 DEF Ready, CommitDisable, Disabling
<1>2. IInv /\ WorkInv /\ [Next]_vars =>
        [\A p \in Permissions :
            permission[p] = "enabled" /\ permission'[p] = "disabled"
            => \A x \in groupGrants' \union serviceGrants' : x[2] # p]_vars
  BY <1>1
<1> QED
  BY <1>2, WorkAlways, PTL DEF Spec, DisablingRevokesAll
=============================================================================
