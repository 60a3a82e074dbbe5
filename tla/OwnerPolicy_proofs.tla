------------------------ MODULE OwnerPolicy_proofs ------------------------
(***************************************************************************)
(* The group ownership policy keeps a permanent owner in every enabled     *)
(* group, for every number of users, groups and processes, where no two     *)
(* processes change the same group at a time, nobody else works while an    *)
(* account is disabled, and the expiry task's list is current.              *)
(***************************************************************************)
EXTENDS GroupMembership_proofs

-----------------------------------------------------------------------------
(* The property speaks of single commits, the plugin was asked before the   *)
(* first of them.  What it found then is carried through the commits that   *)
(* are left.                                                                *)

\* The commits of a list are parts of one change of one membership.
OneChange(commits) ==
    \A n \in 2..Len(commits) :
        LET w == commits[1]
            v == commits[n]
        IN  /\ w.op = "edge" /\ v.op = "edge" /\ ~v.insert
            /\ v.group = w.group /\ v.member = w.member
            /\ v.role = w.role /\ v.request = w.request
            /\ v.changes.role = w.changes.role
            /\ v.changes.expiration = w.changes.expiration
            /\ v.changes.active = w.changes.active

\* A commit that can take an owner away.
TakesAway(changes) ==
    \/ "role" \in changes.keys /\ changes.role \notin OwnerRoles
    \/ "expiration" \in changes.keys /\ changes.expiration # Forever
    \/ "active" \in changes.keys /\ ~changes.active

\* The member is no permanent owner, and none of the commits makes it one: its
\* account is disabled, or it loses the role with the first, or the date comes
\* before the membership.
StaysOut(commits) ==
    LET w == commits[1]
        e == edges[w.group][w.member]
    IN  /\ w.member \notin PermanentOwners(w.group)
        /\ \/ ~userEnabled[w.member]
           \/ /\ ~w.insert /\ w.changes.role \notin OwnerRoles
              /\ e.role \notin OwnerRoles \/ "role" \in w.changes.keys
           \/ /\ w.changes.expiration # Forever
              /\ \/ ~w.insert /\ e.expiration # Forever
                 \/ /\ ~(e.row /\ e.active)
                    /\ \A n \in 1..Len(commits) :
                          "active" \in commits[n].changes.keys =>
                              \E k \in 1..n :
                                  "expiration" \in commits[k].changes.keys

\* A change the policy has let through takes nothing away, or leaves another
\* owner, or is about nobody it counts.
LetThrough(commits) ==
    LET w == commits[1]
    IN  \/ \A n \in 1..Len(commits) : ~TakesAway(commits[n].changes)
        \/ \E o \in PermanentOwners(w.group) : o # w.member
        \/ StaysOut(commits)

Kept(commits) ==
    LET w == commits[1]
    IN  commits # << >> =>
          /\ OneChange(commits)
          /\ (/\ w.op = "edge" /\ w.member \in Users
              /\ w.request = 0 /\ w.role \in OwnerRoles) => LetThrough(commits)
          /\ (w.op = "user" /\ ~w.to) =>
                \A g \in Groups : groupStatus[g] = "enabled" =>
                                      ~IsLastPermanentOwner(g, w.user)

PolicyInv == \A p \in Procs : Kept(txn[p])

\* There is a commit to come that writes a row of group g.
ChangesGroup(commits, g) ==
    \E n \in 1..Len(commits) :
        commits[n].op \in {"edge", "file", "create"} /\ commits[n].group = g

ChangesAccount(commits) == \E n \in 1..Len(commits) : commits[n].op = "user"

\* What the plugin counts is one group's owners, or a user's groups: no two
\* processes work on the same group, and none works while another enables or
\* disables an account.
GroupsApart ==
    \A p, q \in Procs :
        \/ \E g \in Groups : ChangesGroup(txn[p], g) /\ ChangesGroup(txn[q], g)
        \/ ChangesAccount(txn[p]) /\ txn[q] # << >>
        => p = q

-----------------------------------------------------------------------------
(* The handlers.                                                           *)

LEMMA RoleComesFirst ==
    ASSUME NEW cut1, NEW cut2
    PROVE  /\ 1 \in DOMAIN Segments(cut1, cut2)
           /\ "role" \in Segments(cut1, cut2)[1]
<1>1. \/ Segments(cut1, cut2) = << {"role"}, {"expiration"}, {"active"} >>
      \/ Segments(cut1, cut2) = << {"role"}, {"expiration", "active"} >>
      \/ Segments(cut1, cut2) = << {"role", "expiration"}, {"active"} >>
      \/ Segments(cut1, cut2) = << Columns >>
  BY DEF Segments
<1> QED
  BY <1>1 DEF Columns

\* The commits of a change: what they have in common and in which order its
\* columns are written.
OfChange(c, g, m, e, insert, changes, request) ==
    /\ c # << >> /\ OneChange(c)
    /\ c[1].op = "edge" /\ c[1].group = g /\ c[1].member = m
    /\ c[1].insert = insert /\ c[1].role = e.role /\ c[1].request = request
    /\ "role" \in Differing(e, changes) => "role" \in c[1].changes.keys
    /\ \A n \in 1..Len(c) :
          /\ c[n].changes.keys \subseteq changes.keys
          /\ c[n].changes.role = changes.role
          /\ c[n].changes.expiration = changes.expiration
          /\ c[n].changes.active = changes.active
          /\ ("active" \in c[n].changes.keys
              /\ "expiration" \in Differing(e, changes)) =>
                 \E k \in 1..n : "expiration" \in c[k].changes.keys

LEMMA CommitsOfOneChange ==
    ASSUME NEW g \in Groups, NEW m \in Members, NEW e \in Edge,
           NEW insert \in BOOLEAN, NEW changes \in Changes, NEW request \in Nat,
           NEW status \in {"none", "actioned", "cancelled"},
           m \in Groups => e.role = "member" /\ changes.role = "member"
    PROVE  OfChange(Commits(g, m, e, insert, changes, request, status),
                    g, m, e, insert, changes, request)
<1> DEFINE s == Segments(CommitsAfterRole(g, m, e, changes),
                         CommitsAfterExpiration(changes))
           keys(n) == s[n] \cap IF n = 1 THEN Differing(e, changes)
                                ELSE changes.keys
           c == Commits(g, m, e, insert, changes, request, status)
<1>1. c \in Seq(SafeWrite)
  BY CommitsType
<1>2. PICK len \in Nat :
        /\ DOMAIN s = 1..len
        /\ \A n \in 1..len : "active" \in s[n] =>
              \E k \in 1..n : "expiration" \in s[k]
  BY SegmentsOrder
<1>3. 1 \in 1..len /\ "role" \in s[1]
  BY <1>2, RoleComesFirst
<1>4. c = [n \in 1..len |->
             [op |-> "edge", group |-> g, member |-> m,
              insert |-> insert /\ n = 1, role |-> e.role,
              changes |-> [changes EXCEPT !.keys = s[n] \cap
                             IF n = 1 THEN Differing(e, changes) ELSE @],
              request |-> request, status |-> IF n = 1 THEN status ELSE "none"]]
  BY <1>2 DEF Commits
<1> HIDE DEF s, c
<1>5. Len(c) = len
  BY <1>1, <1>2, <1>4
<1>6. ASSUME NEW n \in 1..len
      PROVE  /\ c[n].op = "edge" /\ c[n].group = g /\ c[n].member = m
             /\ c[n].insert = (insert /\ n = 1) /\ c[n].request = request
             /\ c[n].role = e.role
             /\ c[n].changes.keys = keys(n)
             /\ c[n].changes.role = changes.role
             /\ c[n].changes.expiration = changes.expiration
             /\ c[n].changes.active = changes.active
  BY <1>4 DEF Changes
<1>7. Differing(e, changes) \subseteq changes.keys
  BY DEF Differing
<1>8. \A n \in 1..len : keys(n) \subseteq changes.keys
  BY <1>7
<1>9. "role" \in Differing(e, changes) => "role" \in keys(1)
  BY <1>3
<1>10. ASSUME NEW n \in 1..len, "active" \in keys(n),
              "expiration" \in Differing(e, changes)
       PROVE  \E k \in 1..n : "expiration" \in keys(k) /\ k \in 1..len
  <2>1. PICK k \in 1..n : "expiration" \in s[k]
    BY <1>2, <1>10
  <2> QED
    BY <1>2, <1>7, <1>10, <2>1
<1> HIDE DEF keys
<1>11. c # << >> /\ 1 \in 1..len
  BY <1>3, <1>5
<1>12. OneChange(c)
  <2>1. ASSUME NEW n \in 2..len
        PROVE  /\ c[1].op = "edge" /\ c[n].op = "edge" /\ ~c[n].insert
               /\ c[n].group = c[1].group /\ c[n].member = c[1].member
               /\ c[n].role = c[1].role /\ c[n].request = c[1].request
               /\ c[n].changes.role = c[1].changes.role
               /\ c[n].changes.expiration = c[1].changes.expiration
               /\ c[n].changes.active = c[1].changes.active
    <3>1. n \in 1..len /\ n # 1
      OBVIOUS
    <3> QED
      BY <1>6, <1>11, <3>1
  <2> QED
    BY <1>5, <2>1 DEF OneChange
<1>13. ASSUME NEW n \in 1..len, "active" \in c[n].changes.keys,
              "expiration" \in Differing(e, changes)
       PROVE  \E k \in 1..n : "expiration" \in c[k].changes.keys
  BY <1>6, <1>10, <1>13
<1>14. /\ c[1].op = "edge" /\ c[1].group = g /\ c[1].member = m
       /\ c[1].insert = insert /\ c[1].role = e.role /\ c[1].request = request
       /\ "role" \in Differing(e, changes) => "role" \in c[1].changes.keys
  BY <1>6, <1>9, <1>11
<1>15. OfChange(c, g, m, e, insert, changes, request)
  BY <1>5, <1>6, <1>8, <1>11, <1>12, <1>13, <1>14 DEF OfChange
<1> QED
  BY <1>15 DEF c

\* A list of one commit that is about no membership.
LEMMA OneWriteKept ==
    ASSUME NEW w, w.op # "edge",
           (w.op = "user" /\ ~w.to) =>
                \A g \in Groups : groupStatus[g] = "enabled" =>
                                      ~IsLastPermanentOwner(g, w.user)
    PROVE  Kept(<< w >>)
BY DEF Kept, OneChange

\* What persist_group_member_changes leaves to commit was let through by the
\* policy, which it has asked.
LEMMA PersistKept ==
    ASSUME OwnershipPolicy, IInv, NEW p \in Procs, NEW g \in Groups,
           NEW m \in Members, NEW status \in {"pending", "actioned"},
           NEW createEdge \in BOOLEAN, NEW updates \in Changes,
           "role" \in updates.keys, ~updates.active => updates.role = "member",
           PersistGroupMemberChanges(p, g, m, status, createEdge, updates)
    PROVE  \E c : Begin(p, c) /\ Kept(c)
<1> DEFINE old == edges[g][m]
           e == IF old.row THEN old ELSE NewEdge(updates.role)
           changes == [updates EXCEPT !.keys = Differing(e, updates)]
<1>1. updates.role \in Roles /\ (m \in Groups => updates.role = "member")
  BY DEF PersistGroupMemberChanges, ValidateRole, Changes
<1>2. old \in Edge /\ (m \in Groups => old.role = "member")
  BY DEF IInv, SafeEdges
<1>3. e \in Edge /\ (m \in Groups => e.role = "member")
  BY <1>1, <1>2, NewEdgeType
<1>4. Differing(e, updates) \subseteq Columns
  BY DEF Differing, Changes
<1>5. changes \in Changes /\ changes.role = updates.role
  BY <1>4 DEF Changes
<1>6. old.row \in BOOLEAN
  BY <1>2 DEF Edge
<1>7. /\ changes.active = updates.active /\ changes.expiration = updates.expiration
      /\ changes.keys = Differing(e, updates)
  BY DEF Changes
<1>8. /\ old.row => e = old
      /\ ~old.row => e.role = updates.role /\ e.expiration = Forever
  BY <1>1, NewEdgeType DEF NewEdge
<1>9. ~PolicyRejects(g, m, updates)
  BY DEF PersistGroupMemberChanges
<1> HIDE DEF changes, e
<1>10. Differing(e, changes) = changes.keys /\ changes.keys \subseteq updates.keys
  BY <1>5, <1>7 DEF Differing
<1>11. CASE status = "actioned"
  <2>1. PICK c : c = Commits(g, m, e, ~old.row, changes, 0, "none")
    OBVIOUS
  <2>2. Begin(p, c)
    BY <1>11, <2>1 DEF PersistGroupMemberChanges, e, changes
  <2>3. /\ c # << >> /\ OneChange(c)
        /\ c[1].op = "edge" /\ c[1].group = g /\ c[1].member = m
        /\ c[1].insert = ~old.row /\ c[1].role = e.role
        /\ "role" \in Differing(e, changes) => "role" \in c[1].changes.keys
        /\ \A n \in 1..Len(c) :
              /\ c[n].changes.keys \subseteq changes.keys
              /\ c[n].changes.role = changes.role
              /\ c[n].changes.expiration = changes.expiration
              /\ c[n].changes.active = changes.active
              /\ ("active" \in c[n].changes.keys
                  /\ "expiration" \in Differing(e, changes)) =>
                     \E k \in 1..n : "expiration" \in c[k].changes.keys
    <3>1. OfChange(c, g, m, e, ~old.row, changes, 0)
      BY <1>1, <1>3, <1>5, <1>6, <2>1, CommitsOfOneChange
    <3> QED
      BY <3>1 DEF OfChange
  <2>4. 1 \in 1..Len(c)
    <3>1. c \in Seq(SafeWrite)
      BY <1>1, <1>3, <1>5, <1>6, <2>1, CommitsType
    <3> QED
      BY <2>3, <3>1
  <2>5. ASSUME m \in Users, e.role \in OwnerRoles
        PROVE  LetThrough(c)
    <3>1. CASE ~TakesAway(updates)
      <4>1. \A n \in 1..Len(c) : ~TakesAway(c[n].changes)
        BY <1>5, <1>7, <1>10, <2>3, <3>1 DEF TakesAway
      <4> QED
        BY <4>1 DEF LetThrough
    <3>2. CASE TakesAway(updates) /\ m \in PermanentOwners(g)
      <4>1. PermanentOwners(g) # {m}
        BY <1>9, <2>5, <3>2 DEF PolicyRejects, IsLastPermanentOwner, TakesAway
      <4>2. \E o \in PermanentOwners(g) : o # m
        BY <3>2, <4>1
      <4> QED
        BY <2>3, <4>2 DEF LetThrough
    <3>3. CASE TakesAway(updates) /\ m \notin PermanentOwners(g)
      <4>1. CASE ~userEnabled[m]
        BY <2>3, <3>3, <4>1 DEF LetThrough, StaysOut
      <4>2. CASE updates.role \notin OwnerRoles
        <5>1. old.row /\ e = old /\ e.role # updates.role
          BY <1>6, <1>8, <2>5, <4>2
        <5>2. "role" \in Differing(e, changes)
          BY <1>7, <1>10, <5>1 DEF Differing
        <5>3. ~c[1].insert /\ "role" \in c[1].changes.keys
              /\ c[1].changes.role \notin OwnerRoles
          BY <1>5, <2>3, <2>4, <4>2, <5>1, <5>2
        <5> QED
          BY <2>3, <3>3, <5>3 DEF LetThrough, StaysOut
      <4>3. CASE userEnabled[m] /\ updates.role \in OwnerRoles
        <5>1. updates.active
          BY <4>3 DEF OwnerRoles
        <5>2. "expiration" \in updates.keys /\ updates.expiration # Forever
          BY <3>3, <4>3, <5>1 DEF TakesAway
        <5>3. c[1].changes.expiration # Forever
          BY <1>7, <2>3, <2>4, <5>2
        <5>4. CASE old.row /\ old.expiration # Forever
          BY <2>3, <3>3, <5>3, <5>4 DEF LetThrough, StaysOut
        <5>5. CASE ~(old.row /\ old.expiration # Forever)
          <6>1. ~(old.row /\ old.active)
            BY <1>8, <2>5, <3>3, <4>3, <5>5 DEF PermanentOwners
          <6>2. e.expiration = Forever
            BY <1>8, <5>5
          <6>3. "expiration" \in Differing(e, changes)
            BY <1>7, <1>10, <5>2, <6>2 DEF Differing
          <6>4. \A n \in 1..Len(c) : "active" \in c[n].changes.keys =>
                    \E k \in 1..n : "expiration" \in c[k].changes.keys
            BY <2>3, <6>3
          <6> QED
            BY <2>3, <3>3, <5>3, <6>1, <6>4 DEF LetThrough, StaysOut
        <5> QED
          BY <5>4, <5>5
      <4> QED
        BY <4>1, <4>2, <4>3
    <3> QED
      BY <3>1, <3>2, <3>3
  <2>6. Kept(c)
    BY <2>3, <2>5 DEF Kept
  <2> QED
    BY <2>2, <2>6
<1>12. CASE status = "pending"
  <2> DEFINE w == [op |-> "file", group |-> g, member |-> m,
                   insert |-> ~old.row, role |-> e.role,
                   changes |-> changes, status |-> status]
  <2>1. Begin(p, << w >>)
    BY <1>12 DEF PersistGroupMemberChanges, e, changes
  <2>2. w.op = "file"
    OBVIOUS
  <2> HIDE DEF w
  <2>3. Kept(<< w >>)
    BY <2>2, OneWriteKept
  <2> QED
    BY <2>1, <2>3
<1> QED
  BY <1>11, <1>12

\* The plugin is not asked when a request is decided: no claim is made of those
\* commits but that they belong together.
LEMMA RequestUpdateKept ==
    ASSUME IInv, NEW p \in Procs, NEW u \in Users, NEW g \in Groups,
           NEW i \in 1..Len(requests), NEW status \in {"actioned", "cancelled"},
           GroupRequestUpdate(p, u, g, i, status)
    PROVE  \E c : Begin(p, c) /\ Kept(c)
<1> DEFINE r == requests[i]
           e == edges[r.group][r.member]
           changes == IF status = "actioned" THEN r.changes
                      ELSE [r.changes EXCEPT !.keys = {}]
<1>1. PICK c : c = Commits(r.group, r.member, e, FALSE, changes, i, status)
  OBVIOUS
<1>2. Begin(p, c)
  BY <1>1 DEF GroupRequestUpdate
<1>3. r \in SafeRequest
  BY ElementOfSeq DEF IInv
<1>4. /\ r.group \in Groups /\ r.member \in Members /\ r.changes \in Changes
      /\ r.member \in Groups => r.changes.role = "member"
  BY <1>3 DEF SafeRequest, Request
<1>5. e \in Edge /\ (r.member \in Groups => e.role = "member")
  BY <1>4 DEF IInv, SafeEdges
<1>6. changes \in Changes /\ changes.role = r.changes.role
  BY <1>4 DEF Changes
<1>7. i \in Nat /\ i # 0
  BY LenProperties DEF IInv
<1> HIDE DEF r, e, changes
<1>8. OneChange(c) /\ c[1].op = "edge" /\ c[1].request = i
  <2>1. r.member \in Groups => e.role = "member" /\ changes.role = "member"
    BY <1>4, <1>5, <1>6
  <2>2. OfChange(c, r.group, r.member, e, FALSE, changes, i)
    BY <1>1, <1>4, <1>5, <1>6, <1>7, <2>1, CommitsOfOneChange
  <2> QED
    BY <2>2 DEF OfChange
<1>9. Kept(c)
  BY <1>7, <1>8 DEF Kept
<1> QED
  BY <1>2, <1>9

LEMMA AddMemberKept ==
    ASSUME OwnershipPolicy, IInv, NEW p \in Procs, NEW g \in Groups,
           NEW m \in Members, NEW status \in {"pending", "actioned"},
           NEW expiration \in Nat, NEW role \in Roles,
           AddMember(p, g, m, status, expiration, role)
    PROVE  \E c : Begin(p, c) /\ Kept(c)
<1> DEFINE updates == [keys |-> Columns, role |-> role,
                       expiration |-> expiration, active |-> TRUE]
<1>1. updates \in Changes /\ "role" \in updates.keys /\ updates.active
  BY DEF Changes, Columns
<1> QED
  BY <1>1, PersistKept DEF AddMember

LEMMA EditMemberKept ==
    ASSUME OwnershipPolicy, IInv, NEW p \in Procs, NEW g \in Groups,
           NEW m \in Members, NEW expiration \in Nat, NEW role \in Roles,
           EditMember(p, g, m, role, expiration)
    PROVE  \E c : Begin(p, c) /\ Kept(c)
<1> DEFINE updates == [keys |-> {"role", "expiration"}, role |-> role,
                       expiration |-> expiration, active |-> TRUE]
<1>1. updates \in Changes /\ "role" \in updates.keys /\ updates.active
  BY DEF Changes, Columns
<1> QED
  BY <1>1, PersistKept DEF EditMember

LEMMA RevokeMemberKept ==
    ASSUME OwnershipPolicy, IInv, NEW p \in Procs, NEW g \in Groups,
           NEW m \in Members, RevokeMember(p, g, m)
    PROVE  \E c : Begin(p, c) /\ Kept(c)
<1> DEFINE updates == [keys |-> Columns, role |-> "member",
                       expiration |-> Forever, active |-> FALSE]
<1>1. updates \in Changes /\ "role" \in updates.keys /\ updates.role = "member"
  BY DEF Changes, Columns, Roles, Forever
<1> QED
  BY <1>1, PersistKept DEF RevokeMember

LEMMA GroupJoinKept ==
    ASSUME OwnershipPolicy, IInv, NEW p \in Procs, NEW u \in Users,
           NEW g \in Groups, NEW m \in Members, NEW role \in FormRoles,
           NEW date \in FormDates \union {Forever},
           GroupJoin(p, u, g, m, role, date)
    PROVE  \E c : Begin(p, c) /\ Kept(c)
<1> DEFINE expiration == IF date # Forever THEN date
                         ELSE IF AutoExpire[g] # 0 THEN now + AutoExpire[g]
                         ELSE Forever
           status == IF role = "member" THEN JoinChoices[CanJoin[g]]
                     ELSE "pending"
<1>1. AddMember(p, g, m, status, expiration, role)
  BY DEF GroupJoin
<1>2. expiration \in Nat
  BY MembershipAssumption DEF IInv, Forever
<1>3. CanJoin[g] \in {"canjoin", "canask"}
  BY MembershipAssumption DEF GroupJoin, Joinable
<1>4. status \in {"pending", "actioned"}
  BY <1>3 DEF JoinChoices
<1>5. role \in Roles
  BY MembershipAssumption
<1> HIDE DEF expiration, status
<1> QED
  BY <1>1, <1>2, <1>4, <1>5, AddMemberKept

LEMMA HandlerKept ==
    ASSUME OwnershipPolicy, IInv, NEW p \in Procs, Handler(p)
    PROVE  \E c : Begin(p, c) /\ Kept(c)
<1> DEFINE Dates == FormDates \union {Forever}
           Goal == \E c : Begin(p, c) /\ Kept(c)
<1>1. PICK g \in Groups :
        \/ \E u \in Users :
            \/ \E role \in FormRoles : GroupCreate(p, u, g, role)
            \/ \E m \in Members, role \in FormRoles,
                  date \in FormDates \union {Forever} :
                \/ GroupJoin(p, u, g, m, role, date)
                \/ GroupAdd(p, u, g, m, role, date)
                \/ GroupEditMember(p, u, g, m, role, date)
            \/ \E m \in Members : GroupRemove(p, u, g, m)
            \/ \E i \in 1..Len(requests), status \in {"actioned", "cancelled"} :
                GroupRequestUpdate(p, u, g, i, status)
            \/ GroupLeave(p, u, g)
            \/ \E to \in {"enabled", "disabled"} : GroupSetEnabled(p, u, g, to)
            \/ \E role \in FormRoles : CtlAddMember(p, g, u, role)
            \/ CtlRemoveMember(p, g, u)
  BY DEF Handler
<1>2. FormRoles \subseteq Roles /\ Dates \subseteq Nat /\ Forever \in Nat
  BY MembershipAssumption DEF Forever
<1>3. ASSUME NEW u \in Users, NEW m \in Members, NEW role \in FormRoles,
             NEW date \in Dates, GroupAdd(p, u, g, m, role, date)
      PROVE  Goal
  BY <1>2, <1>3, AddMemberKept DEF GroupAdd
<1>4. ASSUME NEW u \in Users, NEW m \in Members, NEW role \in FormRoles,
             NEW date \in Dates, GroupEditMember(p, u, g, m, role, date)
      PROVE  Goal
  BY <1>2, <1>4, EditMemberKept DEF GroupEditMember
<1>5. ASSUME NEW u \in Users, NEW m \in Members, GroupRemove(p, u, g, m)
      PROVE  Goal
  BY <1>5, RevokeMemberKept DEF GroupRemove
<1>6. ASSUME NEW u \in Users, GroupLeave(p, u, g) \/ CtlRemoveMember(p, g, u)
      PROVE  Goal
  BY <1>6, Memberships, RevokeMemberKept DEF GroupLeave, CtlRemoveMember
<1>7. ASSUME NEW u \in Users, NEW role \in FormRoles, CtlAddMember(p, g, u, role)
      PROVE  Goal
  BY <1>2, <1>7, Memberships, AddMemberKept DEF CtlAddMember
<1>8. ASSUME NEW u \in Users, NEW role \in FormRoles, GroupCreate(p, u, g, role)
      PROVE  Goal
  <2>1. PICK w : w = [op |-> "create", group |-> g, member |-> u, role |-> role]
    OBVIOUS
  <2>2. Begin(p, << w >>) /\ w.op = "create"
    BY <1>8, <2>1 DEF GroupCreate
  <2>3. Kept(<< w >>)
    BY <2>2, OneWriteKept
  <2> QED
    BY <2>2, <2>3
<1>9. ASSUME NEW u \in Users, NEW to \in {"enabled", "disabled"},
             GroupSetEnabled(p, u, g, to)
      PROVE  Goal
  <2>1. PICK w : w = [op |-> "group", group |-> g, to |-> to]
    OBVIOUS
  <2>2. Begin(p, << w >>) /\ w.op = "group"
    BY <1>9, <2>1 DEF GroupSetEnabled
  <2>3. Kept(<< w >>)
    BY <2>2, OneWriteKept
  <2> QED
    BY <2>2, <2>3
<1> QED
  BY <1>1, <1>3, <1>4, <1>5, <1>6, <1>7, <1>8, <1>9, GroupJoinKept,
     RequestUpdateKept

LEMMA UserHandlersKept ==
    ASSUME OwnershipPolicy, NEW p \in Procs, NEW u \in Users,
           UserDisable(p, u) \/ UserEnable(p, u)
    PROVE  \E c : Begin(p, c) /\ Kept(c)
<1>1. PICK to \in BOOLEAN : /\ Begin(p, << [op |-> "user", user |-> u, to |-> to] >>)
                            /\ ~to => ~PolicyRejectsDisabling(u)
  BY DEF UserDisable, UserEnable
<1>2. PICK w : w = [op |-> "user", user |-> u, to |-> to]
  OBVIOUS
<1>3. w.op = "user" /\ w.user = u /\ w.to = to
  BY <1>2
<1>4. Kept(<< w >>)
  BY <1>1, <1>3, OneWriteKept DEF PolicyRejectsDisabling
<1> QED
  BY <1>1, <1>2, <1>4

-----------------------------------------------------------------------------
(* The commits.                                                            *)

\* A commit of an edge touches the owners of one group, and there the member of
\* the edge at most: who is another owner stays one.
LEMMA OthersStay ==
    ASSUME IInv, NEW p \in Procs, CommitEdge(p) \/ CommitFiledRequest(p),
           NEW g \in Groups, NEW o \in PermanentOwners(g),
           g # Head(txn[p]).group \/ o # Head(txn[p]).member
    PROVE  o \in PermanentOwners(g)'
<1> DEFINE w == Head(txn[p])
<1>1. w.group \in Groups /\ w.member \in Members
  <2>1. w \in SafeWrite /\ w.op \in {"edge", "file"}
    BY CurrentWrite DEF CommitEdge, CommitFiledRequest, Current
  <2> QED
    BY <2>1 DEF SafeWrite, Write, EdgeWrite, FileWrite, CreateWrite, GroupWrite,
                UserWrite
<1>2. UNCHANGED userEnabled
  BY DEF CommitEdge, CommitFiledRequest
<1>3. \/ edges' = edges
      \/ \E e : edges' = [edges EXCEPT ![w.group][w.member] = e]
  BY DEF CommitEdge, CommitFiledRequest
<1>4. o \in Users /\ o \in Members
  BY Memberships DEF PermanentOwners
<1> HIDE DEF w
<1>5. edges'[g][o] = edges[g][o]
  <2>1. g # w.group \/ o # w.member
    BY DEF w
  <2>2. edges \in [Groups -> [Members -> Edge]]
    BY DEF IInv, SafeEdges
  <2>3. ASSUME NEW e, edges' = [edges EXCEPT ![w.group][w.member] = e]
        PROVE  edges'[g][o] = edges[g][o]
    <3>1. CASE g # w.group
      BY <1>1, <2>2, <2>3, <3>1
    <3>2. CASE g = w.group
      BY <1>1, <1>4, <2>1, <2>2, <2>3, <3>2
    <3> QED
      BY <3>1, <3>2
  <2> QED
    BY <1>3, <2>3
<1> QED
  BY <1>2, <1>5 DEF PermanentOwners

\* The row of the commit, before and after.
Written(w, old, e) ==
    /\ w.op = "edge" /\ w.group \in Groups /\ w.member \in Members
    /\ w.insert => ~old.row /\ e.row
    /\ ~w.insert => e.row = old.row
    /\ e.role = IF "role" \in w.changes.keys THEN w.changes.role
                ELSE IF w.insert THEN w.role ELSE old.role
    /\ e.expiration =
          IF "expiration" \in w.changes.keys THEN w.changes.expiration
          ELSE IF w.insert THEN Forever ELSE old.expiration
    /\ e.active = IF "active" \in w.changes.keys THEN w.changes.active
                  ELSE IF w.insert THEN FALSE ELSE old.active

LEMMA RowCommitted ==
    ASSUME IInv, NEW p \in Procs, CommitEdge(p), NEW w, w = Head(txn[p])
    PROVE  Written(w, edges[w.group][w.member], edges'[w.group][w.member])
<1>1. txn[p] # << >> /\ w.op = "edge" /\ ~Conflicts(w)
  BY DEF CommitEdge, Current
<1>2. w \in SafeWrite
  BY <1>1, CurrentWrite
<1>3. w \in EdgeWrite
  BY <1>1, <1>2 DEF SafeWrite, Write, FileWrite, CreateWrite, GroupWrite, UserWrite
<1>4. w.group \in Groups /\ w.member \in Members /\ w.changes \in Changes
      /\ w.role \in Roles
  BY <1>3 DEF EdgeWrite
<1>5. PICK e : e = IF w.insert THEN NewEdge(w.role) ELSE edges[w.group][w.member]
  OBVIOUS
<1>6. edges[w.group][w.member] \in Edge /\ e \in Edge
  BY <1>4, <1>5, NewEdgeType DEF IInv, SafeEdges
<1>7. edges' = [edges EXCEPT ![w.group][w.member] = ApplyChanges(e, w.changes)]
  BY <1>5 DEF CommitEdge
<1>8. edges'[w.group][w.member] = ApplyChanges(e, w.changes)
  BY <1>4, <1>7 DEF IInv, SafeEdges
<1>9. LET f == ApplyChanges(e, w.changes)
      IN  /\ f.row = e.row
          /\ f.role = IF "role" \in w.changes.keys THEN w.changes.role ELSE e.role
          /\ f.expiration = IF "expiration" \in w.changes.keys
                            THEN w.changes.expiration ELSE e.expiration
          /\ f.active = IF "active" \in w.changes.keys
                        THEN w.changes.active ELSE e.active
  BY <1>6 DEF ApplyChanges, Edge
<1>10. w.insert => ~edges[w.group][w.member].row
  BY <1>1 DEF Conflicts
<1>11. w.insert => /\ e.row /\ e.role = w.role
                   /\ e.expiration = Forever /\ ~e.active /\ e.active = FALSE
  BY <1>5 DEF NewEdge
<1>12. ~w.insert => e = edges[w.group][w.member]
  BY <1>5
<1> QED
  BY <1>1, <1>4, <1>8, <1>9, <1>10, <1>11, <1>12 DEF Written

\* Who stays out stays so while the commits are made.
LEMMA StillOut ==
    ASSUME IInv, NEW p \in Procs, CommitEdge(p), OneChange(txn[p]),
           StaysOut(txn[p]), txn[p][1].member \in Users,
           NEW rest, rest = Tail(txn[p]), rest # << >>,
           \A n \in 1..Len(rest) :
              /\ rest[n].op = "edge" /\ ~rest[n].insert
              /\ rest[n].group = txn[p][1].group
              /\ rest[n].member = txn[p][1].member
              /\ rest[n].changes.role = txn[p][1].changes.role
              /\ rest[n].changes.expiration = txn[p][1].changes.expiration
    PROVE  StaysOut(rest)'
<1> DEFINE s == txn[p]
<1>0. PICK w : w = Head(txn[p])
  OBVIOUS
<1>1. txn[p] # << >>
  BY DEF CommitEdge, Current
<1>2. /\ w = s[1] /\ 1 \in 1..Len(s) /\ rest \in Seq(SafeWrite)
      /\ Len(rest) = Len(s) - 1
      /\ \A n \in 1..Len(rest) : n + 1 \in 2..Len(s) /\ rest[n] = s[n + 1]
  BY <1>0, <1>1, CommitOrder
<1>3. Len(s) \in Nat /\ Len(rest) \in Nat
  BY <1>2, LenProperties DEF IInv
<1>4. PICK v : v = rest[1]
  OBVIOUS
<1>5. 1 \in 1..Len(rest)
  BY <1>2, EmptySeq
<1>6. /\ ~v.insert /\ v.group = w.group /\ v.member = w.member
      /\ v.changes.role = w.changes.role
      /\ v.changes.expiration = w.changes.expiration
  BY <1>2, <1>4, <1>5
<1>7. PICK old : old = edges[w.group][w.member]
  OBVIOUS
<1>8. PICK e : e = edges'[w.group][w.member]
  OBVIOUS
<1>9. /\ w.op = "edge" /\ w.group \in Groups /\ w.member \in Members
      /\ w.insert => ~old.row /\ e.row
      /\ ~w.insert => e.row = old.row
      /\ e.role = IF "role" \in w.changes.keys THEN w.changes.role
                  ELSE IF w.insert THEN w.role ELSE old.role
      /\ e.expiration =
            IF "expiration" \in w.changes.keys THEN w.changes.expiration
            ELSE IF w.insert THEN Forever ELSE old.expiration
      /\ e.active = IF "active" \in w.changes.keys THEN w.changes.active
                    ELSE IF w.insert THEN FALSE ELSE old.active
  <2>1. Written(w, old, e)
    BY <1>0, <1>7, <1>8, RowCommitted
  <2> QED
    BY <2>1 DEF Written
<1>10. userEnabled' = userEnabled
  BY DEF CommitEdge
<1>11. w.member \in Users
  BY <1>2
<1> DEFINE Dates == "active" \in w.changes.keys => "expiration" \in w.changes.keys
           Rest == \A n \in 1..Len(rest) :
                      "active" \in rest[n].changes.keys =>
                          \E k \in 1..n : "expiration" \in rest[k].changes.keys
           All == \A n \in 1..Len(s) :
                      "active" \in s[n].changes.keys =>
                          \E k \in 1..n : "expiration" \in s[k].changes.keys
<1>12. All => Dates
  <2>1. \A k \in 1..1 : k = 1
    OBVIOUS
  <2> QED
    BY <1>2, <2>1
<1>13. ASSUME All, "expiration" \notin w.changes.keys
       PROVE  Rest
  <2> SUFFICES ASSUME NEW n \in 1..Len(rest), "active" \in rest[n].changes.keys
               PROVE  \E k \in 1..n : "expiration" \in rest[k].changes.keys
    OBVIOUS
  <2>1. n + 1 \in 1..Len(s) /\ rest[n] = s[n + 1]
    BY <1>2, <1>3
  <2>2. PICK k \in 1..(n + 1) : "expiration" \in s[k].changes.keys
    BY <1>13, <2>1
  <2>3. k # 1
    BY <1>2, <1>13, <2>2
  <2>4. k - 1 \in 1..n /\ k - 1 \in 1..Len(rest) /\ (k - 1) + 1 = k
    BY <1>3, <2>3
  <2>5. rest[k - 1] = s[k]
    BY <1>2, <2>4
  <2> QED
    BY <2>2, <2>4, <2>5
<1>14. StaysOut(s)
  OBVIOUS
<1> HIDE DEF s
<1>15. /\ w.member \notin PermanentOwners(w.group)
       /\ \/ ~userEnabled[w.member]
          \/ /\ ~w.insert /\ w.changes.role \notin OwnerRoles
             /\ old.role \notin OwnerRoles \/ "role" \in w.changes.keys
          \/ /\ w.changes.expiration # Forever
             /\ \/ ~w.insert /\ old.expiration # Forever
                \/ ~(old.row /\ old.active) /\ All
  BY <1>2, <1>7, <1>14 DEF StaysOut
<1>16. /\ e.row /\ e.active /\ e.role \in OwnerRoles
          /\ e.expiration = Forever /\ userEnabled[w.member] => FALSE
       /\ \/ ~userEnabled[w.member]
          \/ w.changes.role \notin OwnerRoles /\ e.role \notin OwnerRoles
          \/ /\ w.changes.expiration # Forever
             /\ \/ e.expiration # Forever
                \/ ~(e.row /\ e.active) /\ Rest
  <2>1. CASE ~userEnabled[w.member]
    BY <2>1
  <2>2. CASE /\ ~w.insert /\ w.changes.role \notin OwnerRoles
             /\ old.role \notin OwnerRoles \/ "role" \in w.changes.keys
    BY <1>9, <2>2
  <2>3. CASE w.changes.expiration # Forever /\ ~w.insert /\ old.expiration # Forever
    BY <1>9, <2>3
  <2>4. CASE w.changes.expiration # Forever /\ ~(old.row /\ old.active) /\ All
    <3>1. Dates
      BY <1>12, <2>4
    <3>2. CASE "expiration" \in w.changes.keys
      BY <1>9, <2>4, <3>2
    <3>3. CASE "expiration" \notin w.changes.keys
      <4>1. ~(e.row /\ e.active)
        BY <1>9, <2>4, <3>1, <3>3
      <4> QED
        BY <1>13, <2>4, <3>3, <4>1
    <3> QED
      BY <3>2, <3>3
  <2> QED
    BY <1>15, <2>1, <2>2, <2>3, <2>4
<1>17. w.member \notin PermanentOwners(w.group)'
  BY <1>8, <1>10, <1>16 DEF PermanentOwners
<1> QED
  BY <1>4, <1>6, <1>8, <1>10, <1>16, <1>17 DEF StaysOut

LEMMA RestKept ==
    ASSUME IInv, NEW p \in Procs, CommitEdge(p), Kept(txn[p]),
           NEW rest, rest = Tail(txn[p])
    PROVE  Kept(rest)'
<1> DEFINE s == txn[p]
<1>0. PICK w : w = Head(txn[p])
  OBVIOUS
<1>1. txn[p] # << >> /\ w.op = "edge"
  BY <1>0 DEF CommitEdge, Current
<1>2. /\ w = s[1] /\ 1 \in 1..Len(s) /\ rest \in Seq(SafeWrite)
      /\ Len(rest) = Len(s) - 1
      /\ \A n \in 1..Len(rest) : n + 1 \in 2..Len(s) /\ rest[n] = s[n + 1]
  BY <1>0, <1>1, CommitOrder
<1>3. Len(s) \in Nat /\ Len(rest) \in Nat
  BY <1>2, LenProperties DEF IInv
<1>4. OneChange(s)
  BY <1>1 DEF Kept
<1>5. ASSUME NEW n \in 1..Len(rest)
      PROVE  /\ rest[n] = s[n + 1] /\ n + 1 \in 1..Len(s)
             /\ rest[n].op = "edge" /\ ~rest[n].insert
             /\ rest[n].group = w.group /\ rest[n].member = w.member
             /\ rest[n].role = w.role /\ rest[n].request = w.request
             /\ rest[n].changes.role = w.changes.role
             /\ rest[n].changes.expiration = w.changes.expiration
             /\ rest[n].changes.active = w.changes.active
  BY <1>2, <1>3, <1>4 DEF OneChange
<1>6. CASE rest = << >>
  BY <1>6 DEF Kept
<1>7. CASE rest # << >>
  <2>1. 1 \in 1..Len(rest)
    BY <1>2, <1>7, EmptySeq
  <2>2. OneChange(rest)
    <3> SUFFICES ASSUME NEW n \in 2..Len(rest)
                 PROVE  /\ rest[1].op = "edge" /\ rest[n].op = "edge"
                        /\ ~rest[n].insert
                        /\ rest[n].group = rest[1].group
                        /\ rest[n].member = rest[1].member
                        /\ rest[n].role = rest[1].role
                        /\ rest[n].request = rest[1].request
                        /\ rest[n].changes.role = rest[1].changes.role
                        /\ rest[n].changes.expiration = rest[1].changes.expiration
                        /\ rest[n].changes.active = rest[1].changes.active
      BY DEF OneChange
    <3>1. n \in 1..Len(rest)
      BY <1>3
    <3>2. /\ rest[n].op = "edge" /\ ~rest[n].insert
          /\ rest[n].group = w.group /\ rest[n].member = w.member
          /\ rest[n].role = w.role /\ rest[n].request = w.request
          /\ rest[n].changes.role = w.changes.role
          /\ rest[n].changes.expiration = w.changes.expiration
          /\ rest[n].changes.active = w.changes.active
      BY <1>5, <3>1
    <3>3. /\ rest[1].op = "edge"
          /\ rest[1].group = w.group /\ rest[1].member = w.member
          /\ rest[1].role = w.role /\ rest[1].request = w.request
          /\ rest[1].changes.role = w.changes.role
          /\ rest[1].changes.expiration = w.changes.expiration
          /\ rest[1].changes.active = w.changes.active
      BY <1>5, <2>1
    <3> QED
      BY <3>2, <3>3
  <2>3. ASSUME w.member \in Users, w.request = 0, w.role \in OwnerRoles
        PROVE  LetThrough(rest)'
    <3>1. LetThrough(s)
      BY <1>1, <1>2, <2>3 DEF Kept
    <3>2. CASE \A n \in 1..Len(s) : ~TakesAway(s[n].changes)
      <4>1. \A n \in 1..Len(rest) : ~TakesAway(rest[n].changes)
        BY <1>5, <3>2
      <4> QED
        BY <4>1 DEF LetThrough, TakesAway
    <3>3. ASSUME NEW o \in PermanentOwners(w.group), o # w.member
          PROVE  LetThrough(rest)'
      <4>1. w.group \in Groups
        BY <1>0, RowCommitted DEF Written
      <4>2. o \in PermanentOwners(w.group)'
        BY <1>0, <3>3, <4>1, OthersStay
      <4>3. rest[1].group = w.group /\ rest[1].member = w.member
        BY <1>5, <2>1
      <4> QED
        BY <3>3, <4>2, <4>3 DEF LetThrough
    <3>4. CASE StaysOut(s)
      <4>1. StaysOut(rest)'
        BY <1>2, <1>4, <1>5, <1>7, <2>3, <3>4, StillOut
      <4> QED
        BY <4>1 DEF LetThrough
    <3> QED
      BY <1>2, <3>1, <3>2, <3>3, <3>4 DEF LetThrough
  <2>4. /\ rest[1].op = "edge" /\ rest[1].member = w.member
        /\ rest[1].request = w.request /\ rest[1].role = w.role
    BY <1>5, <2>1
  <2>5. OneChange(rest)'
    BY <2>2 DEF OneChange
  <2> QED
    BY <2>3, <2>4, <2>5 DEF Kept
<1> QED
  BY <1>6, <1>7

-----------------------------------------------------------------------------
(* The other steps.                                                        *)

\* Nobody's account or group changes status, and no row changes but that an
\* expired one becomes inactive.
OwnersUntouched ==
    /\ UNCHANGED <<groupStatus, userEnabled>>
    /\ \A g \in Groups, m \in Members :
          LET old == edges[g][m]
              e == edges'[g][m]
          IN  \/ e = old
              \/ /\ e.row = old.row /\ e.role = old.role
                 /\ e.expiration = old.expiration
                 /\ old.expiration # Forever /\ e.active = FALSE

LEMMA SameOwners ==
    ASSUME OwnersUntouched, NEW g \in Groups
    PROVE  PermanentOwners(g)' = PermanentOwners(g)
<1>1. ASSUME NEW u \in Users
      PROVE  u \in PermanentOwners(g)' <=> u \in PermanentOwners(g)
  <2>1. u \in Members
    BY Memberships
  <2>2. PICK old : old = edges[g][u]
    OBVIOUS
  <2>3. PICK e : e = edges'[g][u]
    OBVIOUS
  <2>4. \/ e = old
        \/ /\ e.row = old.row /\ e.role = old.role
           /\ e.expiration = old.expiration
           /\ old.expiration # Forever /\ e.active = FALSE
    BY <2>1, <2>2, <2>3 DEF OwnersUntouched
  <2>5. userEnabled' = userEnabled
    BY DEF OwnersUntouched
  <2> QED
    BY <2>2, <2>3, <2>4, <2>5 DEF PermanentOwners
<1> QED
  BY <1>1 DEF PermanentOwners

LEMMA StillKept ==
    ASSUME OwnersUntouched, NEW c \in Seq(SafeWrite), Kept(c)
    PROVE  Kept(c)'
<1> SUFFICES ASSUME c # << >> PROVE Kept(c)'
  BY DEF Kept
<1>1. PICK w : w = c[1]
  OBVIOUS
<1>2. w \in SafeWrite
  BY <1>1
<1>3. OneChange(c)
  BY DEF Kept
<1>4. \A g \in Groups : PermanentOwners(g)' = PermanentOwners(g)
  BY SameOwners
<1>5. UNCHANGED <<groupStatus, userEnabled>>
  BY DEF OwnersUntouched
<1>6. ASSUME w.op = "edge", w.member \in Users, w.request = 0,
             w.role \in OwnerRoles
      PROVE  LetThrough(c)'
  <2>1. w.group \in Groups /\ w.member \in Members
    BY <1>2, <1>6 DEF SafeWrite, Write, EdgeWrite, FileWrite, CreateWrite,
                      GroupWrite, UserWrite
  <2>2. LetThrough(c)
    BY <1>1, <1>6 DEF Kept
  <2>3. CASE StaysOut(c)
    <3>1. PICK old : old = edges[w.group][w.member]
      OBVIOUS
    <3>2. PICK e : e = edges'[w.group][w.member]
      OBVIOUS
    <3>3. \/ e = old
          \/ /\ e.row = old.row /\ e.role = old.role
             /\ e.expiration = old.expiration
             /\ old.expiration # Forever /\ e.active = FALSE
      BY <2>1, <3>1, <3>2 DEF OwnersUntouched
    <3>4. PermanentOwners(w.group)' = PermanentOwners(w.group)
      BY <1>4, <2>1
    <3>5. StaysOut(c)'
      BY <1>1, <1>5, <2>3, <3>1, <3>2, <3>3, <3>4 DEF StaysOut
    <3> QED
      BY <3>5 DEF LetThrough
  <2>4. CASE \A n \in 1..Len(c) : ~TakesAway(c[n].changes)
    BY <2>4 DEF LetThrough, TakesAway
  <2>5. CASE \E o \in PermanentOwners(w.group) : o # w.member
    BY <1>1, <1>4, <2>1, <2>5 DEF LetThrough
  <2> QED
    BY <1>1, <2>2, <2>3, <2>4, <2>5 DEF LetThrough
<1>7. ASSUME w.op = "user", ~w.to, NEW g \in Groups, groupStatus[g] = "enabled"
      PROVE  ~IsLastPermanentOwner(g, w.user)'
  <2>1. ~IsLastPermanentOwner(g, w.user)
    BY <1>1, <1>7 DEF Kept
  <2> QED
    BY <1>4, <2>1 DEF IsLastPermanentOwner
<1>8. OneChange(c)'
  BY <1>3 DEF OneChange
<1> QED
  BY <1>1, <1>5, <1>6, <1>7, <1>8 DEF Kept

LEMMA NothingKept == Kept(<< >>)
BY DEF Kept

\* A step that leaves the owners alone keeps what was let through, if it leaves
\* every process its commits or none, or only what it was let through with.
LEMMA QuietPolicy ==
    ASSUME IInv, PolicyInv, OwnersUntouched, IInv',
           \A q \in Procs : \E c \in Seq(SafeWrite) : c = txn'[q] /\ Kept(c)
    PROVE  /\ PolicyInv'
           /\ \A g \in Groups : ~LosesPermanentOwners(g)
<1>1. ASSUME NEW q \in Procs
      PROVE  Kept(txn[q])'
  <2>1. PICK c \in Seq(SafeWrite) : c = txn'[q] /\ Kept(c)
    OBVIOUS
  <2>2. Kept(c)'
    BY <2>1, StillKept
  <2> QED
    BY <2>1, <2>2
<1>2. ASSUME NEW g \in Groups
      PROVE  ~LosesPermanentOwners(g)
  BY SameOwners DEF LosesPermanentOwners
<1> QED
  BY <1>1, <1>2 DEF PolicyInv

\* The list of a process changes and nothing else does.
LEMMA ListPolicy ==
    ASSUME IInv, PolicyInv, IInv', NEW p \in Procs, NEW c, Kept(c),
           txn' = [txn EXCEPT ![p] = c],
           UNCHANGED <<groupStatus, userEnabled, edges>>
    PROVE  /\ PolicyInv'
           /\ \A g \in Groups : ~LosesPermanentOwners(g)
<1>1. \A q \in Procs : txn'[q] \in Seq(SafeWrite)
  BY DEF IInv
<1>2. \A q \in Procs : txn'[q] = c \/ txn'[q] = txn[q]
  BY DEF IInv
<1>3. OwnersUntouched
  BY DEF OwnersUntouched
<1>4. \A q \in Procs : \E d \in Seq(SafeWrite) : d = txn'[q] /\ Kept(d)
  BY <1>1, <1>2 DEF PolicyInv
<1> QED
  BY <1>3, <1>4, QuietPolicy

LEMMA BackgroundPolicy ==
    ASSUME IInv, PolicyInv, IInv', LoadedAreExpired, Background
    PROVE  /\ PolicyInv'
           /\ \A g \in Groups : ~LosesPermanentOwners(g)
<1>1. UNCHANGED <<groupStatus, userEnabled, txn>>
  BY DEF Background, LoadExpiredEdges, ExpireEdge, ExpiryCrash
<1>2. \A q \in Procs : \E d \in Seq(SafeWrite) : d = txn'[q] /\ Kept(d)
  BY <1>1 DEF PolicyInv, IInv
<1>3. CASE UNCHANGED edges
  <2>1. OwnersUntouched
    BY <1>1, <1>3 DEF OwnersUntouched
  <2> QED
    BY <1>2, <2>1, QuietPolicy
<1>4. ASSUME NEW g \in Groups, NEW m \in Members, ExpireEdge(g, m)
      PROVE  OwnersUntouched
  <2>1. edges' = [edges EXCEPT ![g][m].active = FALSE] /\ <<g, m>> \in expiring
    BY <1>4 DEF ExpireEdge
  <2>2. edges \in [Groups -> [Members -> Edge]]
    BY DEF IInv, SafeEdges
  <2>3. edges[g][m].expiration # Forever
    BY <2>1 DEF LoadedAreExpired, Unexpired
  <2>4. ASSUME NEW h \in Groups, NEW k \in Members
        PROVE  LET old == edges[h][k]
                   e == edges'[h][k]
               IN  \/ e = old
                   \/ /\ e.row = old.row /\ e.role = old.role
                      /\ e.expiration = old.expiration
                      /\ old.expiration # Forever /\ e.active = FALSE
    <3>1. edges[h][k] \in Edge
      BY <2>2
    <3>2. edges'[h][k] = IF h = g /\ k = m
                         THEN [edges[h][k] EXCEPT !.active = FALSE]
                         ELSE edges[h][k]
      BY <2>1, <2>2
    <3>3. \A e \in Edge : LET f == [e EXCEPT !.active = FALSE]
                          IN  /\ f.expiration = e.expiration /\ f.row = e.row
                              /\ f.role = e.role /\ f.active = FALSE
      BY DEF Edge
    <3> QED
      BY <2>3, <3>1, <3>2, <3>3
  <2> QED
    BY <1>1, <2>4 DEF OwnersUntouched
<1>5. ASSUME NEW g \in Groups, NEW m \in Members, ExpireEdge(g, m)
      PROVE  /\ PolicyInv'
             /\ \A h \in Groups : ~LosesPermanentOwners(h)
  BY <1>2, <1>4, <1>5, QuietPolicy
<1> QED
  BY <1>3, <1>5 DEF Background, LoadExpiredEdges, ExpiryCrash

\* What was let through stands while the rows of its group do.
LEMMA OthersKept ==
    ASSUME NEW c \in Seq(SafeWrite), Kept(c), ~ChangesAccount(c),
           \A g \in Groups, m \in Members :
              ChangesGroup(c, g) => edges'[g][m] = edges[g][m],
           userEnabled' = userEnabled
    PROVE  Kept(c)'
<1> DEFINE w == c[1]
<1> SUFFICES ASSUME c # << >> PROVE Kept(c)'
  BY DEF Kept
<1>1. 1 \in 1..Len(c) /\ w \in SafeWrite
  BY EmptySeq, LenProperties, ElementOfSeq
<1>2. w.op # "user"
  BY <1>1 DEF ChangesAccount
<1>3. OneChange(c)'
  BY DEF Kept, OneChange
<1>4. ASSUME w.op = "edge", LetThrough(c), w.member \in Users
      PROVE  LetThrough(c)'
  <2>1. w.group \in Groups /\ w.member \in Members /\ ChangesGroup(c, w.group)
    BY <1>1, <1>4 DEF SafeWrite, Write, EdgeWrite, FileWrite, CreateWrite,
                      GroupWrite, UserWrite, ChangesGroup
  <2>2. \A m \in Members : edges'[w.group][m] = edges[w.group][m]
    BY <2>1
  <2>3. PermanentOwners(w.group)' = PermanentOwners(w.group)
    BY <2>2, Memberships DEF PermanentOwners
  <2>4. PICK e : e = edges[w.group][w.member] /\ e = edges'[w.group][w.member]
    BY <2>1, <2>2
  <2>5. StaysOut(c) => StaysOut(c)'
    BY <2>3, <2>4 DEF StaysOut
  <2> QED
    BY <1>4, <2>3, <2>5 DEF LetThrough, TakesAway
<1> QED
  BY <1>2, <1>3, <1>4 DEF Kept

\* While p commits, nobody else is at its group, nor disables an account.
LEMMA OthersElsewhere ==
    ASSUME IInv, GroupsApart, NEW p \in Procs, NEW q \in Procs, q # p, txn[p] # << >>
    PROVE  /\ Head(txn[p]).op \in {"edge", "file", "create"} =>
                 ~ChangesGroup(txn[q], Head(txn[p]).group)
           /\ Head(txn[p]).op = "user" => txn[q] = << >>
           /\ ~ChangesAccount(txn[q])
<1>1. /\ Head(txn[p]) = txn[p][1] /\ 1 \in 1..Len(txn[p]) /\ Head(txn[p]) \in SafeWrite
  BY CommitOrder, CurrentWrite
<1>2. Head(txn[p]).op \in {"edge", "file", "create"} =>
         /\ Head(txn[p]).group \in Groups
         /\ ChangesGroup(txn[p], Head(txn[p]).group)
  BY <1>1 DEF SafeWrite, Write, EdgeWrite, FileWrite, CreateWrite, GroupWrite,
              UserWrite, ChangesGroup
<1>3. Head(txn[p]).op = "user" => ChangesAccount(txn[p])
  BY <1>1 DEF ChangesAccount
<1> QED
  BY <1>2, <1>3 DEF GroupsApart

\* A commit of an edge leaves the group an owner, unless nobody asked the plugin
\* or the change was begun on no owner.
LEMMA EdgeCommitPolicy ==
    ASSUME GroupsApart, IInv, PolicyInv, NEW p \in Procs, CommitEdge(p)
    PROVE  /\ PolicyInv'
           /\ \A g \in Groups : LosesPermanentOwners(g) =>
                  Approving(p) \/ Promoting(p)
<1>0. PICK w : w = Head(txn[p])
  OBVIOUS
<1>1. PICK old : old = edges[w.group][w.member]
  OBVIOUS
<1>2. PICK e : e = edges'[w.group][w.member]
  OBVIOUS
<1>3. Written(w, old, e)
  BY <1>0, <1>1, <1>2, RowCommitted
<1>4. txn[p] # << >>
  BY DEF CommitEdge, Current
<1>5. w = txn[p][1] /\ 1 \in 1..Len(txn[p])
  BY <1>0, <1>4, CommitOrder
<1>6. ASSUME NEW q \in Procs
      PROVE  Kept(txn[q])'
  <2>1. CASE q = p
    <3>1. PICK rest : rest = Tail(txn[p])
      OBVIOUS
    <3>2. Kept(rest)'
      BY <3>1, RestKept DEF PolicyInv
    <3>3. txn'[p] = rest
      BY <3>1 DEF CommitEdge, Done, IInv
    <3> QED
      BY <2>1, <3>2, <3>3
  <2>2. CASE q # p
    <3>1. PICK c : c = txn[q]
      OBVIOUS
    <3>2. c \in Seq(SafeWrite) /\ Kept(c) /\ txn'[q] = c
      BY <2>2, <3>1 DEF CommitEdge, Done, IInv, PolicyInv
    <3>3. w.op = "edge"
      BY <1>0 DEF CommitEdge, Current
    <3>4. ~ChangesGroup(c, w.group) /\ ~ChangesAccount(c)
      BY <1>0, <1>4, <2>2, <3>1, <3>3, OthersElsewhere
    <3>5. \A h \in Groups, m \in Members : h # w.group => edges'[h][m] = edges[h][m]
      BY <1>0, OtherEdgesStay
    <3>6. userEnabled' = userEnabled
      BY DEF CommitEdge
    <3>7. Kept(c)'
      BY <3>2, <3>4, <3>5, <3>6, OthersKept
    <3> QED
      BY <3>2, <3>7
  <2> QED
    BY <2>1, <2>2
<1>7. ASSUME NEW g \in Groups, LosesPermanentOwners(g),
             w.request = 0, w.role \in OwnerRoles
      PROVE  FALSE
  <2>1. PermanentOwners(g) # {} /\ PermanentOwners(g)' = {}
    BY <1>7 DEF LosesPermanentOwners
  <2>2. PermanentOwners(g) = {w.member} /\ g = w.group
    BY <1>0, <2>1, OthersStay
  <2>3. w.member \in PermanentOwners(w.group) /\ w.member \in Users
    BY <2>2 DEF PermanentOwners
  <2>4. LetThrough(txn[p])
    BY <1>3, <1>4, <1>5, <1>7, <2>3 DEF PolicyInv, Kept, Written
  <2>5. ~TakesAway(w.changes)
    BY <1>5, <2>2, <2>3, <2>4 DEF LetThrough, StaysOut
  <2>6. old.row /\ old.active /\ old.role \in OwnerRoles
        /\ old.expiration = Forever /\ userEnabled[w.member]
    BY <1>1, <2>3 DEF PermanentOwners
  <2>7. e.row /\ e.active /\ e.role \in OwnerRoles /\ e.expiration = Forever
    BY <1>3, <2>5, <2>6 DEF Written, TakesAway
  <2>8. userEnabled' = userEnabled
    BY DEF CommitEdge
  <2>9. w.member \in PermanentOwners(w.group)'
    BY <1>2, <2>3, <2>6, <2>7, <2>8 DEF PermanentOwners
  <2> QED
    BY <2>1, <2>2, <2>9
<1> QED
  BY <1>0, <1>6, <1>7 DEF PolicyInv, Approving, Promoting

\* Commits of any other kind are the only ones of their list and take no owner.
LEMMA OtherCommitPolicy ==
    ASSUME GroupsApart, IInv, PolicyInv, NEW p \in Procs,
           \/ CommitFiledRequest(p) \/ CommitCreate(p)
           \/ CommitGroup(p) \/ CommitUser(p)
    PROVE  /\ PolicyInv'
           /\ \A g \in Groups : ~LosesPermanentOwners(g)
<1>0. PICK w : w = Head(txn[p])
  OBVIOUS
<1>1. /\ txn[p] # << >> /\ w.op # "edge" /\ w \in SafeWrite
      /\ txn' = [txn EXCEPT ![p] = Tail(txn[p])]
  BY <1>0, CurrentWrite
  DEF CommitFiledRequest, CommitCreate, CommitGroup, CommitUser, Current, Done
<1>2. w = txn[p][1] /\ OneChange(txn[p]) /\ Kept(txn[p])
  BY <1>0, <1>1, CommitOrder DEF PolicyInv, Kept
<1>3. Tail(txn[p]) = << >>
  <2>1. txn[p] \in Seq(SafeWrite) /\ Tail(txn[p]) \in Seq(SafeWrite)
        /\ Len(Tail(txn[p])) = Len(txn[p]) - 1 /\ 1 \in 1..Len(txn[p])
    BY <1>1, CommitOrder DEF IInv
  <2>2. \A n \in 2..Len(txn[p]) : FALSE
    BY <1>1, <1>2 DEF OneChange
  <2>3. PICK len \in Nat : len = Len(txn[p])
    BY <2>1
  <2>4. len = 1
    <3>1. 1 \in 1..len /\ \A n \in 2..len : FALSE
      BY <2>1, <2>2, <2>3
    <3>2. len > 1 => 2 \in 2..len
      OBVIOUS
    <3> QED
      BY <3>1, <3>2
  <2>5. Len(Tail(txn[p])) = 0
    BY <2>1, <2>3, <2>4
  <2> QED
    BY <2>1, <2>5, EmptySeq
<1>4. ASSUME NEW q \in Procs
      PROVE  Kept(txn[q])'
  <2>1. CASE txn'[q] = << >>
    BY <2>1 DEF Kept
  <2>2. CASE txn'[q] # << >>
    <3>1. PICK c : c = txn[q]
      OBVIOUS
    <3>2. q # p /\ txn'[q] = c /\ c # << >>
      BY <1>1, <1>3, <2>2, <3>1 DEF IInv
    <3>3. c \in Seq(SafeWrite) /\ Kept(c)
      BY <3>1 DEF IInv, PolicyInv
    <3>4. /\ w.op # "user" /\ ~ChangesAccount(c)
          /\ w.op \in {"file", "create"} => ~ChangesGroup(c, w.group)
      BY <1>0, <1>1, <3>1, <3>2, OthersElsewhere
    <3>5. userEnabled' = userEnabled
      BY <1>0, <3>4 DEF CommitFiledRequest, CommitCreate, CommitGroup, CommitUser, Current
    <3>6. CASE edges' = edges
      BY <3>2, <3>3, <3>4, <3>5, <3>6, OthersKept
    <3>7. CASE /\ w.op \in {"file", "create"}
               /\ \E row : edges' = [edges EXCEPT ![w.group][w.member] = row]
      <4>1. \A h \in Groups, m \in Members : h # w.group => edges'[h][m] = edges[h][m]
        BY <3>7 DEF IInv, SafeEdges
      <4> QED
        BY <3>2, <3>3, <3>4, <3>5, <3>7, <4>1, OthersKept
    <3> QED
      BY <1>0, <3>4, <3>6, <3>7
      DEF CommitFiledRequest, CommitCreate, CommitGroup, CommitUser, Current
  <2> QED
    BY <2>1, <2>2
<1>5. ASSUME NEW g \in Groups, LosesPermanentOwners(g)
      PROVE  FALSE
  <2>0. /\ groupStatus[g] = "enabled"
        /\ PermanentOwners(g) # {} /\ PermanentOwners(g)' = {}
    BY <1>5 DEF LosesPermanentOwners
  <2>1. PICK o \in PermanentOwners(g) : TRUE
    BY <2>0
  <2>2. o \in Users /\ o \in Members
    BY <2>1, Memberships DEF PermanentOwners
  <2>3. ASSUME edges'[g][o] = edges[g][o], userEnabled'[o]
        PROVE  FALSE
    BY <2>0, <2>1, <2>3 DEF PermanentOwners
  <2>4. CASE CommitFiledRequest(p)
    <3>1. userEnabled' = userEnabled
      BY <2>4 DEF CommitFiledRequest
    <3>2. CASE edges' = edges
      BY <2>1, <2>3, <3>1, <3>2 DEF PermanentOwners
    <3>3. CASE w.insert /\ ~edges[w.group][w.member].row
      <4>1. g # w.group \/ o # w.member
        BY <2>1, <3>3 DEF PermanentOwners
      <4> QED
        BY <1>0, <2>0, <2>1, <2>4, <4>1, OthersStay
    <3> QED
      BY <1>0, <2>4, <3>2, <3>3 DEF CommitFiledRequest, Conflicts, Current
  <2>5. CASE CommitCreate(p)
    <3>1. userEnabled' = userEnabled /\ w.op = "create"
      BY <1>0, <2>5 DEF CommitCreate, Current
    <3>2. w.group \in Groups /\ groupStatus[w.group] = "absent"
      BY <1>0, <1>1, <2>5, <3>1
      DEF CommitCreate, Conflicts, SafeWrite, Write, EdgeWrite, FileWrite,
          CreateWrite, GroupWrite, UserWrite
    <3>3. g # w.group
      BY <2>0, <3>2
    <3>4. edges' = [edges EXCEPT ![w.group][w.member] =
                        [NewEdge(w.role) EXCEPT !.active = TRUE]]
      BY <1>0, <2>5 DEF CommitCreate
    <3>5. edges \in [Groups -> [Members -> Edge]]
      BY DEF IInv, SafeEdges
    <3>6. edges'[g][o] = edges[g][o]
      BY <2>2, <3>2, <3>3, <3>4, <3>5
    <3> QED
      BY <2>1, <2>3, <3>1, <3>6 DEF PermanentOwners
  <2>6. CASE CommitGroup(p)
    BY <2>1, <2>3, <2>6 DEF CommitGroup, PermanentOwners
  <2>7. CASE CommitUser(p)
    <3>1. edges' = edges /\ userEnabled' = [userEnabled EXCEPT ![w.user] = w.to]
          /\ w.op = "user"
      BY <1>0, <2>7 DEF CommitUser, Current
    <3>2. userEnabled[o] /\ userEnabled \in [Users -> BOOLEAN]
      BY <2>1 DEF PermanentOwners, IInv
    <3>3. CASE w.to
      BY <2>2, <2>3, <3>1, <3>2, <3>3
    <3>4. CASE ~w.to
      <4>1. ~IsLastPermanentOwner(g, w.user)
        BY <1>1, <1>2, <2>0, <3>1, <3>4 DEF Kept
      <4>2. PICK x \in PermanentOwners(g) : x # w.user
        BY <2>0, <4>1 DEF IsLastPermanentOwner
      <4>3. x \in PermanentOwners(g)'
        BY <3>1, <3>2, <4>2 DEF PermanentOwners
      <4> QED
        BY <2>0, <4>3
    <3> QED
      BY <3>3, <3>4
  <2> QED
    BY <2>4, <2>5, <2>6, <2>7
<1> QED
  BY <1>4, <1>5 DEF PolicyInv

LEMMA PolicyStep ==
    ASSUME GroupsApart, OwnershipPolicy, IInv, IInv', PolicyInv,
           LoadedAreExpired, [Next]_vars
    PROVE  /\ PolicyInv'
           /\ \A g \in Groups : LosesPermanentOwners(g) =>
                  \E p \in Procs : Approving(p) \/ Promoting(p)
<1>1. ASSUME NEW p \in Procs, NEW c, Begin(p, c), Kept(c)
      PROVE  PolicyInv' /\ \A g \in Groups : ~LosesPermanentOwners(g)
  BY <1>1, ListPolicy DEF Begin
<1>2. CASE \E p \in Procs : Handler(p)
  BY <1>1, <1>2, HandlerKept
<1>3. CASE \E p \in Procs, u \in Users : UserDisable(p, u) \/ UserEnable(p, u)
  BY <1>1, <1>3, UserHandlersKept
<1>4. CASE \E p \in Procs : Commit(p)
  BY <1>4, EdgeCommitPolicy, OtherCommitPolicy DEF Commit
<1>5. CASE \E p \in Procs : Abort(p)
  BY <1>5, NothingKept, ListPolicy DEF Abort
<1>6. CASE Background
  BY <1>6, BackgroundPolicy
<1>7. CASE Tick \/ UNCHANGED vars
  <2>1. UNCHANGED <<groupStatus, userEnabled, edges, txn>>
    BY <1>7 DEF Tick, vars
  <2>2. OwnersUntouched
    BY <2>1 DEF OwnersUntouched
  <2>3. \A q \in Procs : \E d \in Seq(SafeWrite) : d = txn'[q] /\ Kept(d)
    BY <2>1 DEF PolicyInv, IInv
  <2> QED
    BY <2>2, <2>3, QuietPolicy
<1> QED
  BY <1>2, <1>3, <1>4, <1>5, <1>6, <1>7 DEF Next

\* With the policy loaded, no handler that asks it, no disabling of an account and
\* no expiry takes an enabled group's last permanent owner away, however many
\* workers there are, as long as no two are at the same group, accounts change
\* while nobody else is at work, and the expiry task works on edges that are
\* still expired.
THEOREM KeepsAnOwner ==
    ASSUME OwnershipPolicy
    PROVE  Spec /\ []GroupsApart /\ []LoadedAreExpired => PolicyKeepsAnOwner
<1>1. Init => PolicyInv
  BY NothingKept DEF Init, PolicyInv
<1>2. IInv /\ IInv' /\ PolicyInv /\ GroupsApart /\ LoadedAreExpired /\ [Next]_vars
      => /\ PolicyInv'
         /\ [\A g \in Groups : LosesPermanentOwners(g) =>
                \E p \in Procs : Approving(p) \/ Promoting(p)]_vars
  BY PolicyStep
<1> QED
  BY <1>1, <1>2, Invariance, PTL DEF Spec, PolicyKeepsAnOwner
=============================================================================
