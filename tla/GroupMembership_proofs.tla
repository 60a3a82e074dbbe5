----------------------- MODULE GroupMembership_proofs -----------------------
(***************************************************************************)
(* Proofs about GroupMembership, for every number of users and groups.     *)
(* However many processes run: the tables and the pending commits keep     *)
(* their types, and a group is never more than a plain member of another.  *)
(* Where no two processes work on the same membership: requests are single *)
(* and decided once, an approval keeps the date that was asked for, and a  *)
(* removal that dies between two commits never makes a membership last,    *)
(* whatever the expiry task and the other processes do meanwhile.          *)
(***************************************************************************)
EXTENDS GroupMembership, SequenceTheorems, TLAPS

-----------------------------------------------------------------------------
(* The inductive invariant: what a group's row, a request of a group and a  *)
(* commit about a member group can hold.  The rows alone are not enough:    *)
(* a request is applied days after _validate_role looked at it, and a       *)
(* commit some time after.                                                  *)

SafeRequest ==
    {r \in Request : r.member \in Groups => r.changes.role = "member"}

SafeWrite ==
    {w \in Write : (w.op \in {"edge", "file"} /\ w.member \in Groups) =>
                        w.role = "member" /\ w.changes.role = "member"}

SafeEdges ==
    /\ edges \in [Groups -> [Members -> Edge]]
    /\ \A g, s \in Groups : edges[g][s].role = "member"

IInv ==
    /\ groupStatus \in [Groups -> {"absent", "enabled", "disabled"}]
    /\ userEnabled \in [Users -> BOOLEAN]
    /\ SafeEdges
    /\ requests \in Seq(SafeRequest)
    /\ now \in Nat
    /\ txn \in [Procs -> Seq(SafeWrite)]
    /\ expiring \subseteq Groups \X Members

-----------------------------------------------------------------------------
(* Where no two processes work on the same membership at a time: what a    *)
(* handler has read still holds when it commits, however far the commits   *)
(* of its change have come and whatever the expiry task and the processes  *)
(* that work on other memberships do in between.                           *)

\* There is a commit to come that writes the row of group g and member m.
About(commits, g, m) ==
    \E n \in 1..Len(commits) :
        /\ commits[n].op \in {"edge", "file", "create"}
        /\ commits[n].group = g /\ commits[n].member = m

\* Where two processes have commits to come, they are about different memberships.
Apart ==
    \A p, q \in Procs, g \in Groups, m \in Members :
        About(txn[p], g, m) /\ About(txn[q], g, m) => p = q

\* The request to file has no pending double, and asks to be a member.
ReadyToFile(w) ==
    /\ w.changes.active
    /\ w.member \in Users => PendingFor(w.group, w.member) = {}

\* A membership that a request asks to date is dated before it is active.
DatedFirst(commits, n) ==
    LET w == commits[n]
        asked == requests[w.request].changes
    IN  "active" \in w.changes.keys /\ "expiration" \in asked.keys =>
           \/ edges[w.group][w.member].expiration = asked.expiration
           \/ \E k \in 1..n : "expiration" \in commits[k].changes.keys

\* The request to decide is pending when its status is committed, which comes
\* first; later commits of it go on with its changes.
ReadyToDecide(commits, n) ==
    LET w == commits[n]
    IN  /\ w.status # "none" =>
              n = 1 /\ w.request # 0 /\ requests[w.request].status = "pending"
        /\ w.request # 0 =>
              /\ ~w.insert /\ w.request \in 1..Len(requests) /\ w.changes.active
              /\ requests[w.request].group = w.group
              /\ requests[w.request].member = w.member
              /\ w.changes.expiration = requests[w.request].changes.expiration
              /\ "expiration" \in w.changes.keys =>
                    "expiration" \in requests[w.request].changes.keys
              /\ DatedFirst(commits, n)

\* A revocation that makes an active membership last makes it inactive.
EndsWithDate(w) ==
    ~w.changes.active /\ "expiration" \in w.changes.keys =>
        "active" \in w.changes.keys \/ ~edges[w.group][w.member].active

\* All commits of a list are about the same membership and change.
SameChange(w, v) ==
    /\ v.op = "edge" /\ v.group = w.group /\ v.member = w.member
    /\ v.request = w.request
    /\ v.changes.expiration = w.changes.expiration
    /\ v.changes.active = w.changes.active

Prepared(commits) ==
    /\ commits \in Seq(SafeWrite)
    /\ \A n \in 1..Len(commits) :
          /\ commits[n].op # "edge" => Len(commits) = 1
          /\ commits[n].op = "file" => ReadyToFile(commits[n])
          /\ commits[n].op = "edge" =>
                /\ ReadyToDecide(commits, n) /\ EndsWithDate(commits[n])
                /\ \A k \in 1..Len(commits) : SameChange(commits[n], commits[k])

WorkInv ==
    /\ \A p \in Procs : Prepared(txn[p])
    /\ \A i \in 1..Len(requests) : requests[i].changes.active
    /\ OnePendingRequest

-----------------------------------------------------------------------------
(* However many processes work: rows are not removed, absent groups have    *)
(* none, what is missing is no owner and has no date, and a commit finds its *)
(* row unless the list it is in starts by inserting it.                     *)

FindsRow(commits) ==
    \A n \in 1..Len(commits) :
        LET w == commits[n]
        IN  w.op \in {"edge", "file"} =>
                /\ groupStatus[w.group] # "absent"
                /\ \/ edges[w.group][w.member].row
                   \/ /\ commits[1].insert /\ commits[1].op \in {"edge", "file"}
                      /\ commits[1].group = w.group /\ commits[1].member = w.member

RowInv ==
    /\ \A g \in Groups, m \in Members :
          IF edges[g][m].row THEN groupStatus[g] # "absent"
          ELSE edges[g][m].expiration = Forever /\ edges[g][m].role = "member"
    /\ \A i \in 1..Len(requests) :
          edges[requests[i].group][requests[i].member].row
    /\ \A p \in Procs : FindsRow(txn[p])

\* The commits of a list are about the same membership, the role is in the first
\* or in none, and the expiration is in one of the first two or in none.
OneMembership(commits) ==
    \A n \in 1..Len(commits) : commits[n].op = "edge" =>
        /\ \A k \in 1..Len(commits) :
              /\ commits[k].op = "edge" /\ commits[k].group = commits[n].group
              /\ commits[k].member = commits[n].member
              /\ commits[k].changes.role = commits[n].changes.role
              /\ "expiration" \in commits[k].changes.keys
                 /\ "expiration" \in commits[n].changes.keys => k = n
        /\ n > 2 => "expiration" \notin commits[n].changes.keys
        /\ n > 1 => "role" \notin commits[n].changes.keys

\* Where the setter adjusts notices, the rest of the change is left for later.
SetterFirst(commits) ==
    LET w == commits[1]
    IN  /\ w.op = "edge" /\ w.member \in Users
        /\ "role" \in w.changes.keys
        /\ (edges[w.group][w.member].role \in OwnerRoles)
                # (w.changes.role \in OwnerRoles)
        /\ ExpiringSupergroups(w.group) # {}
        => 2 \in 1..Len(commits) /\ "expiration" \notin w.changes.keys

\* What a handler does: it leaves commits to make, which find their rows, and
\* which are prepared where what has been read holds.
Handed(commits) ==
    /\ 1 \in 1..Len(commits)
    /\ OneMembership(commits) /\ SetterFirst(commits)
    /\ RowInv => FindsRow(commits)
    /\ WorkInv => Prepared(commits)

Prepares(p) ==
    \E commits \in Seq(SafeWrite) : Begin(p, commits) /\ Handed(commits)

-----------------------------------------------------------------------------
(* Facts about the data.                                                   *)

LEMMA Memberships == Groups \subseteq Members /\ Users \subseteq Members
                     /\ \A m \in Members : m \in Users <=> m \notin Groups
BY MembershipAssumption DEF Members

LEMMA SeqMonotone ==
    ASSUME NEW S, NEW T, S \subseteq T
    PROVE  Seq(S) \subseteq Seq(T)
<1> SUFFICES ASSUME NEW s \in Seq(S) PROVE s \in Seq(T)
  OBVIOUS
<1>1. Len(s) \in Nat /\ s \in [1..Len(s) -> S]
  BY LenProperties
<1>2. s \in [1..Len(s) -> T]
  BY <1>1
<1> QED
  BY <1>1, <1>2, SeqDef

\* The invariant says what TypeOK and GroupsAreOnlyMembers say.
LEMMA IInvImplies == IInv => TypeOK /\ GroupsAreOnlyMembers
<1> SUFFICES ASSUME IInv PROVE TypeOK /\ GroupsAreOnlyMembers
  OBVIOUS
<1>1. Seq(SafeRequest) \subseteq Seq(Request)
  BY SeqMonotone DEF SafeRequest
<1>2. Seq(SafeWrite) \subseteq Seq(Write)
  BY SeqMonotone DEF SafeWrite
<1>3. TypeOK
  BY <1>1, <1>2 DEF IInv, SafeEdges, TypeOK
<1>4. \A i \in 1..Len(requests) : requests[i] \in SafeRequest
  BY ElementOfSeq DEF IInv
<1>5. GroupsAreOnlyMembers
  BY <1>4 DEF IInv, SafeEdges, SafeRequest, GroupsAreOnlyMembers
<1> QED
  BY <1>3, <1>5

LEMMA NewEdgeType ==
    ASSUME NEW role \in Roles
    PROVE  NewEdge(role) \in Edge /\ NewEdge(role).role = role
BY DEF NewEdge, Edge, Forever

\* Applying changes to a row gives a row, and a role of the two.
LEMMA ApplyChangesType ==
    ASSUME NEW e \in Edge, NEW changes \in Changes
    PROVE  /\ ApplyChanges(e, changes) \in Edge
           /\ ApplyChanges(e, changes).role \in {e.role, changes.role}
BY DEF ApplyChanges, Edge, Changes

\* The commits of a change are edge commits about that member, and have the
\* role of the row and of the change.
LEMMA CommitsType ==
    ASSUME NEW g \in Groups, NEW m \in Members, NEW e \in Edge,
           NEW insert \in BOOLEAN, NEW changes \in Changes, NEW request \in Nat,
           NEW status \in {"none", "actioned", "cancelled"},
           m \in Groups => e.role = "member" /\ changes.role = "member"
    PROVE  Commits(g, m, e, insert, changes, request, status) \in Seq(SafeWrite)
<1> DEFINE segments == Segments(CommitsAfterRole(g, m, e, changes),
                                CommitsAfterExpiration(changes))
           write(n) == [op |-> "edge", group |-> g, member |-> m,
                        insert |-> insert /\ n = 1, role |-> e.role,
                        changes |-> [changes EXCEPT !.keys = segments[n] \cap
                            IF n = 1 THEN Differing(e, changes) ELSE @],
                        request |-> request,
                        status |-> IF n = 1 THEN status ELSE "none"]
<1>1. PICK len \in Nat : DOMAIN segments = 1..len
                         /\ \A n \in 1..len : segments[n] \subseteq Columns
  <2>1. \/ segments = << {"role"}, {"expiration"}, {"active"} >>
        \/ segments = << {"role"}, {"expiration", "active"} >>
        \/ segments = << {"role", "expiration"}, {"active"} >>
        \/ segments = << Columns >>
    BY DEF Segments
  <2> HIDE DEF segments
  <2>2. CASE segments = << {"role"}, {"expiration"}, {"active"} >>
    <3> WITNESS 3 \in Nat
    <3> QED BY <2>2 DEF Columns
  <2>3. CASE segments = << {"role"}, {"expiration", "active"} >>
    <3> WITNESS 2 \in Nat
    <3> QED BY <2>3 DEF Columns
  <2>4. CASE segments = << {"role", "expiration"}, {"active"} >>
    <3> WITNESS 2 \in Nat
    <3> QED BY <2>4 DEF Columns
  <2>5. CASE segments = << Columns >>
    <3> WITNESS 1 \in Nat
    <3> QED BY <2>5
  <2> QED
    BY <2>1, <2>2, <2>3, <2>4, <2>5
<1>2. Commits(g, m, e, insert, changes, request, status)
        = [n \in 1..len |-> write(n)]
  BY <1>1 DEF Commits
<1> HIDE DEF segments
<1>3. ASSUME NEW n \in 1..len
      PROVE  write(n) \in SafeWrite
  <2> DEFINE keys == segments[n] \cap
                       IF n = 1 THEN Differing(e, changes) ELSE changes.keys
             part == [changes EXCEPT !.keys = keys]
  <2>1. keys \subseteq Columns
    BY <1>1
  <2>2. part \in Changes /\ part.role = changes.role
    BY <2>1 DEF Changes
  <2> HIDE DEF keys
  <2>3. write(n) = [op |-> "edge", group |-> g, member |-> m,
                    insert |-> insert /\ n = 1, role |-> e.role,
                    changes |-> part, request |-> request,
                    status |-> IF n = 1 THEN status ELSE "none"]
    BY DEF keys
  <2>4. e.role \in Roles
    BY DEF Edge
  <2> HIDE DEF part, write
  <2>5. write(n) \in EdgeWrite
    BY <2>2, <2>3, <2>4 DEF EdgeWrite
  <2> QED
    BY <2>2, <2>3, <2>5 DEF SafeWrite, Write
<1> HIDE DEF write
<1>4. [n \in 1..len |-> write(n)] \in [1..len -> SafeWrite]
  BY <1>3
<1> QED
  BY <1>1, <1>2, <1>4, SeqDef

\* In whatever commits a change is made, the expiration comes no later than
\* active, and with it unless a notice is scheduled.
LEMMA SegmentsOrder ==
    ASSUME NEW cut1, NEW cut2
    PROVE  \E len \in Nat :
              /\ DOMAIN Segments(cut1, cut2) = 1..len
              /\ Segments(cut1, cut2) \in [1..len -> SUBSET Columns]
              /\ \A n \in 1..len : "expiration" \in Segments(cut1, cut2)[n] =>
                    n <= 2 /\ (cut2 \/ "active" \in Segments(cut1, cut2)[n])
              /\ \A n \in 1..len : "active" \in Segments(cut1, cut2)[n] =>
                    \E k \in 1..n : "expiration" \in Segments(cut1, cut2)[k]
<1> DEFINE s == Segments(cut1, cut2)
           Good(len) ==
              /\ DOMAIN s = 1..len
              /\ s \in [1..len -> SUBSET Columns]
              /\ \A n \in 1..len : "expiration" \in s[n] =>
                    n <= 2 /\ (cut2 \/ "active" \in s[n])
              /\ \A n \in 1..len : "active" \in s[n] =>
                    \E k \in 1..n : "expiration" \in s[k]
<1>1. ASSUME cut2, s = << {"role"}, {"expiration"}, {"active"} >>
      PROVE  \E len \in Nat : Good(len)
  <2>0. s = << {"role"}, {"expiration"}, {"active"} >>
    BY <1>1, Zenon
  <2>1. Len(s) = 3 /\ s[1] = {"role"} /\ s[2] = {"expiration"} /\ s[3] = {"active"}
    BY <2>0
  <2>2. {"role"} \in SUBSET Columns /\ {"expiration"} \in SUBSET Columns /\ {"active"} \in SUBSET Columns
    BY DEF Columns
  <2>3. s \in Seq(SUBSET Columns)
    BY <2>0, <2>2
  <2>4. DOMAIN s = 1..3 /\ s \in [1..3 -> SUBSET Columns]
    BY <2>1, <2>3
  <2> HIDE DEF s
  <2>5. Good(3)
    BY <1>1, <2>1, <2>4
  <2> QED
    BY <2>5 DEF s
<1>2. CASE s = << {"role"}, {"expiration", "active"} >>
  <2>1. Len(s) = 2 /\ s[1] = {"role"} /\ s[2] = {"expiration", "active"}
    BY <1>2
  <2>2. {"role"} \in SUBSET Columns /\ {"expiration", "active"} \in SUBSET Columns
    BY DEF Columns
  <2>3. s \in Seq(SUBSET Columns)
    BY <1>2, <2>2
  <2>4. DOMAIN s = 1..2 /\ s \in [1..2 -> SUBSET Columns]
    BY <2>1, <2>3
  <2> HIDE DEF s
  <2>5. Good(2)
    BY <1>2, <2>1, <2>4
  <2> QED
    BY <2>5 DEF s
<1>3. ASSUME cut2, s = << {"role", "expiration"}, {"active"} >>
      PROVE  \E len \in Nat : Good(len)
  <2>0. s = << {"role", "expiration"}, {"active"} >>
    BY <1>3, Zenon
  <2>1. Len(s) = 2 /\ s[1] = {"role", "expiration"} /\ s[2] = {"active"}
    BY <2>0
  <2>2. {"role", "expiration"} \in SUBSET Columns /\ {"active"} \in SUBSET Columns
    BY DEF Columns
  <2>3. s \in Seq(SUBSET Columns)
    BY <2>0, <2>2
  <2>4. DOMAIN s = 1..2 /\ s \in [1..2 -> SUBSET Columns]
    BY <2>1, <2>3
  <2> HIDE DEF s
  <2>5. Good(2)
    BY <1>3, <2>1, <2>4
  <2> QED
    BY <2>5 DEF s
<1>4. CASE s = << Columns >>
  <2>1. Good(1)
    BY <1>4 DEF Columns
  <2> QED
    BY <2>1
<1> QED
  BY <1>1, <1>2, <1>3, <1>4 DEF Segments

LEMMA SegmentsApart ==
    ASSUME NEW cut1, NEW cut2
    PROVE  /\ 1 \in DOMAIN Segments(cut1, cut2)
           /\ \A n, k \in DOMAIN Segments(cut1, cut2) :
                 /\ "expiration" \in Segments(cut1, cut2)[n]
                 /\ "expiration" \in Segments(cut1, cut2)[k]
                 => n = k
           /\ \A n \in DOMAIN Segments(cut1, cut2) :
                 n > 1 => "role" \notin Segments(cut1, cut2)[n]
           /\ cut1 => /\ 2 \in DOMAIN Segments(cut1, cut2)
                      /\ "expiration" \notin Segments(cut1, cut2)[1]
<1>1. CASE cut1 /\ cut2
  <2>1. Segments(cut1, cut2) = << {"role"}, {"expiration"}, {"active"} >>
    BY <1>1, Zenon DEF Segments
  <2> QED
    BY <2>1
<1>2. CASE cut1 /\ ~cut2
  <2>1. Segments(cut1, cut2) = << {"role"}, {"expiration", "active"} >>
    BY <1>2, Zenon DEF Segments
  <2> QED
    BY <2>1
<1>3. CASE ~cut1 /\ cut2
  <2>1. Segments(cut1, cut2) = << {"role", "expiration"}, {"active"} >>
    BY <1>3, Zenon DEF Segments
  <2>2. PICK s : s = Segments(cut1, cut2)
    OBVIOUS
  <2>3. s = << {"role", "expiration"}, {"active"} >>
    BY <2>1, <2>2, Zenon
  <2>4. DOMAIN s = 1..2 /\ "expiration" \notin s[2] /\ "role" \notin s[2]
    BY <2>3
  <2>5. /\ 1 \in DOMAIN s
        /\ \A n, k \in DOMAIN s : "expiration" \in s[n] /\ "expiration" \in s[k] => n = k
        /\ \A n \in DOMAIN s : n > 1 => "role" \notin s[n]
    BY <2>4
  <2> QED
    BY <1>3, <2>2, <2>5, Zenon
<1>4. CASE ~cut1 /\ ~cut2
  <2>1. Segments(cut1, cut2) = << Columns >>
    BY <1>4, Zenon DEF Segments
  <2> QED
    BY <1>4, <2>1
<1> QED
  BY <1>1, <1>2, <1>3, <1>4, Zenon

\* The commits of a change are prepared when the request it decides is pending
\* and asked for it, and when a revocation that clears the expiration of a row
\* makes the row inactive; and they find their row when the handler found it or
\* inserts it.
LEMMA CommitsHanded ==
    ASSUME NEW g \in Groups, NEW m \in Members, NEW e \in Edge,
           NEW insert \in BOOLEAN, NEW changes \in Changes, NEW request \in Nat,
           NEW status \in {"none", "actioned", "cancelled"},
           m \in Groups => e.role = "member" /\ changes.role = "member",
           RowInv => groupStatus[g] # "absent" /\ (insert \/ edges[g][m].row),
           IF insert THEN e.role = changes.role ELSE e = edges[g][m],
           WorkInv /\ ~changes.active =>
              /\ changes.expiration = Forever
              /\ "expiration" \in changes.keys =>
                    e = edges[g][m] /\ ("active" \in changes.keys \/ ~e.active),
           status # "none" => request # 0 /\ requests[request].status = "pending",
           request # 0 =>
              /\ ~insert /\ e = edges[g][m] /\ request \in 1..Len(requests)
              /\ requests[request].group = g /\ requests[request].member = m
              /\ WorkInv => changes.active
              /\ changes.expiration = requests[request].changes.expiration
              /\ changes.keys \in {{}, requests[request].changes.keys}
    PROVE  Handed(Commits(g, m, e, insert, changes, request, status))
<1> DEFINE s == Segments(CommitsAfterRole(g, m, e, changes),
                         CommitsAfterExpiration(changes))
           keys(n) == s[n] \cap IF n = 1 THEN Differing(e, changes)
                                ELSE changes.keys
           part(n) == [changes EXCEPT !.keys = keys(n)]
           c == Commits(g, m, e, insert, changes, request, status)
<1>1. c \in Seq(SafeWrite)
  BY CommitsType
<1>2. PICK len \in Nat :
        /\ DOMAIN s = 1..len
        /\ s \in [1..len -> SUBSET Columns]
        /\ \A n \in 1..len : "expiration" \in s[n] =>
              n <= 2 /\ (CommitsAfterExpiration(changes) \/ "active" \in s[n])
        /\ \A n \in 1..len : "active" \in s[n] =>
              \E k \in 1..n : "expiration" \in s[k]
  BY SegmentsOrder
<1>3. c = [n \in 1..len |->
             [op |-> "edge", group |-> g, member |-> m,
              insert |-> insert /\ n = 1, role |-> e.role,
              changes |-> [changes EXCEPT !.keys = s[n] \cap
                             IF n = 1 THEN Differing(e, changes) ELSE @],
              request |-> request, status |-> IF n = 1 THEN status ELSE "none"]]
  BY <1>2 DEF Commits
<1> HIDE DEF s, c
<1>4. Len(c) = len
  BY <1>1, <1>2, <1>3
<1>5. ASSUME NEW n \in 1..len
      PROVE  /\ c[n].op = "edge" /\ c[n].group = g /\ c[n].member = m
             /\ c[n].insert = (insert /\ n = 1) /\ c[n].request = request
             /\ c[n].status = (IF n = 1 THEN status ELSE "none")
             /\ c[n].changes.keys = keys(n)
             /\ c[n].changes.expiration = changes.expiration
             /\ c[n].changes.active = changes.active
             /\ c[n].changes.role = changes.role
  BY <1>3 DEF Changes
<1>6. ASSUME WorkInv, NEW n \in 1..len, "expiration" \in keys(n), ~changes.active
      PROVE  "active" \in keys(n) \/ ~edges[g][m].active
  <2>1. "expiration" \in s[n] /\ "expiration" \in changes.keys
    BY <1>6 DEF Differing
  <2>2. "active" \in s[n]
    BY <1>2, <1>6, <2>1 DEF CommitsAfterExpiration
  <2>3. e = edges[g][m] /\ ("active" \in changes.keys \/ ~e.active)
    BY <1>6, <2>1
  <2> QED
    BY <1>6, <2>2, <2>3 DEF Differing
<1>7. ASSUME NEW n \in 1..len, request # 0, "active" \in keys(n),
             "expiration" \in requests[request].changes.keys
      PROVE  \/ edges[g][m].expiration = requests[request].changes.expiration
             \/ \E k \in 1..n : "expiration" \in keys(k)
  <2>1. "active" \in s[n] /\ "active" \in changes.keys
    BY <1>7 DEF Differing
  <2>2. "expiration" \in changes.keys
    BY <1>7, <2>1
  <2>3. PICK k \in 1..n : "expiration" \in s[k]
    BY <1>2, <2>1
  <2>4. CASE k # 1
    BY <2>2, <2>3, <2>4
  <2>5. CASE k = 1
    BY <1>7, <2>2, <2>3, <2>5 DEF Differing
  <2> QED
    BY <2>4, <2>5
<1> HIDE DEF keys
<1>8. ASSUME NEW n \in 1..len
      PROVE  WorkInv => ReadyToDecide(c, n)
  <2>1. c[n].request # 0 => DatedFirst(c, n)
    BY <1>5, <1>7 DEF DatedFirst
  <2>2. request # 0 /\ "expiration" \in keys(n) =>
           "expiration" \in requests[request].changes.keys
    BY DEF keys, Differing
  <2> QED
    BY <1>5, <2>1, <2>2 DEF ReadyToDecide
<1>9. ASSUME NEW n \in 1..len
      PROVE  WorkInv => EndsWithDate(c[n])
  BY <1>5, <1>6 DEF EndsWithDate
<1>10. ASSUME NEW n \in 1..len, NEW k \in 1..len
       PROVE  SameChange(c[n], c[k])
  BY <1>5 DEF SameChange
<1>11. WorkInv => Prepared(c)
  BY <1>1, <1>4, <1>5, <1>8, <1>9, <1>10 DEF Prepared
<1>12. /\ 1 \in 1..len
       /\ \A n, k \in 1..len : "expiration" \in s[n] /\ "expiration" \in s[k] => n = k
       /\ \A n \in 1..len : n > 1 => "role" \notin s[n]
       /\ CommitsAfterRole(g, m, e, changes) =>
             2 \in 1..len /\ "expiration" \notin s[1]
  BY <1>2, SegmentsApart DEF s
<1>13. \A n \in 1..len : keys(n) \subseteq s[n]
  BY DEF keys
<1>14. OneMembership(c)
  <2>1. \A n \in 1..len : n > 2 => "expiration" \notin c[n].changes.keys
    BY <1>2, <1>5 DEF keys
  <2>2. \A n \in 1..len : n > 1 => "role" \notin c[n].changes.keys
    BY <1>5, <1>12, <1>13
  <2>3. \A n, k \in 1..len : /\ "expiration" \in c[n].changes.keys
                            /\ "expiration" \in c[k].changes.keys
                            => k = n
    BY <1>5, <1>12, <1>13
  <2> QED
    BY <1>4, <1>5, <2>1, <2>2, <2>3 DEF OneMembership
<1>15. SetterFirst(c)
  <2> SUFFICES ASSUME m \in Users, "role" \in keys(1),
                      (edges[g][m].role \in OwnerRoles) # (changes.role \in OwnerRoles),
                      ExpiringSupergroups(g) # {}
               PROVE  2 \in 1..len /\ "expiration" \notin keys(1)
    BY <1>4, <1>5, <1>12 DEF SetterFirst
  <2>1. "role" \in changes.keys /\ e.role # changes.role
    BY DEF keys, Differing
  <2>2. e = edges[g][m]
    BY <2>1
  <2>3. CommitsAfterRole(g, m, e, changes)
    BY <2>1, <2>2 DEF CommitsAfterRole
  <2> QED
    BY <1>12, <1>13, <2>3
<1>16. RowInv => FindsRow(c)
  BY <1>4, <1>5 DEF FindsRow
<1>17. Handed(c)
  BY <1>4, <1>11, <1>12, <1>14, <1>15, <1>16 DEF Handed
<1> QED
  BY <1>17 DEF c

LEMMA OneWrite ==
    ASSUME NEW w \in SafeWrite, w.op # "edge",
           w.op = "file" =>
              /\ ReadyToFile(w)
              /\ RowInv => /\ groupStatus[w.group] # "absent"
                           /\ w.insert \/ edges[w.group][w.member].row
    PROVE  << w >> \in Seq(SafeWrite) /\ Handed(<< w >>)
<1>1. Prepared(<< w >>)
  BY DEF Prepared
<1>2. OneMembership(<< w >>) /\ SetterFirst(<< w >>)
  BY DEF OneMembership, SetterFirst
<1>3. RowInv => FindsRow(<< w >>)
  BY DEF FindsRow
<1> QED
  BY <1>1, <1>2, <1>3 DEF Handed

-----------------------------------------------------------------------------
(* The handlers: each only leaves commits to make.                         *)

LEMMA BeginKeeps ==
    ASSUME IInv, NEW p \in Procs, Prepares(p)
    PROVE  IInv'
BY DEF Prepares, Begin, IInv, SafeEdges

LEMMA PersistPrepares ==
    ASSUME IInv, NEW p \in Procs, NEW g \in Groups, NEW m \in Members,
           NEW status \in {"pending", "actioned"}, NEW createEdge \in BOOLEAN,
           NEW updates \in Changes, "role" \in updates.keys,
           ~updates.active => /\ status = "actioned" /\ updates.keys = Columns
                              /\ updates.expiration = Forever,
           status = "pending" /\ m \in Users => PendingFor(g, m) = {},
           groupStatus[g] # "absent",
           PersistGroupMemberChanges(p, g, m, status, createEdge, updates)
    PROVE  Prepares(p)
<1> DEFINE old == edges[g][m]
           e == IF old.row THEN old ELSE NewEdge(updates.role)
           changes == [updates EXCEPT !.keys = Differing(e, updates)]
<1>1. updates.role \in Roles /\ (m \in Groups => updates.role = "member")
  BY DEF PersistGroupMemberChanges, ValidateRole, Changes
<1>2. old \in Edge /\ (m \in Groups => old.role = "member")
  BY DEF IInv, SafeEdges
<1>3. e \in Edge /\ (m \in Groups => e.role = "member")
  BY <1>1, <1>2, NewEdgeType
<1>4. Differing(e, updates) \subseteq Columns
  BY DEF Differing, Changes
<1>5. changes \in Changes /\ changes.role = updates.role
  BY <1>4 DEF Changes
<1>6. old.row \in BOOLEAN
  BY <1>2 DEF Edge
<1>7. /\ changes.active = updates.active /\ changes.expiration = updates.expiration
      /\ changes.keys = Differing(e, updates)
  BY DEF Changes
<1>8. /\ e = edges[g][m] \/ e.expiration = Forever
      /\ IF ~old.row THEN e.role = changes.role ELSE e = edges[g][m]
  BY <1>5 DEF NewEdge
<1> HIDE DEF changes, e
<1>9. ~changes.active =>
         /\ changes.expiration = Forever
         /\ "expiration" \in changes.keys =>
               e = edges[g][m] /\ ("active" \in changes.keys \/ ~e.active)
  BY <1>3, <1>7, <1>8 DEF Differing, Columns, Edge, Changes
<1>10. CASE status = "actioned"
  <2> DEFINE c == Commits(g, m, e, ~old.row, changes, 0, "none")
  <2>1. Begin(p, c)
    BY <1>10 DEF PersistGroupMemberChanges, e, changes
  <2>2. Handed(c) /\ c \in Seq(SafeWrite)
    BY <1>1, <1>3, <1>5, <1>6, <1>8, <1>9, CommitsHanded, CommitsType
  <2> HIDE DEF c
  <2> QED
    BY <2>1, <2>2 DEF Prepares
<1>11. CASE status = "pending"
  <2> DEFINE w == [op |-> "file", group |-> g, member |-> m,
                   insert |-> ~old.row, role |-> e.role,
                   changes |-> changes, status |-> status]
  <2>1. Begin(p, << w >>)
    BY <1>11 DEF PersistGroupMemberChanges, e, changes
  <2>2. e.role \in Roles
    BY <1>3 DEF Edge
  <2>3. w \in FileWrite
    BY <1>5, <1>6, <1>11, <2>2 DEF FileWrite
  <2>4. w \in SafeWrite
    BY <1>1, <1>3, <1>5, <2>3 DEF SafeWrite, Write
  <2>5. ReadyToFile(w)
    BY <1>7, <1>11 DEF ReadyToFile
  <2>6. w.op = "file" /\ groupStatus[w.group] # "absent"
        /\ (w.insert \/ edges[w.group][w.member].row)
    BY <1>6
  <2> HIDE DEF w
  <2> QED
    BY <2>1, <2>4, <2>5, <2>6, OneWrite DEF Prepares
<1> QED
  BY <1>10, <1>11

LEMMA AddMemberPrepares ==
    ASSUME IInv, NEW p \in Procs, NEW g \in Groups, NEW m \in Members,
           NEW status \in {"pending", "actioned"}, NEW expiration \in Nat,
           NEW role \in Roles, AddMember(p, g, m, status, expiration, role),
           groupStatus[g] # "absent",
           status = "pending" /\ m \in Users => PendingFor(g, m) = {}
    PROVE  Prepares(p)
<1> DEFINE updates == [keys |-> Columns, role |-> role,
                       expiration |-> expiration, active |-> TRUE]
<1>1. updates \in Changes /\ "role" \in updates.keys /\ updates.active
  BY DEF Changes, Columns
<1> QED
  BY <1>1, PersistPrepares DEF AddMember

LEMMA EditMemberPrepares ==
    ASSUME IInv, NEW p \in Procs, NEW g \in Groups, NEW m \in Members,
           NEW expiration \in Nat, NEW role \in Roles,
           groupStatus[g] # "absent", EditMember(p, g, m, role, expiration)
    PROVE  Prepares(p)
<1> DEFINE updates == [keys |-> {"role", "expiration"}, role |-> role,
                       expiration |-> expiration, active |-> TRUE]
<1>1. updates \in Changes /\ "role" \in updates.keys /\ updates.active
  BY DEF Changes, Columns
<1> QED
  BY <1>1, PersistPrepares DEF EditMember

LEMMA RevokeMemberPrepares ==
    ASSUME IInv, NEW p \in Procs, NEW g \in Groups, NEW m \in Members,
           groupStatus[g] # "absent", RevokeMember(p, g, m)
    PROVE  Prepares(p)
<1> DEFINE updates == [keys |-> Columns, role |-> "member",
                       expiration |-> Forever, active |-> FALSE]
<1>1. /\ updates \in Changes /\ "role" \in updates.keys
      /\ updates.keys = Columns /\ updates.expiration = Forever
  BY DEF Changes, Columns, Roles, Forever
<1> QED
  BY <1>1, PersistPrepares DEF RevokeMember

LEMMA GroupRequestUpdatePrepares ==
    ASSUME IInv, NEW p \in Procs, NEW u \in Users, NEW g \in Groups,
           NEW i \in 1..Len(requests), NEW status \in {"actioned", "cancelled"},
           GroupRequestUpdate(p, u, g, i, status)
    PROVE  Prepares(p)
<1> DEFINE r == requests[i]
           e == edges[r.group][r.member]
           changes == IF status = "actioned" THEN r.changes
                      ELSE [r.changes EXCEPT !.keys = {}]
           c == Commits(r.group, r.member, e, FALSE, changes, i, status)
<1>1. Begin(p, c) /\ r.status = "pending"
  BY DEF GroupRequestUpdate, StatusChoices
<1>2. r \in SafeRequest
  BY ElementOfSeq DEF IInv
<1>3. /\ r.group \in Groups /\ r.member \in Members /\ r.changes \in Changes
      /\ r.member \in Groups => r.changes.role = "member"
  BY <1>2 DEF SafeRequest, Request
<1>4. e \in Edge /\ (r.member \in Groups => e.role = "member")
  BY <1>3 DEF IInv, SafeEdges
<1>5. /\ changes \in Changes /\ changes.role = r.changes.role
      /\ changes.expiration = r.changes.expiration
      /\ changes.active = r.changes.active /\ changes.keys \in {{}, r.changes.keys}
  BY <1>3 DEF Changes
<1>6. i \in Nat /\ i # 0
  BY LenProperties DEF IInv
<1>7. e = edges[r.group][r.member] /\ r = requests[i]
  OBVIOUS
<1> HIDE DEF r, e, changes
<1>8. c \in Seq(SafeWrite)
  BY <1>3, <1>4, <1>5, <1>6, CommitsType
<1>9. Handed(c)
  <2>1. WorkInv => changes.active
    BY <1>5, <1>7 DEF WorkInv
  <2>2. /\ changes.expiration = requests[i].changes.expiration
        /\ changes.keys \in {{}, requests[i].changes.keys}
        /\ requests[i].status = "pending"
        /\ requests[i].group = r.group /\ requests[i].member = r.member
    BY <1>1, <1>5, <1>7
  <2>3. r.member \in Groups => e.role = "member" /\ changes.role = "member"
    BY <1>3, <1>4, <1>5
  <2>4. RowInv => groupStatus[r.group] # "absent" /\ edges[r.group][r.member].row
    BY <1>3, <1>7 DEF RowInv
  <2> QED
    BY <1>3, <1>4, <1>5, <1>6, <1>7, <2>1, <2>2, <2>3, <2>4, CommitsHanded
<1> HIDE DEF c
<1> QED
  BY <1>1, <1>8, <1>9 DEF Prepares

LEMMA GroupHandlersPrepare ==
    ASSUME IInv, NEW p \in Procs, NEW u \in Users, NEW g \in Groups
    PROVE  /\ \A role \in FormRoles : GroupCreate(p, u, g, role) => Prepares(p)
           /\ \A to \in {"enabled", "disabled"} :
                GroupSetEnabled(p, u, g, to) => Prepares(p)
<1>1. ASSUME NEW role \in FormRoles, GroupCreate(p, u, g, role)
      PROVE  Prepares(p)
  <2> DEFINE w == [op |-> "create", group |-> g, member |-> u, role |-> role]
  <2>1. w \in CreateWrite /\ w.op = "create"
    BY MembershipAssumption DEF CreateWrite
  <2>2. w \in SafeWrite
    BY <2>1 DEF SafeWrite, Write
  <2>3. Begin(p, << w >>)
    BY <1>1 DEF GroupCreate
  <2> HIDE DEF w
  <2> QED
    BY <2>1, <2>2, <2>3, OneWrite DEF Prepares
<1>2. ASSUME NEW to \in {"enabled", "disabled"}, GroupSetEnabled(p, u, g, to)
      PROVE  Prepares(p)
  <2> DEFINE w == [op |-> "group", group |-> g, to |-> to]
  <2>1. w \in SafeWrite /\ w.op = "group"
    BY DEF SafeWrite, Write, GroupWrite
  <2>2. Begin(p, << w >>)
    BY <1>2 DEF GroupSetEnabled
  <2> HIDE DEF w
  <2> QED
    BY <2>1, <2>2, OneWrite DEF Prepares
<1> QED
  BY <1>1, <1>2

LEMMA UserHandlersPrepare ==
    ASSUME IInv, NEW p \in Procs, NEW u \in Users,
           UserDisable(p, u) \/ UserEnable(p, u)
    PROVE  Prepares(p)
<1> DEFINE w(to) == [op |-> "user", user |-> u, to |-> to]
<1>1. \A to \in BOOLEAN : w(to) \in SafeWrite /\ w(to).op = "user"
  BY DEF SafeWrite, Write, UserWrite
<1>2. \E to \in BOOLEAN : Begin(p, << w(to) >>)
  BY DEF UserDisable, UserEnable
<1> HIDE DEF w
<1> QED
  BY <1>1, <1>2, OneWrite DEF Prepares

\* GroupJoin computes the status and the expiration it asks for.
LEMMA GroupJoinPrepares ==
    ASSUME IInv, NEW p \in Procs, NEW u \in Users, NEW g \in Groups,
           NEW m \in Members, NEW role \in FormRoles,
           NEW date \in FormDates \union {Forever},
           GroupJoin(p, u, g, m, role, date)
    PROVE  Prepares(p)
<1> DEFINE expiration == IF date # Forever THEN date
                         ELSE IF AutoExpire[g] # 0 THEN now + AutoExpire[g]
                         ELSE Forever
           status == IF role = "member" THEN JoinChoices[CanJoin[g]]
                     ELSE "pending"
<1>1. AddMember(p, g, m, status, expiration, role)
  BY DEF GroupJoin
<1>2. expiration \in Nat
  BY MembershipAssumption DEF IInv, Forever
<1>3. CanJoin[g] \in {"canjoin", "canask"}
  BY MembershipAssumption DEF GroupJoin, Joinable
<1>4. status \in {"pending", "actioned"}
  BY <1>3 DEF JoinChoices
<1>5. role \in Roles
  BY MembershipAssumption
<1>6. (m \in Users => PendingFor(g, m) = {}) /\ groupStatus[g] # "absent"
  BY MembershipAssumption DEF GroupJoin, Involved
<1> HIDE DEF expiration, status
<1> QED
  BY <1>1, <1>2, <1>4, <1>5, <1>6, AddMemberPrepares

LEMMA HandlerPrepares ==
    ASSUME IInv, NEW p \in Procs, Handler(p)
    PROVE  Prepares(p)
<1>1. PICK g \in Groups :
        \/ \E u \in Users :
            \/ \E role \in FormRoles : GroupCreate(p, u, g, role)
            \/ \E m \in Members, role \in FormRoles,
                  date \in FormDates \union {Forever} :
                \/ GroupJoin(p, u, g, m, role, date)
                \/ GroupAdd(p, u, g, m, role, date)
                \/ GroupEditMember(p, u, g, m, role, date)
            \/ \E m \in Members : GroupRemove(p, u, g, m)
            \/ \E i \in 1..Len(requests), status \in {"actioned", "cancelled"} :
                GroupRequestUpdate(p, u, g, i, status)
            \/ GroupLeave(p, u, g)
            \/ \E to \in {"enabled", "disabled"} : GroupSetEnabled(p, u, g, to)
            \/ \E role \in FormRoles : CtlAddMember(p, g, u, role)
            \/ CtlRemoveMember(p, g, u)
  BY DEF Handler
<1> DEFINE Dates == FormDates \union {Forever}
<1>2. FormRoles \subseteq Roles /\ Dates \subseteq Nat /\ Forever \in Nat
  BY MembershipAssumption DEF Forever
<1>3. ASSUME NEW u \in Users, NEW m \in Members, NEW role \in FormRoles,
             NEW date \in Dates, GroupAdd(p, u, g, m, role, date)
      PROVE  Prepares(p)
  BY <1>2, <1>3, AddMemberPrepares DEF GroupAdd
<1>4. ASSUME NEW u \in Users, NEW m \in Members, NEW role \in FormRoles,
             NEW date \in Dates, GroupEditMember(p, u, g, m, role, date)
      PROVE  Prepares(p)
  BY <1>2, <1>4, EditMemberPrepares DEF GroupEditMember, IsMember
<1>5. ASSUME NEW u \in Users, NEW m \in Members, GroupRemove(p, u, g, m)
      PROVE  Prepares(p)
  BY <1>5, RevokeMemberPrepares DEF GroupRemove, IsMember
<1>6. ASSUME NEW u \in Users, GroupLeave(p, u, g) \/ CtlRemoveMember(p, g, u)
      PROVE  Prepares(p)
  BY <1>6, Memberships, RevokeMemberPrepares DEF GroupLeave, CtlRemoveMember
<1>7. ASSUME NEW u \in Users, NEW role \in FormRoles, CtlAddMember(p, g, u, role)
      PROVE  Prepares(p)
  BY <1>2, <1>7, Memberships, AddMemberPrepares DEF CtlAddMember
<1> QED
  BY <1>1, <1>3, <1>4, <1>5, <1>6, <1>7, GroupJoinPrepares, GroupHandlersPrepare,
     GroupRequestUpdatePrepares

-----------------------------------------------------------------------------
(* The commits.                                                            *)

\* The commit at the head of txn[p], and what is left after it.
LEMMA CurrentWrite ==
    ASSUME IInv, NEW p \in Procs, txn[p] # << >>
    PROVE  /\ Head(txn[p]) \in SafeWrite
           /\ [txn EXCEPT ![p] = Tail(@)] \in [Procs -> Seq(SafeWrite)]
<1>1. txn[p] \in Seq(SafeWrite)
  BY DEF IInv
<1>2. Head(txn[p]) \in SafeWrite /\ Tail(txn[p]) \in Seq(SafeWrite)
  BY <1>1, HeadTailProperties
<1> QED
  BY <1>2 DEF IInv

LEMMA CommitEdgeKeeps ==
    ASSUME IInv, NEW p \in Procs, CommitEdge(p)
    PROVE  IInv'
<1> DEFINE w == Head(txn[p])
           e == IF w.insert THEN NewEdge(w.role) ELSE edges[w.group][w.member]
           new == ApplyChanges(e, w.changes)
<1>1. /\ txn[p] # << >> /\ w.op = "edge"
      /\ edges' = [edges EXCEPT ![w.group][w.member] = new]
      /\ requests' = IF w.status = "none" THEN requests
                     ELSE [requests EXCEPT ![w.request].status = w.status]
      /\ txn' = [txn EXCEPT ![p] = Tail(@)]
      /\ UNCHANGED <<groupStatus, userEnabled, now, expiring>>
  BY DEF CommitEdge, Current, Done
<1>2. w \in SafeWrite /\ txn' \in [Procs -> Seq(SafeWrite)]
  BY <1>1, CurrentWrite
<1>3. /\ w.group \in Groups /\ w.member \in Members /\ w.changes \in Changes
      /\ w.role \in Roles /\ w.status \in {"none", "actioned", "cancelled"}
      /\ w.member \in Groups => w.role = "member" /\ w.changes.role = "member"
  BY <1>1, <1>2
  DEF SafeWrite, Write, EdgeWrite, FileWrite, CreateWrite, GroupWrite, UserWrite
<1>4. e \in Edge /\ (w.member \in Groups => e.role = "member")
  BY <1>3, NewEdgeType DEF IInv, SafeEdges
<1> HIDE DEF w, e
<1>5. new \in Edge /\ (w.member \in Groups => new.role = "member")
  BY <1>3, <1>4, ApplyChangesType
<1> HIDE DEF new
<1>6. SafeEdges'
  BY <1>1, <1>3, <1>5 DEF IInv, SafeEdges
<1>7. requests' \in Seq(SafeRequest)
  <2>1. CASE w.status = "none" \/ w.request \notin DOMAIN requests
    <3>1. requests \in [1..Len(requests) -> SafeRequest] /\ Len(requests) \in Nat
      BY LenProperties DEF IInv
    <3>2. requests' \in [1..Len(requests) -> SafeRequest]
      BY <1>1, <2>1, <3>1
    <3> QED
      BY <3>1, <3>2, SeqDef
  <2>2. CASE w.status # "none" /\ w.request \in DOMAIN requests
    <3> DEFINE old == requests[w.request]
               decided == [old EXCEPT !.status = w.status]
    <3>1. w.request \in 1..Len(requests) /\ requests \in Seq(SafeRequest)
      BY <2>2, LenProperties DEF IInv
    <3>2. old \in SafeRequest
      BY <3>1, ElementOfSeq
    <3>3. decided \in SafeRequest
      BY <1>3, <2>2, <3>2 DEF SafeRequest, Request, Status
    <3>4. requests' = [requests EXCEPT ![w.request] = decided]
      BY <1>1, <2>2
    <3> QED
      BY <3>1, <3>3, <3>4, ExceptSeq
  <2> QED
    BY <2>1, <2>2
<1> QED
  BY <1>1, <1>2, <1>6, <1>7 DEF IInv

LEMMA CommitFiledRequestKeeps ==
    ASSUME IInv, NEW p \in Procs, CommitFiledRequest(p)
    PROVE  IInv'
<1> DEFINE w == Head(txn[p])
           r == [group |-> w.group, member |-> w.member,
                 status |-> w.status, changes |-> w.changes]
<1>1. /\ txn[p] # << >> /\ w.op = "file"
      /\ edges' = IF w.insert
                  THEN [edges EXCEPT ![w.group][w.member] = NewEdge(w.role)]
                  ELSE edges
      /\ requests' = Append(requests, r)
      /\ txn' = [txn EXCEPT ![p] = Tail(@)]
      /\ UNCHANGED <<groupStatus, userEnabled, now, expiring>>
  BY DEF CommitFiledRequest, Current, Done
<1>2. w \in SafeWrite /\ txn' \in [Procs -> Seq(SafeWrite)]
  BY <1>1, CurrentWrite
<1>3. /\ w.group \in Groups /\ w.member \in Members /\ w.changes \in Changes
      /\ w.role \in Roles /\ w.status = "pending"
      /\ w.member \in Groups => w.role = "member" /\ w.changes.role = "member"
  BY <1>1, <1>2
  DEF SafeWrite, Write, EdgeWrite, FileWrite, CreateWrite, GroupWrite, UserWrite
<1>4. r \in SafeRequest
  BY <1>3 DEF SafeRequest, Request, Status
<1>5. NewEdge(w.role) \in Edge /\ NewEdge(w.role).role = w.role
  BY <1>3, NewEdgeType
<1> HIDE DEF w
<1>6. SafeEdges'
  BY <1>1, <1>3, <1>5 DEF IInv, SafeEdges
<1> HIDE DEF r
<1>7. requests' \in Seq(SafeRequest)
  BY <1>1, <1>4, AppendProperties DEF IInv
<1> QED
  BY <1>1, <1>2, <1>6, <1>7 DEF IInv

\* A new group's first row is its creator's, who is a user.
LEMMA CommitCreateKeeps ==
    ASSUME IInv, NEW p \in Procs, CommitCreate(p)
    PROVE  IInv'
<1> DEFINE w == Head(txn[p])
           owner == [NewEdge(w.role) EXCEPT !.active = TRUE]
<1>1. /\ txn[p] # << >> /\ w.op = "create"
      /\ groupStatus' = [groupStatus EXCEPT ![w.group] = "enabled"]
      /\ edges' = [edges EXCEPT ![w.group][w.member] = owner]
      /\ txn' = [txn EXCEPT ![p] = Tail(@)]
      /\ UNCHANGED <<userEnabled, requests, now, expiring>>
  BY DEF CommitCreate, Current, Done
<1>2. w \in SafeWrite /\ txn' \in [Procs -> Seq(SafeWrite)]
  BY <1>1, CurrentWrite
<1>3. /\ w.group \in Groups /\ w.member \in Users /\ w.role \in Roles
  BY <1>1, <1>2
  DEF SafeWrite, Write, EdgeWrite, FileWrite, CreateWrite, GroupWrite, UserWrite
<1>4. owner \in Edge
  BY <1>3, NewEdgeType DEF Edge
<1>5. w.member \in Members \ Groups
  BY <1>3, Memberships
<1> HIDE DEF w, owner
<1>6. SafeEdges'
  BY <1>1, <1>3, <1>4, <1>5 DEF IInv, SafeEdges
<1>7. groupStatus' \in [Groups -> {"absent", "enabled", "disabled"}]
  BY <1>1 DEF IInv
<1> QED
  BY <1>1, <1>2, <1>6, <1>7 DEF IInv

LEMMA CommitFlagsKeep ==
    ASSUME IInv, NEW p \in Procs, CommitGroup(p) \/ CommitUser(p)
    PROVE  IInv'
<1> DEFINE w == Head(txn[p])
<1>1. /\ txn[p] # << >> /\ w.op \in {"group", "user"}
      /\ txn' = [txn EXCEPT ![p] = Tail(@)]
  BY DEF CommitGroup, CommitUser, Current, Done
<1>2. w \in SafeWrite /\ txn' \in [Procs -> Seq(SafeWrite)]
  BY <1>1, CurrentWrite
<1>3. /\ w.op = "group" => w.to \in {"enabled", "disabled"}
      /\ w.op = "user" => w.to \in BOOLEAN
  BY <1>2
  DEF SafeWrite, Write, EdgeWrite, FileWrite, CreateWrite, GroupWrite, UserWrite
<1>4. groupStatus' \in [Groups -> {"absent", "enabled", "disabled"}]
  BY <1>3 DEF IInv, CommitGroup, CommitUser, Current
<1>5. userEnabled' \in [Users -> BOOLEAN]
  BY <1>3 DEF IInv, CommitGroup, CommitUser, Current
<1> QED
  BY <1>2, <1>4, <1>5 DEF IInv, SafeEdges, CommitGroup, CommitUser

-----------------------------------------------------------------------------
(* The expiry task and the calendar.                                       *)

LEMMA BackgroundKeeps ==
    ASSUME IInv, Background
    PROVE  IInv'
<1>1. CASE LoadExpiredEdges \/ ExpiryCrash
  BY <1>1 DEF LoadExpiredEdges, ExpiryCrash, ExpiredEdges, IInv, SafeEdges
<1>2. ASSUME NEW g \in Groups, NEW m \in Members, ExpireEdge(g, m)
      PROVE  IInv'
  <2> DEFINE e == edges[g][m]
             expired == [e EXCEPT !.active = FALSE]
  <2>0. e \in Edge /\ (m \in Groups => e.role = "member")
    BY DEF IInv, SafeEdges
  <2>1. expired \in Edge /\ (m \in Groups => expired.role = "member")
    <3> HIDE DEF e
    <3> QED BY <2>0 DEF Edge
  <2>2. edges' = [edges EXCEPT ![g][m] = expired]
    BY <1>2 DEF ExpireEdge, IInv, SafeEdges
  <2> HIDE DEF expired
  <2>3. SafeEdges'
    BY <2>1, <2>2 DEF IInv, SafeEdges
  <2> QED
    BY <1>2, <2>3 DEF ExpireEdge, IInv
<1> QED
  BY <1>1, <1>2 DEF Background

-----------------------------------------------------------------------------
(* The theorems.                                                           *)

LEMMA IInvInit == Init => IInv
<1> SUFFICES ASSUME Init PROVE IInv
  OBVIOUS
<1>1. NoEdge \in Edge /\ NoEdge.role = "member"
  BY DEF NoEdge, Edge, Roles, Forever
<1>2. SafeEdges
  BY <1>1, Memberships DEF Init, SafeEdges
<1>3. << >> \in Seq(SafeRequest) /\ << >> \in Seq(SafeWrite)
  BY EmptySeq
<1> QED
  BY <1>2, <1>3 DEF Init, IInv

LEMMA IInvNext == IInv /\ [Next]_vars => IInv'
<1> SUFFICES ASSUME IInv, [Next]_vars PROVE IInv'
  OBVIOUS
<1>1. ASSUME NEW p \in Procs, Handler(p)
      PROVE  IInv'
  BY <1>1, HandlerPrepares, BeginKeeps
<1>2. ASSUME NEW p \in Procs, NEW u \in Users, UserDisable(p, u) \/ UserEnable(p, u)
      PROVE  IInv'
  BY <1>2, UserHandlersPrepare, BeginKeeps
<1>3. ASSUME NEW p \in Procs, Commit(p)
      PROVE  IInv'
  BY <1>3, CommitEdgeKeeps, CommitFiledRequestKeeps, CommitCreateKeeps,
     CommitFlagsKeep DEF Commit
<1>4. ASSUME NEW p \in Procs, Abort(p)
      PROVE  IInv'
  BY <1>4, EmptySeq DEF Abort, IInv, SafeEdges
<1>5. CASE Background
  BY <1>5, BackgroundKeeps
<1>6. CASE Tick
  BY <1>6 DEF Tick, IInv, SafeEdges
<1>7. CASE UNCHANGED vars
  BY <1>7 DEF vars, IInv, SafeEdges
<1> QED
  BY <1>1, <1>2, <1>3, <1>4, <1>5, <1>6, <1>7 DEF Next

THEOREM Invariance == Spec => []IInv
BY IInvInit, IInvNext, PTL DEF Spec

\* Every table and every pending commit keeps its type: no handler leaves a
\* commit that the tables cannot hold, among them the "<integrityerror>" status
\* of GROUP_JOIN_CHOICES.
THEOREM TypeCorrect == Spec => []TypeOK
BY Invariance, IInvImplies, PTL

\* A group is only ever a plain member of another one, whichever handler, and
\* however many processes, filed, approved, edited or aborted the changes.
THEOREM GroupsStayMembers == Spec => []GroupsAreOnlyMembers
BY Invariance, IInvImplies, PTL

-----------------------------------------------------------------------------
(* The rows, however many processes work.                                  *)

\* The commit at the head and the ones after it.
LEMMA CommitOrder ==
    ASSUME IInv, NEW p \in Procs, txn[p] # << >>
    PROVE  /\ Head(txn[p]) = txn[p][1] /\ 1 \in 1..Len(txn[p])
           /\ Tail(txn[p]) \in Seq(SafeWrite)
           /\ Len(Tail(txn[p])) = Len(txn[p]) - 1
           /\ \A n \in 1..Len(Tail(txn[p])) :
                 n + 1 \in 2..Len(txn[p]) /\ Tail(txn[p])[n] = txn[p][n + 1]
<1>1. txn[p] \in Seq(SafeWrite)
  BY DEF IInv
<1> QED
  BY <1>1

\* No row goes, no group goes absent, and requests keep their subject.
RowsStay ==
    /\ \A g \in Groups, m \in Members : edges[g][m].row => edges'[g][m].row
    /\ \A g \in Groups : groupStatus[g] # "absent" => groupStatus'[g] # "absent"

LEMMA WriteSubject ==
    ASSUME NEW w \in SafeWrite, w.op \in {"edge", "file"}
    PROVE  w.group \in Groups /\ w.member \in Members
BY DEF SafeWrite, Write, EdgeWrite, FileWrite, CreateWrite, GroupWrite, UserWrite

LEMMA StillFinds ==
    ASSUME RowsStay, NEW commits \in Seq(SafeWrite), FindsRow(commits)
    PROVE  FindsRow(commits)'
<1>1. ASSUME NEW n \in 1..Len(commits), commits[n].op \in {"edge", "file"}
      PROVE  commits[n].group \in Groups /\ commits[n].member \in Members
  <2>1. commits[n] \in SafeWrite
    BY ElementOfSeq
  <2> QED
    BY <1>1, <2>1, WriteSubject
<1> QED
  BY <1>1 DEF FindsRow, RowsStay

\* After a commit, the rest of its list finds the row it left.
LEMMA RestFinds ==
    ASSUME IInv, RowsStay, NEW p \in Procs, txn[p] # << >>, FindsRow(txn[p]),
           LET w == Head(txn[p])
           IN  w.op \in {"edge", "file"} => edges'[w.group][w.member].row,
           NEW rest, rest = Tail(txn[p])
    PROVE  FindsRow(rest)'
<1> DEFINE s == txn[p]
<1>1. /\ Head(s) = s[1] /\ rest \in Seq(SafeWrite) /\ Len(rest) = Len(s) - 1
      /\ s \in Seq(SafeWrite)
      /\ \A n \in 1..Len(rest) : n + 1 \in 1..Len(s) /\ rest[n] = s[n + 1]
  BY CommitOrder DEF IInv
<1> HIDE DEF s
<1>2. ASSUME NEW n \in 1..Len(rest), rest[n].op \in {"edge", "file"}
      PROVE  groupStatus'[rest[n].group] # "absent"
             /\ edges'[rest[n].group][rest[n].member].row
  <2>1. rest[n] \in SafeWrite
    BY <1>1, ElementOfSeq
  <2>2. rest[n].group \in Groups /\ rest[n].member \in Members
    BY <1>2, <2>1, WriteSubject
  <2>3. /\ groupStatus[rest[n].group] # "absent"
        /\ \/ edges[rest[n].group][rest[n].member].row
           \/ /\ s[1].insert /\ s[1].op \in {"edge", "file"}
              /\ s[1].group = rest[n].group /\ s[1].member = rest[n].member
    BY <1>1, <1>2 DEF FindsRow, s
  <2>4. s[1].op \in {"edge", "file"} => edges'[s[1].group][s[1].member].row
    BY <1>1 DEF s
  <2> QED
    BY <2>2, <2>3, <2>4 DEF RowsStay
<1> QED
  BY <1>2 DEF FindsRow

\* What a step must do to keep RowInv.
LEMMA RowsKeep ==
    ASSUME IInv, RowInv, RowsStay,
           \A g \in Groups, m \in Members :
              IF edges'[g][m].row THEN groupStatus'[g] # "absent"
              ELSE edges'[g][m].expiration = Forever /\ edges'[g][m].role = "member",
           \A i \in 1..Len(requests') :
              edges'[requests'[i].group][requests'[i].member].row,
           \A q \in Procs : \E c : c = txn'[q] /\ (c = txn[q] \/ FindsRow(c)')
    PROVE  RowInv'
<1>1. ASSUME NEW q \in Procs
      PROVE  FindsRow(txn[q])'
  <2>1. PICK c : c = txn'[q] /\ (c = txn[q] \/ FindsRow(c)')
    OBVIOUS
  <2>2. CASE FindsRow(c)'
    BY <2>1, <2>2
  <2>3. CASE c = txn[q]
    <3>1. \A k \in Seq(SafeWrite) : FindsRow(k) => FindsRow(k)'
      BY StillFinds
    <3>2. c \in Seq(SafeWrite) /\ FindsRow(c)
      BY <2>3 DEF IInv, RowInv
    <3> QED
      BY <2>1, <3>1, <3>2
  <2> QED
    BY <2>1, <2>2, <2>3
<1> QED
  BY <1>1 DEF RowInv

\* A step that changes no rows, requests or groups.
LEMMA NoRowsKeep ==
    ASSUME IInv, RowInv, UNCHANGED <<groupStatus, edges, requests>>,
           \A q \in Procs : \E c : c = txn'[q] /\ (c = txn[q] \/ FindsRow(c))
    PROVE  RowInv'
<1>1. RowsStay
  BY DEF RowsStay
<1>2. \A c : FindsRow(c) => FindsRow(c)'
  BY DEF FindsRow
<1>3. \A q \in Procs : \E c : c = txn'[q] /\ (c = txn[q] \/ FindsRow(c)')
  BY <1>2
<1> QED
  BY <1>1, <1>3, RowsKeep DEF RowInv

LEMMA PreparesFinds ==
    ASSUME IInv, RowInv, NEW p \in Procs, Prepares(p) \/ Abort(p)
    PROVE  RowInv'
<1>1. PICK commits : FindsRow(commits) /\ txn' = [txn EXCEPT ![p] = commits]
                     /\ UNCHANGED <<groupStatus, edges, requests>>
  <2>1. FindsRow(<< >>)
    BY DEF FindsRow
  <2> QED
    BY <2>1 DEF Prepares, Handed, Begin, Abort
<1>2. \A q \in Procs : \E c : c = txn'[q] /\ (c = txn[q] \/ FindsRow(c))
  <2>1. \A q \in Procs : txn'[q] = txn[q] \/ txn'[q] = commits
    BY <1>1 DEF IInv
  <2> QED
    BY <1>1, <2>1
<1> QED
  BY <1>1, <1>2, NoRowsKeep

\* A commit that has left a row for the rest of its list.
LEMMA CommitFinds ==
    ASSUME IInv, RowInv, RowsStay, NEW p \in Procs, txn[p] # << >>,
           txn' = [txn EXCEPT ![p] = Tail(txn[p])],
           LET w == Head(txn[p])
           IN  w.op \in {"edge", "file"} => edges'[w.group][w.member].row
    PROVE  \A q \in Procs : \E c : c = txn'[q] /\ (c = txn[q] \/ FindsRow(c)')
<1>1. \A c : c = Tail(txn[p]) => FindsRow(c)'
  BY RestFinds DEF RowInv
<1>2. \A q \in Procs : txn'[q] = txn[q] \/ txn'[q] = Tail(txn[p])
  BY DEF IInv
<1> QED
  BY <1>1, <1>2

\* What a commit about a membership finds: the row, or none and no date.
LEMMA HeadFinds ==
    ASSUME IInv, RowInv, NEW p \in Procs, txn[p] # << >>,
           NEW w, w = Head(txn[p]), w.op \in {"edge", "file"}
    PROVE  /\ w.group \in Groups /\ w.member \in Members
           /\ w.insert \/ edges[w.group][w.member].row
           /\ groupStatus[w.group] # "absent"
<1>1. w \in SafeWrite /\ w = txn[p][1] /\ 1 \in 1..Len(txn[p])
  BY CurrentWrite, CommitOrder
<1>2. FindsRow(txn[p])
  BY DEF RowInv
<1> QED
  BY <1>1, <1>2, WriteSubject DEF FindsRow

\* A commit changes at most the status of a request.
LEMMA StatusOnly ==
    ASSUME IInv, NEW i, NEW to,
           requests' = requests \/ requests' = [requests EXCEPT ![i].status = to]
    PROVE  /\ Len(requests') = Len(requests)
           /\ \A k \in 1..Len(requests) : /\ requests'[k].group = requests[k].group
                                          /\ requests'[k].member = requests[k].member
<1>1. requests \in [1..Len(requests) -> SafeRequest] /\ Len(requests) \in Nat
  BY LenProperties DEF IInv
<1>2. CASE requests' = requests
  BY <1>2
<1>3. CASE requests' = [requests EXCEPT ![i].status = to]
  <2>1. DOMAIN requests' = 1..Len(requests)
    BY <1>1, <1>3
  <2>2. Len(requests') = Len(requests)
    <3>1. requests' \in [1..Len(requests) -> {requests'[k] : k \in 1..Len(requests)}]
      BY <1>1, <1>3
    <3>2. requests' \in Seq({requests'[k] : k \in 1..Len(requests)})
      BY <1>1, <3>1, SeqDef
    <3> QED
      BY <1>1, <2>1, <3>2, LenProperties
  <2>3. ASSUME NEW k \in 1..Len(requests)
        PROVE  /\ requests'[k].group = requests[k].group
               /\ requests'[k].member = requests[k].member
    <3>1. requests[k] \in SafeRequest
          /\ requests'[k] = IF k = i THEN [requests[k] EXCEPT !.status = to]
                            ELSE requests[k]
      BY <1>1, <1>3
    <3>2. \A r \in SafeRequest : LET x == [r EXCEPT !.status = to]
                                 IN  x.group = r.group /\ x.member = r.member
      BY DEF SafeRequest, Request
    <3> QED
      BY <3>1, <3>2
  <2> QED
    BY <2>2, <2>3
<1> QED
  BY <1>2, <1>3

LEMMA CommitEdgeFinds ==
    ASSUME IInv, RowInv, NEW p \in Procs, CommitEdge(p)
    PROVE  RowInv'
<1>0. PICK w : w = Head(txn[p])
  OBVIOUS
<1> DEFINE e == IF w.insert THEN NewEdge(w.role) ELSE edges[w.group][w.member]
<1>1. /\ txn[p] # << >> /\ w.op = "edge"
      /\ edges' = [edges EXCEPT ![w.group][w.member] = ApplyChanges(e, w.changes)]
      /\ requests' = IF w.status = "none" THEN requests
                     ELSE [requests EXCEPT ![w.request].status = w.status]
      /\ txn' = [txn EXCEPT ![p] = Tail(txn[p])]
      /\ groupStatus' = groupStatus
  BY <1>0 DEF CommitEdge, Current, Done
<1>2. /\ w.group \in Groups /\ w.member \in Members
      /\ w.insert \/ edges[w.group][w.member].row
      /\ groupStatus[w.group] # "absent"
  BY <1>0, <1>1, HeadFinds
<1>3. edges \in [Groups -> [Members -> Edge]] /\ e.row /\ e \in Edge
  <2>1. w.role \in Roles
    BY <1>0, <1>1, CurrentWrite
    DEF SafeWrite, Write, EdgeWrite, FileWrite, CreateWrite, GroupWrite, UserWrite
  <2>2. NewEdge(w.role).row /\ NewEdge(w.role) \in Edge
    BY <2>1, NewEdgeType DEF NewEdge
  <2> QED
    BY <1>2, <2>2 DEF IInv, SafeEdges
<1> HIDE DEF e
<1>4. ApplyChanges(e, w.changes).row
  BY <1>3 DEF ApplyChanges, Edge
<1>5. \A g \in Groups, m \in Members :
         edges'[g][m] = IF g = w.group /\ m = w.member THEN ApplyChanges(e, w.changes)
                        ELSE edges[g][m]
  BY <1>1, <1>2, <1>3
<1>6. RowsStay /\ edges'[w.group][w.member].row
  BY <1>1, <1>2, <1>4, <1>5 DEF RowsStay
<1>7. \A g \in Groups, m \in Members :
         IF edges'[g][m].row THEN groupStatus'[g] # "absent"
         ELSE edges'[g][m].expiration = Forever /\ edges'[g][m].role = "member"
  BY <1>1, <1>2, <1>4, <1>5 DEF RowInv
<1>8. /\ Len(requests') = Len(requests)
      /\ \A i \in 1..Len(requests) : /\ requests'[i].group = requests[i].group
                                     /\ requests'[i].member = requests[i].member
  BY <1>0, <1>1, StatusOnly
<1>9. \A i \in 1..Len(requests') :
         edges'[requests'[i].group][requests'[i].member].row
  <2>1. ASSUME NEW i \in 1..Len(requests)
        PROVE  requests[i].group \in Groups /\ requests[i].member \in Members
    <3>1. requests[i] \in SafeRequest
      BY ElementOfSeq DEF IInv
    <3> QED
      BY <3>1 DEF SafeRequest, Request
  <2> QED
    BY <1>6, <1>8, <2>1 DEF RowInv, RowsStay
<1>10. \A q \in Procs : \E c : c = txn'[q] /\ (c = txn[q] \/ FindsRow(c)')
  BY <1>0, <1>1, <1>6, CommitFinds
<1> QED
  BY <1>6, <1>7, <1>9, <1>10, RowsKeep

LEMMA CommitFiledRequestFinds ==
    ASSUME IInv, RowInv, NEW p \in Procs, CommitFiledRequest(p)
    PROVE  RowInv'
<1>0. PICK w : w = Head(txn[p])
  OBVIOUS
<1>1. /\ txn[p] # << >> /\ w.op = "file"
      /\ edges' = IF w.insert
                  THEN [edges EXCEPT ![w.group][w.member] = NewEdge(w.role)]
                  ELSE edges
      /\ requests' = Append(requests, [group |-> w.group, member |-> w.member,
                                       status |-> w.status, changes |-> w.changes])
      /\ txn' = [txn EXCEPT ![p] = Tail(txn[p])]
      /\ groupStatus' = groupStatus
  BY <1>0 DEF CommitFiledRequest, Current, Done
<1>2. /\ w.group \in Groups /\ w.member \in Members
      /\ w.insert \/ edges[w.group][w.member].row
      /\ groupStatus[w.group] # "absent"
  BY <1>0, <1>1, HeadFinds
<1>3. edges \in [Groups -> [Members -> Edge]] /\ requests \in Seq(SafeRequest)
  BY DEF IInv, SafeEdges
<1>4. NewEdge(w.role).row
  BY DEF NewEdge
<1>5. \A g \in Groups, m \in Members :
         edges'[g][m] = IF w.insert /\ g = w.group /\ m = w.member THEN NewEdge(w.role)
                        ELSE edges[g][m]
  BY <1>1, <1>2, <1>3
<1>6. RowsStay /\ edges'[w.group][w.member].row
  BY <1>1, <1>2, <1>4, <1>5 DEF RowsStay
<1>7. \A g \in Groups, m \in Members :
         IF edges'[g][m].row THEN groupStatus'[g] # "absent"
         ELSE edges'[g][m].expiration = Forever /\ edges'[g][m].role = "member"
  BY <1>1, <1>2, <1>4, <1>5 DEF RowInv
<1>8. PICK r : /\ requests' = Append(requests, r)
               /\ r.group = w.group /\ r.member = w.member
  BY <1>1
<1>9. \A i \in 1..Len(requests') :
         edges'[requests'[i].group][requests'[i].member].row
  <2>1. /\ Len(requests') = Len(requests) + 1 /\ Len(requests) \in Nat
        /\ requests'[Len(requests) + 1] = r
        /\ \A k \in 1..Len(requests) : requests'[k] = requests[k]
    BY <1>3, <1>8
  <2>2. ASSUME NEW i \in 1..Len(requests)
        PROVE  edges'[requests[i].group][requests[i].member].row
    <3>1. requests[i] \in SafeRequest
      BY <1>3, ElementOfSeq
    <3> QED
      BY <1>6, <3>1 DEF SafeRequest, Request, RowsStay, RowInv
  <2> QED
    BY <1>6, <1>8, <2>1, <2>2
<1>10. \A q \in Procs : \E c : c = txn'[q] /\ (c = txn[q] \/ FindsRow(c)')
  BY <1>0, <1>1, <1>6, CommitFinds
<1> QED
  BY <1>6, <1>7, <1>9, <1>10, RowsKeep

LEMMA CommitCreateFinds ==
    ASSUME IInv, RowInv, NEW p \in Procs, CommitCreate(p)
    PROVE  RowInv'
<1>0. PICK w : w = Head(txn[p])
  OBVIOUS
<1> DEFINE owner == [NewEdge(w.role) EXCEPT !.active = TRUE]
<1>1. /\ txn[p] # << >> /\ w.op = "create"
      /\ groupStatus' = [groupStatus EXCEPT ![w.group] = "enabled"]
      /\ edges' = [edges EXCEPT ![w.group][w.member] = owner]
      /\ txn' = [txn EXCEPT ![p] = Tail(txn[p])]
      /\ requests' = requests
  BY <1>0 DEF CommitCreate, Current, Done
<1>2. w.group \in Groups /\ w.member \in Members
  BY <1>0, <1>1, CurrentWrite, Memberships
  DEF SafeWrite, Write, EdgeWrite, FileWrite, CreateWrite, GroupWrite, UserWrite
<1>3. owner.row
  BY DEF NewEdge
<1> HIDE DEF owner
<1>4. \A g \in Groups, m \in Members :
         edges'[g][m] = IF g = w.group /\ m = w.member THEN owner ELSE edges[g][m]
  BY <1>1, <1>2 DEF IInv, SafeEdges
<1>5. \A g \in Groups :
         groupStatus'[g] = IF g = w.group THEN "enabled" ELSE groupStatus[g]
  BY <1>1, <1>2 DEF IInv
<1>6. RowsStay
  BY <1>3, <1>4, <1>5 DEF RowsStay
<1>7. \A g \in Groups, m \in Members :
         IF edges'[g][m].row THEN groupStatus'[g] # "absent"
         ELSE edges'[g][m].expiration = Forever /\ edges'[g][m].role = "member"
  BY <1>3, <1>4, <1>5 DEF RowInv
<1>8. ASSUME NEW i \in 1..Len(requests)
      PROVE  edges'[requests[i].group][requests[i].member].row
  <2>1. requests[i] \in SafeRequest
    BY ElementOfSeq DEF IInv
  <2> QED
    BY <1>6, <2>1 DEF SafeRequest, Request, RowsStay, RowInv
<1>9. \A q \in Procs : \E c : c = txn'[q] /\ (c = txn[q] \/ FindsRow(c)')
  BY <1>0, <1>1, <1>6, CommitFinds
<1> QED
  BY <1>1, <1>6, <1>7, <1>8, <1>9, RowsKeep

LEMMA CommitFlagsFind ==
    ASSUME IInv, RowInv, NEW p \in Procs, CommitGroup(p) \/ CommitUser(p)
    PROVE  RowInv'
<1>0. PICK w : w = Head(txn[p])
  OBVIOUS
<1>1. /\ txn[p] # << >> /\ w.op \in {"group", "user"}
      /\ txn' = [txn EXCEPT ![p] = Tail(txn[p])]
      /\ edges' = edges /\ requests' = requests
      /\ \/ groupStatus' = groupStatus
         \/ /\ w.op = "group"
            /\ groupStatus' = [groupStatus EXCEPT ![w.group] = w.to]
  BY <1>0 DEF CommitGroup, CommitUser, Current, Done
<1>2. w.op = "group" => w.to # "absent"
  BY <1>0, <1>1, CurrentWrite
  DEF SafeWrite, Write, EdgeWrite, FileWrite, CreateWrite, GroupWrite, UserWrite
<1>3. \A g \in Groups : groupStatus[g] # "absent" => groupStatus'[g] # "absent"
  BY <1>1, <1>2 DEF IInv
<1>4. RowsStay
  BY <1>1, <1>3 DEF RowsStay
<1>5. \A q \in Procs : \E c : c = txn'[q] /\ (c = txn[q] \/ FindsRow(c)')
  BY <1>0, <1>1, <1>4, CommitFinds
<1>6. \A g \in Groups, m \in Members :
         IF edges'[g][m].row THEN groupStatus'[g] # "absent"
         ELSE edges'[g][m].expiration = Forever /\ edges'[g][m].role = "member"
  BY <1>1, <1>3 DEF RowInv
<1>7. \A i \in 1..Len(requests') :
         edges'[requests'[i].group][requests'[i].member].row
  BY <1>1 DEF RowInv
<1> QED
  BY <1>4, <1>5, <1>6, <1>7, RowsKeep

LEMMA BackgroundFinds ==
    ASSUME IInv, RowInv, Background
    PROVE  RowInv'
<1>1. CASE LoadExpiredEdges \/ ExpiryCrash
  <2>1. UNCHANGED <<groupStatus, edges, requests, txn>>
    BY <1>1 DEF LoadExpiredEdges, ExpiryCrash
  <2> QED
    BY <2>1, NoRowsKeep
<1>2. ASSUME NEW g \in Groups, NEW m \in Members, ExpireEdge(g, m)
      PROVE  RowInv'
  <2>1. /\ edges' = [edges EXCEPT ![g][m].active = FALSE]
        /\ UNCHANGED <<groupStatus, requests, txn>>
    BY <1>2 DEF ExpireEdge
  <2>2. edges \in [Groups -> [Members -> Edge]]
    BY DEF IInv, SafeEdges
  <2>3. ASSUME NEW h \in Groups, NEW k \in Members
        PROVE  /\ edges'[h][k].row = edges[h][k].row
               /\ edges'[h][k].expiration = edges[h][k].expiration
               /\ edges'[h][k].role = edges[h][k].role
    <3>1. edges[h][k] \in Edge
      BY <2>2
    <3>2. edges'[h][k] = IF h = g /\ k = m
                         THEN [edges[h][k] EXCEPT !.active = FALSE]
                         ELSE edges[h][k]
      BY <2>1, <2>2
    <3>3. \A e \in Edge : LET x == [e EXCEPT !.active = FALSE]
                           IN  /\ x.row = e.row /\ x.expiration = e.expiration
                               /\ x.role = e.role
      BY DEF Edge
    <3> QED
      BY <3>1, <3>2, <3>3
  <2>4. RowsStay
    BY <2>1, <2>3 DEF RowsStay
  <2>5. ASSUME NEW i \in 1..Len(requests)
        PROVE  edges'[requests[i].group][requests[i].member].row
    <3>1. requests[i] \in SafeRequest
      BY ElementOfSeq DEF IInv
    <3> QED
      BY <2>4, <3>1 DEF SafeRequest, Request, RowsStay, RowInv
  <2>6. \A h \in Groups, k \in Members :
           IF edges'[h][k].row THEN groupStatus'[h] # "absent"
           ELSE edges'[h][k].expiration = Forever /\ edges'[h][k].role = "member"
    BY <2>1, <2>3 DEF RowInv
  <2> QED
    BY <2>1, <2>4, <2>5, <2>6, RowsKeep
<1> QED
  BY <1>1, <1>2 DEF Background

LEMMA RowInvInit == Init => RowInv
BY Memberships DEF Init, RowInv, FindsRow, NoEdge, Forever

LEMMA RowInvNext == IInv /\ RowInv /\ [Next]_vars => RowInv'
<1> SUFFICES ASSUME IInv, RowInv, [Next]_vars PROVE RowInv'
  OBVIOUS
<1>1. ASSUME NEW p \in Procs, Handler(p)
      PROVE  RowInv'
  BY <1>1, HandlerPrepares, PreparesFinds
<1>2. ASSUME NEW p \in Procs, NEW u \in Users, UserDisable(p, u) \/ UserEnable(p, u)
      PROVE  RowInv'
  BY <1>2, UserHandlersPrepare, PreparesFinds
<1>3. ASSUME NEW p \in Procs, Commit(p)
      PROVE  RowInv'
  BY <1>3, CommitEdgeFinds, CommitFiledRequestFinds, CommitCreateFinds,
     CommitFlagsFind DEF Commit
<1>4. ASSUME NEW p \in Procs, Abort(p)
      PROVE  RowInv'
  BY <1>4, PreparesFinds
<1>5. CASE Background
  BY <1>5, BackgroundFinds
<1>6. CASE Tick \/ UNCHANGED vars
  <2>1. UNCHANGED <<groupStatus, edges, requests, txn>>
    BY <1>6 DEF Tick, vars
  <2> QED
    BY <2>1, NoRowsKeep
<1> QED
  BY <1>1, <1>2, <1>3, <1>4, <1>5, <1>6 DEF Next

-----------------------------------------------------------------------------
(* Where no two processes work on the same membership.                     *)

LEMMA NothingPrepared == Prepared(<< >>)
BY DEF Prepared

\* What is prepared stays so as long as the requests and the expirations stay
\* and no membership is made active.
LEMMA StillPrepared ==
    ASSUME UNCHANGED requests,
           \A g \in Groups, m \in Members :
              /\ edges'[g][m].expiration = edges[g][m].expiration
              /\ edges'[g][m].active => edges[g][m].active,
           NEW commits, Prepared(commits)
    PROVE  Prepared(commits)'
<1>1. commits \in Seq(SafeWrite)
  BY DEF Prepared
<1>2. ASSUME NEW n \in 1..Len(commits), commits[n].op = "edge"
      PROVE  commits[n].group \in Groups /\ commits[n].member \in Members
  <2>1. commits[n] \in SafeWrite
    BY <1>1, ElementOfSeq
  <2> QED
    BY <1>2, <2>1
    DEF SafeWrite, Write, EdgeWrite, FileWrite, CreateWrite, GroupWrite, UserWrite
<1>3. ASSUME NEW n \in 1..Len(commits), commits[n].op = "edge"
      PROVE  ReadyToDecide(commits, n)' /\ EndsWithDate(commits[n])'
  <2>1. ReadyToDecide(commits, n) /\ EndsWithDate(commits[n])
    BY <1>3 DEF Prepared
  <2>2. DatedFirst(commits, n) => DatedFirst(commits, n)'
    BY <1>2, <1>3 DEF DatedFirst
  <2>3. ReadyToDecide(commits, n)'
    BY <2>1, <2>2 DEF ReadyToDecide
  <2>4. EndsWithDate(commits[n])'
    BY <1>2, <1>3, <2>1 DEF EndsWithDate
  <2> QED
    BY <2>3, <2>4
<1>4. ASSUME NEW n \in 1..Len(commits), commits[n].op = "file"
      PROVE  ReadyToFile(commits[n])'
  BY <1>4 DEF Prepared, ReadyToFile, PendingFor
<1> QED
  BY <1>3, <1>4 DEF Prepared, SameChange

\* What an edge commit does to the row and to the requests.
LEMMA EdgeCommitted ==
    ASSUME IInv, NEW p \in Procs, CommitEdge(p), Prepared(txn[p]),
           NEW w, w = Head(txn[p])
    PROVE  /\ w.op = "edge" /\ w.group \in Groups /\ w.member \in Members
           /\ ReadyToDecide(txn[p], 1) /\ EndsWithDate(w) /\ w = txn[p][1]
           /\ w.insert => ~edges[w.group][w.member].row
           /\ edges'[w.group][w.member].expiration =
                 IF "expiration" \in w.changes.keys THEN w.changes.expiration
                 ELSE IF w.insert THEN Forever
                 ELSE edges[w.group][w.member].expiration
           /\ edges'[w.group][w.member].active =
                 IF "active" \in w.changes.keys THEN w.changes.active
                 ELSE IF w.insert THEN FALSE
                 ELSE edges[w.group][w.member].active
           /\ requests' = IF w.status = "none" THEN requests
                          ELSE [requests EXCEPT ![w.request].status = w.status]
           /\ w.status \in {"none", "actioned", "cancelled"}
           /\ txn' = [txn EXCEPT ![p] = Tail(txn[p])]
<1> DEFINE e == IF w.insert THEN NewEdge(w.role) ELSE edges[w.group][w.member]
           new == ApplyChanges(e, w.changes)
<1>1. /\ txn[p] # << >> /\ w.op = "edge" /\ ~Conflicts(w)
      /\ edges' = [edges EXCEPT ![w.group][w.member] = new]
      /\ requests' = IF w.status = "none" THEN requests
                     ELSE [requests EXCEPT ![w.request].status = w.status]
      /\ txn' = [txn EXCEPT ![p] = Tail(txn[p])]
  BY DEF CommitEdge, Current, Done
<1>2. w \in SafeWrite
  BY <1>1, CurrentWrite
<1>3. /\ w.group \in Groups /\ w.member \in Members /\ w.changes \in Changes
      /\ w.role \in Roles /\ w.status \in {"none", "actioned", "cancelled"}
  BY <1>1, <1>2
  DEF SafeWrite, Write, EdgeWrite, FileWrite, CreateWrite, GroupWrite, UserWrite
<1>4. ReadyToDecide(txn[p], 1) /\ EndsWithDate(w) /\ w = txn[p][1]
  BY <1>1, CommitOrder DEF Prepared
<1>5. edges[w.group][w.member] \in Edge /\ edges \in [Groups -> [Members -> Edge]]
  BY <1>3 DEF IInv, SafeEdges
<1>6. e \in Edge
  BY <1>3, <1>5, NewEdgeType
<1>7. /\ e.expiration = IF w.insert THEN Forever
                        ELSE edges[w.group][w.member].expiration
      /\ e.active = IF w.insert THEN FALSE ELSE edges[w.group][w.member].active
  BY DEF NewEdge
<1> HIDE DEF e
<1>8. /\ new.expiration = IF "expiration" \in w.changes.keys
                          THEN w.changes.expiration ELSE e.expiration
      /\ new.active = IF "active" \in w.changes.keys THEN w.changes.active ELSE e.active
  BY <1>6 DEF ApplyChanges, Edge
<1> HIDE DEF new
<1>9. edges'[w.group][w.member] = new
  BY <1>1, <1>3, <1>5
<1>10. w.insert => ~edges[w.group][w.member].row
  BY <1>1 DEF Conflicts
<1> QED
  BY <1>1, <1>3, <1>4, <1>7, <1>8, <1>9, <1>10

\* An edge commit changes no other row.
LEMMA OtherEdgesStay ==
    ASSUME IInv, NEW p \in Procs, CommitEdge(p), NEW g \in Groups, NEW m \in Members,
           edges'[g][m] # edges[g][m]
    PROVE  g = Head(txn[p]).group /\ m = Head(txn[p]).member
<1>1. PICK new : edges' = [edges EXCEPT ![Head(txn[p]).group][Head(txn[p]).member] = new]
  BY DEF CommitEdge
<1>2. edges \in [Groups -> [Members -> Edge]]
  BY DEF IInv, SafeEdges
<1> QED
  BY <1>1, <1>2

\* What an edge commit does to a request: it decides one that is pending.
LEMMA RequestCommitted ==
    ASSUME IInv, NEW p \in Procs, CommitEdge(p), Prepared(txn[p])
    PROVE  /\ Len(requests') = Len(requests)
           /\ \A i \in 1..Len(requests) :
                 /\ requests'[i].group = requests[i].group
                 /\ requests'[i].member = requests[i].member
                 /\ requests'[i].changes = requests[i].changes
                 /\ requests'[i].status = requests[i].status
                    \/ /\ requests[i].status = "pending"
                       /\ requests'[i].status # "pending"
<1> DEFINE w == Head(txn[p])
<1>1. /\ requests' = IF w.status = "none" THEN requests
                     ELSE [requests EXCEPT ![w.request].status = w.status]
      /\ w.status \in {"none", "actioned", "cancelled"}
      /\ ReadyToDecide(txn[p], 1) /\ w = txn[p][1]
  BY EdgeCommitted
<1> HIDE DEF w
<1>2. CASE w.status = "none"
  BY <1>1, <1>2
<1>3. CASE w.status # "none"
  <2>1. /\ requests' = [requests EXCEPT ![w.request].status = w.status]
        /\ w.request \in 1..Len(requests) /\ requests[w.request].status = "pending"
        /\ w.status # "pending" /\ requests \in Seq(SafeRequest)
    BY <1>1, <1>3 DEF ReadyToDecide, IInv
  <2>2. Len(requests') = Len(requests)
    BY <2>1
  <2>3. ASSUME NEW i \in 1..Len(requests)
        PROVE  requests[i] \in Request
               /\ requests'[i] = IF i = w.request
                                 THEN [requests[i] EXCEPT !.status = w.status]
                                 ELSE requests[i]
    BY <2>1, ElementOfSeq DEF SafeRequest
  <2>4. \A r \in Request : LET d == [r EXCEPT !.status = w.status]
                           IN  /\ d.group = r.group /\ d.member = r.member
                               /\ d.changes = r.changes /\ d.status = w.status
    BY DEF Request
  <2> QED
    BY <2>1, <2>2, <2>3, <2>4
<1> QED
  BY <1>2, <1>3

\* After a commit of a change, the commits left of it are still prepared.
LEMMA RestPrepared ==
    ASSUME IInv, NEW p \in Procs, CommitEdge(p), Prepared(txn[p]),
           NEW rest, rest = Tail(txn[p])
    PROVE  Prepared(rest)'
<1> DEFINE s == txn[p]
           w == Head(s)
<1>1. txn[p] # << >>
  BY DEF CommitEdge, Current
<1>2. /\ w = s[1] /\ 1 \in 1..Len(s) /\ rest \in Seq(SafeWrite)
      /\ Len(rest) = Len(s) - 1
      /\ \A n \in 1..Len(rest) : n + 1 \in 2..Len(s) /\ rest[n] = s[n + 1]
  BY <1>1, CommitOrder
<1>3. Len(s) \in Nat /\ Len(rest) \in Nat
  BY <1>2, LenProperties DEF IInv
<1>4. /\ w.op = "edge" /\ w.group \in Groups /\ w.member \in Members
      /\ w.insert => ~edges[w.group][w.member].row
      /\ edges'[w.group][w.member].expiration =
            IF "expiration" \in w.changes.keys THEN w.changes.expiration
            ELSE IF w.insert THEN Forever
            ELSE edges[w.group][w.member].expiration
      /\ edges'[w.group][w.member].active =
            IF "active" \in w.changes.keys THEN w.changes.active
            ELSE IF w.insert THEN FALSE
            ELSE edges[w.group][w.member].active
  BY EdgeCommitted
<1>5. /\ Len(requests') = Len(requests)
      /\ \A i \in 1..Len(requests) :
            /\ requests'[i].changes = requests[i].changes
            /\ requests'[i].group = requests[i].group
            /\ requests'[i].member = requests[i].member
  BY RequestCommitted
<1>6. ASSUME NEW n \in 2..Len(s)
      PROVE  /\ s[n].op = "edge" /\ ReadyToDecide(s, n) /\ EndsWithDate(s[n])
             /\ SameChange(w, s[n])
             /\ \A k \in 1..Len(s) : SameChange(s[n], s[k])
  <2>1. n \in 1..Len(s)
    BY <1>3
  <2>2. SameChange(w, s[n])
    BY <1>2, <1>4, <2>1 DEF Prepared
  <2> QED
    BY <2>1, <2>2 DEF Prepared, SameChange
<1> HIDE DEF s, w
<1>7. ASSUME NEW n \in 1..Len(rest)
      PROVE  EndsWithDate(rest[n])'
  <2>1. EndsWithDate(s[n + 1]) /\ SameChange(w, s[n + 1]) /\ rest[n] = s[n + 1]
    BY <1>2, <1>6
  <2> QED
    BY <1>4, <2>1 DEF EndsWithDate, SameChange
<1>8. ASSUME NEW n \in 1..Len(rest), rest[n].request # 0,
             DatedFirst(s, n + 1), ReadyToDecide(s, 1), ReadyToDecide(s, n + 1)
      PROVE  DatedFirst(rest, n)'
  <2> DEFINE v == rest[n]
             asked == requests[v.request].changes
  <2>1. v = s[n + 1] /\ SameChange(w, v)
    BY <1>2, <1>6
  <2>2. ~w.insert /\ w.changes.expiration = asked.expiration
        /\ v.request \in 1..Len(requests)
    BY <1>2, <1>8, <2>1 DEF ReadyToDecide, SameChange
  <2>3. requests'[v.request].changes = asked
    BY <1>5, <2>2
  <2> SUFFICES ASSUME "active" \in v.changes.keys, "expiration" \in asked.keys
               PROVE  \/ edges'[v.group][v.member].expiration = asked.expiration
                      \/ \E k \in 1..n : "expiration" \in rest[k].changes.keys
    BY <2>3 DEF DatedFirst
  <2>4. CASE edges[v.group][v.member].expiration = asked.expiration
    BY <1>4, <2>1, <2>2, <2>4 DEF SameChange
  <2>5. ASSUME NEW k \in 1..(n + 1), "expiration" \in s[k].changes.keys
        PROVE  \/ edges'[v.group][v.member].expiration = asked.expiration
               \/ \E j \in 1..n : "expiration" \in rest[j].changes.keys
    <3>1. CASE k = 1
      BY <1>2, <1>4, <2>1, <2>2, <2>5, <3>1 DEF SameChange
    <3>2. CASE k # 1
      <4>1. k - 1 \in 1..n /\ k - 1 \in 1..Len(rest) /\ (k - 1) + 1 = k
        BY <1>3, <3>2
      <4>2. rest[k - 1] = s[k]
        BY <1>2, <4>1
      <4> QED
        BY <2>5, <4>1, <4>2
    <3> QED
      BY <3>1, <3>2
  <2>6. \/ edges[v.group][v.member].expiration = asked.expiration
        \/ \E k \in 1..(n + 1) : "expiration" \in s[k].changes.keys
    BY <1>8, <2>1 DEF DatedFirst
  <2> QED
    BY <2>4, <2>5, <2>6
<1>9. ASSUME NEW n \in 1..Len(rest)
      PROVE  ReadyToDecide(rest, n)'
  <2>1. rest[n] = s[n + 1] /\ ReadyToDecide(s, n + 1) /\ n + 1 # 1
    BY <1>2, <1>3, <1>6
  <2>2. ReadyToDecide(s, 1)
    BY <1>2, <1>4 DEF Prepared, s, w
  <2>3. rest[n].status = "none"
    BY <2>1 DEF ReadyToDecide
  <2>4. rest[n].request # 0 => DatedFirst(s, n + 1)
    BY <2>1 DEF ReadyToDecide
  <2>5. rest[n].request # 0 => DatedFirst(rest, n)'
    BY <1>8, <2>1, <2>2, <2>4
  <2> QED
    BY <1>5, <2>1, <2>3, <2>5 DEF ReadyToDecide
<1>10. ASSUME NEW n \in 1..Len(rest), NEW k \in 1..Len(rest)
       PROVE  SameChange(rest[n], rest[k])
  <2>1. k + 1 \in 1..Len(s)
    BY <1>2, <1>3
  <2> QED
    BY <1>2, <1>6, <2>1
<1>11. \A n \in 1..Len(rest) : rest[n].op = "edge"
  BY <1>2, <1>6
<1> QED
  BY <1>2, <1>7, <1>9, <1>10, <1>11 DEF Prepared, SameChange

\* A commit of any other kind is the last one of its list.
LEMMA NothingLeft ==
    ASSUME IInv, NEW p \in Procs, Prepared(txn[p]), txn[p] # << >>,
           Head(txn[p]).op # "edge"
    PROVE  Tail(txn[p]) = << >>
<1>1. Len(txn[p]) = 1
  BY CommitOrder DEF Prepared
<1>2. Len(Tail(txn[p])) = 0 /\ Tail(txn[p]) \in Seq(SafeWrite)
  BY <1>1, CommitOrder
<1> QED
  BY <1>2, EmptySeq

\* What is prepared about other memberships stays so when the row of g and m,
\* and requests for it, change or are added.
LEMMA OthersPrepared ==
    ASSUME NEW g \in Groups, NEW m \in Members,
           \A h \in Groups, k \in Members :
              h # g \/ k # m => edges'[h][k] = edges[h][k],
           Len(requests) \in Nat, Len(requests') \in Nat, Len(requests) <= Len(requests'),
           \A i \in 1..Len(requests) :
              /\ requests'[i].group = requests[i].group
              /\ requests'[i].member = requests[i].member
              /\ requests'[i].changes = requests[i].changes
              /\ requests[i].group # g \/ requests[i].member # m =>
                    requests'[i].status = requests[i].status,
           \A i \in 1..Len(requests') : i \notin 1..Len(requests) =>
              requests'[i].group = g /\ requests'[i].member = m,
           NEW commits, Prepared(commits), ~About(commits, g, m)
    PROVE  Prepared(commits)'
<1>1. commits \in Seq(SafeWrite)
  BY DEF Prepared
<1>2. ASSUME NEW n \in 1..Len(commits), commits[n].op \in {"edge", "file"}
      PROVE  /\ commits[n].group \in Groups /\ commits[n].member \in Members
             /\ commits[n].group # g \/ commits[n].member # m
             /\ edges'[commits[n].group][commits[n].member]
                   = edges[commits[n].group][commits[n].member]
  <2>1. commits[n] \in SafeWrite
    BY <1>1, ElementOfSeq
  <2>2. commits[n].group \in Groups /\ commits[n].member \in Members
    BY <1>2, <2>1
    DEF SafeWrite, Write, EdgeWrite, FileWrite, CreateWrite, GroupWrite, UserWrite
  <2>3. commits[n].group # g \/ commits[n].member # m
    BY <1>2 DEF About
  <2> QED
    BY <2>2, <2>3
<1>3. ASSUME NEW n \in 1..Len(commits), commits[n].op = "edge"
      PROVE  ReadyToDecide(commits, n)' /\ EndsWithDate(commits[n])'
  <2>1. ReadyToDecide(commits, n) /\ EndsWithDate(commits[n])
    BY <1>3 DEF Prepared
  <2>2. EndsWithDate(commits[n])'
    BY <1>2, <1>3, <2>1 DEF EndsWithDate
  <2>3. ASSUME commits[n].request # 0
        PROVE  /\ commits[n].request \in 1..Len(requests)
               /\ commits[n].request \in 1..Len(requests')
               /\ requests'[commits[n].request].group = commits[n].group
               /\ requests'[commits[n].request].member = commits[n].member
               /\ requests'[commits[n].request].status
                     = requests[commits[n].request].status
               /\ requests'[commits[n].request].changes
                     = requests[commits[n].request].changes
    BY <1>2, <1>3, <2>1, <2>3 DEF ReadyToDecide
  <2>4. commits[n].request # 0 /\ DatedFirst(commits, n) => DatedFirst(commits, n)'
    BY <1>2, <1>3, <2>3 DEF DatedFirst
  <2> QED
    BY <2>1, <2>2, <2>3, <2>4 DEF ReadyToDecide
<1>4. ASSUME NEW n \in 1..Len(commits), commits[n].op = "file"
      PROVE  ReadyToFile(commits[n])'
  <2>1. ReadyToFile(commits[n])
    BY <1>4 DEF Prepared
  <2>2. PendingFor(commits[n].group, commits[n].member)'
           \subseteq PendingFor(commits[n].group, commits[n].member)
    BY <1>2, <1>4 DEF PendingFor
  <2> QED
    BY <2>1, <2>2 DEF ReadyToFile
<1> QED
  BY <1>3, <1>4 DEF Prepared, SameChange

\* Steps that commit nothing but statuses of accounts, or expire edges.
LEMMA QuietKeeps ==
    ASSUME IInv, WorkInv, UNCHANGED requests,
           \A g \in Groups, m \in Members :
              /\ edges'[g][m].expiration = edges[g][m].expiration
              /\ edges'[g][m].active => edges[g][m].active,
           \A q \in Procs : \E c : c = txn'[q] /\ Prepared(c)
    PROVE  WorkInv'
<1>1. \A c : Prepared(c) => Prepared(c)'
  BY StillPrepared
<1>2. ASSUME NEW q \in Procs
      PROVE  Prepared(txn[q])'
  <2>1. PICK c : c = txn'[q] /\ Prepared(c)
    OBVIOUS
  <2> QED
    BY <1>1, <2>1
<1>3. OnePendingRequest'
  BY DEF WorkInv, OnePendingRequest, PendingFor
<1> QED
  BY <1>2, <1>3 DEF WorkInv

\* The processes that do not commit are about other memberships.
LEMMA OthersApart ==
    ASSUME Apart, IInv, NEW p \in Procs, NEW q \in Procs, q # p, txn[p] # << >>,
           Head(txn[p]).op \in {"edge", "file", "create"}
    PROVE  ~About(txn[q], Head(txn[p]).group, Head(txn[p]).member)
<1>1. /\ Head(txn[p]) = txn[p][1] /\ 1 \in 1..Len(txn[p]) /\ Head(txn[p]) \in SafeWrite
  BY CommitOrder, CurrentWrite
<1>2. Head(txn[p]).group \in Groups /\ Head(txn[p]).member \in Members
  BY <1>1, Memberships
  DEF SafeWrite, Write, EdgeWrite, FileWrite, CreateWrite, GroupWrite, UserWrite
<1>3. About(txn[p], Head(txn[p]).group, Head(txn[p]).member)
  BY <1>1 DEF About
<1> QED
  BY <1>2, <1>3 DEF Apart

LEMMA CommitEdgeWorks ==
    ASSUME Apart, IInv, WorkInv, NEW p \in Procs, CommitEdge(p)
    PROVE  WorkInv'
<1>0. Prepared(txn[p])
  BY DEF WorkInv
<1>1. ASSUME NEW q \in Procs
      PROVE  Prepared(txn[q])'
  <2>1. txn' = [txn EXCEPT ![p] = Tail(txn[p])]
    BY DEF CommitEdge, Done
  <2>2. CASE q = p
    <3>1. txn'[q] = Tail(txn[p])
      BY <2>1, <2>2 DEF IInv
    <3>2. \A c : c = Tail(txn[p]) => Prepared(c)'
      BY <1>0, RestPrepared
    <3> QED
      BY <3>1, <3>2
  <2>3. CASE q # p
    <3> DEFINE w == Head(txn[p])
    <3>1. w.op = "edge" /\ w.group \in Groups /\ w.member \in Members
          /\ ReadyToDecide(txn[p], 1) /\ w = txn[p][1]
          /\ requests' = IF w.status = "none" THEN requests
                         ELSE [requests EXCEPT ![w.request].status = w.status]
      BY <1>0, EdgeCommitted
    <3>2. ~About(txn[q], w.group, w.member)
      BY <2>3, <3>1, OthersApart DEF CommitEdge, Current
    <3>3. \A h \in Groups, k \in Members :
             h # w.group \/ k # w.member => edges'[h][k] = edges[h][k]
      BY OtherEdgesStay
    <3> HIDE DEF w
    <3>4. Len(requests') = Len(requests) /\ Len(requests) \in Nat
      BY <1>0, RequestCommitted, LenProperties DEF IInv
    <3>5. ASSUME NEW i \in 1..Len(requests)
          PROVE  /\ requests'[i].group = requests[i].group
                 /\ requests'[i].member = requests[i].member
                 /\ requests'[i].changes = requests[i].changes
                 /\ requests[i].group # w.group \/ requests[i].member # w.member =>
                       requests'[i].status = requests[i].status
      <4>1. /\ requests'[i].group = requests[i].group
            /\ requests'[i].member = requests[i].member
            /\ requests'[i].changes = requests[i].changes
        BY <1>0, RequestCommitted
      <4>2. requests[i].group # w.group \/ requests[i].member # w.member =>
               requests'[i].status = requests[i].status
        <5>1. CASE w.status = "none"
          BY <3>1, <5>1
        <5>2. CASE w.status # "none"
          BY <3>1, <5>2 DEF ReadyToDecide, IInv
        <5> QED
          BY <5>1, <5>2
      <4> QED
        BY <4>1, <4>2
    <3>6. PICK c, g, m : c = txn[q] /\ g = w.group /\ m = w.member
      OBVIOUS
    <3>7. Prepared(c) /\ ~About(c, g, m) /\ g \in Groups /\ m \in Members
      BY <3>1, <3>2, <3>6 DEF WorkInv
    <3>8. Prepared(c)'
      <4>1. /\ \A h \in Groups, k \in Members :
                  h # g \/ k # m => edges'[h][k] = edges[h][k]
            /\ \A i \in 1..Len(requests) :
                  /\ requests'[i].group = requests[i].group
                  /\ requests'[i].member = requests[i].member
                  /\ requests'[i].changes = requests[i].changes
                  /\ requests[i].group # g \/ requests[i].member # m =>
                        requests'[i].status = requests[i].status
        BY <3>3, <3>5, <3>6
      <4>2. /\ Len(requests) \in Nat /\ Len(requests') \in Nat
            /\ Len(requests) <= Len(requests')
            /\ \A i \in 1..Len(requests') : i \notin 1..Len(requests) =>
                  requests'[i].group = g /\ requests'[i].member = m
        BY <3>4
      <4> QED
        BY <3>7, <4>1, <4>2, OthersPrepared
    <3>9. txn'[q] = c
      BY <2>1, <2>3, <3>6 DEF IInv
    <3> QED
      BY <3>8, <3>9
  <2> QED
    BY <2>2, <2>3
<1>2. /\ Len(requests') = Len(requests)
      /\ \A i \in 1..Len(requests) :
            /\ requests'[i].group = requests[i].group
            /\ requests'[i].member = requests[i].member
            /\ requests'[i].changes = requests[i].changes
            /\ requests'[i].status = "pending" => requests[i].status = "pending"
  BY <1>0, RequestCommitted
<1>3. \A g \in Groups, m \in Members : PendingFor(g, m)' \subseteq PendingFor(g, m)
  BY <1>2 DEF PendingFor
<1>4. OnePendingRequest'
  BY <1>3, Memberships DEF WorkInv, OnePendingRequest
<1> QED
  BY <1>1, <1>2, <1>4 DEF WorkInv

LEMMA CommitFiledRequestWorks ==
    ASSUME Apart, IInv, WorkInv, NEW p \in Procs, CommitFiledRequest(p)
    PROVE  WorkInv'
<1> DEFINE w == Head(txn[p])
           r == [group |-> w.group, member |-> w.member,
                 status |-> w.status, changes |-> w.changes]
<1>1. /\ txn[p] # << >> /\ w.op = "file"
      /\ requests' = Append(requests, r)
      /\ txn' = [txn EXCEPT ![p] = Tail(txn[p])]
  BY DEF CommitFiledRequest, Current, Done
<1>2. Prepared(txn[p]) /\ requests \in Seq(SafeRequest)
  BY DEF WorkInv, IInv
<1>3. ReadyToFile(w)
  BY <1>1, <1>2, CommitOrder DEF Prepared
<1>4. Tail(txn[p]) = << >>
  BY <1>1, <1>2, NothingLeft
<1>5. /\ w.group \in Groups /\ w.member \in Members
      /\ \A q \in Procs : q # p => ~About(txn[q], w.group, w.member)
  BY <1>1, CurrentWrite, OthersApart
  DEF SafeWrite, Write, EdgeWrite, FileWrite, CreateWrite, GroupWrite, UserWrite
<1>6. /\ r.group = w.group /\ r.member = w.member /\ r.changes = w.changes
      /\ edges' = IF w.insert
                  THEN [edges EXCEPT ![w.group][w.member] = NewEdge(w.role)] ELSE edges
  BY DEF CommitFiledRequest
<1> HIDE DEF r, w
<1>7. /\ Len(requests') = Len(requests) + 1 /\ Len(requests) \in Nat
      /\ requests'[Len(requests) + 1] = r
      /\ \A k \in 1..Len(requests) : requests'[k] = requests[k]
  BY <1>1, <1>2
<1>10. ASSUME NEW q \in Procs
       PROVE  Prepared(txn[q])'
  <2>1. CASE q = p
    <3>1. txn'[q] = << >>
      BY <1>1, <1>4, <2>1 DEF IInv
    <3> QED
      BY <3>1 DEF Prepared
  <2>2. CASE q # p
    <3>1. PICK c : c = txn[q] /\ Prepared(c) /\ ~About(c, w.group, w.member)
      BY <1>5, <2>2 DEF WorkInv
    <3>2. \A h \in Groups, k \in Members :
             h # w.group \/ k # w.member => edges'[h][k] = edges[h][k]
      BY <1>5, <1>6 DEF IInv, SafeEdges
    <3>3. \A i \in 1..Len(requests') : i \notin 1..Len(requests) =>
             requests'[i].group = w.group /\ requests'[i].member = w.member
      BY <1>6, <1>7
    <3>4. Prepared(c)'
      BY <1>5, <1>7, <3>1, <3>2, <3>3, OthersPrepared
    <3>5. txn'[q] = c
      BY <1>1, <2>2, <3>1 DEF IInv
    <3> QED
      BY <3>4, <3>5
  <2> QED
    BY <2>1, <2>2
<1>8. \A i \in 1..Len(requests') : requests'[i].changes.active
  BY <1>3, <1>6, <1>7 DEF ReadyToFile, WorkInv
<1>9. ASSUME NEW g \in Groups, NEW u \in Users,
             NEW i \in PendingFor(g, u)', NEW j \in PendingFor(g, u)'
      PROVE  i = j
  <2>1. ASSUME NEW k \in PendingFor(g, u)', k # Len(requests) + 1
        PROVE  k \in PendingFor(g, u)
    BY <1>7, <2>1 DEF PendingFor
  <2>2. CASE Len(requests) + 1 \notin PendingFor(g, u)'
    BY <2>1, <2>2 DEF WorkInv, OnePendingRequest
  <2>3. CASE Len(requests) + 1 \in PendingFor(g, u)'
    <3>1. w.group = g /\ w.member = u
      BY <1>6, <1>7, <2>3 DEF PendingFor
    <3>2. PendingFor(g, u) = {}
      BY <1>3, <3>1 DEF ReadyToFile
    <3> QED
      BY <2>1, <3>2
  <2> QED
    BY <2>2, <2>3
<1> QED
  BY <1>8, <1>9, <1>10 DEF WorkInv, OnePendingRequest

LEMMA CommitOtherWorks ==
    ASSUME Apart, IInv, WorkInv, NEW p \in Procs,
           CommitCreate(p) \/ CommitGroup(p) \/ CommitUser(p)
    PROVE  WorkInv'
<1>1. /\ txn[p] # << >> /\ Head(txn[p]).op # "edge"
      /\ requests' = requests /\ txn' = [txn EXCEPT ![p] = Tail(txn[p])]
  BY DEF CommitCreate, CommitGroup, CommitUser, Current, Done
<1>2. Tail(txn[p]) = << >>
  BY <1>1, NothingLeft DEF WorkInv
<1>3. ASSUME NEW q \in Procs
      PROVE  Prepared(txn[q])'
  <2>1. CASE q = p
    <3>1. txn'[q] = << >>
      BY <1>1, <1>2, <2>1 DEF IInv
    <3> QED
      BY <3>1 DEF Prepared
  <2>2. CASE q # p
    <3>1. PICK c : c = txn[q] /\ Prepared(c)
      BY DEF WorkInv
    <3>2. txn'[q] = c
      BY <1>1, <2>2, <3>1 DEF IInv
    <3>3. CASE CommitGroup(p) \/ CommitUser(p)
      <4>1. UNCHANGED <<edges, requests>>
        BY <3>3 DEF CommitGroup, CommitUser
      <4>2. Prepared(c)'
        BY <3>1, <4>1, StillPrepared
      <4> QED
        BY <3>2, <4>2
    <3>4. CASE CommitCreate(p)
      <4> DEFINE w == Head(txn[p])
      <4>1. w.op = "create" /\ w \in SafeWrite
        BY <1>1, <3>4, CurrentWrite DEF CommitCreate, Current
      <4>2. w.group \in Groups /\ w.member \in Members
        BY <4>1, Memberships
        DEF SafeWrite, Write, EdgeWrite, FileWrite, CreateWrite, GroupWrite, UserWrite
      <4>3. ~About(c, w.group, w.member)
        BY <1>1, <2>2, <3>1, <4>1, OthersApart
      <4>4. PICK new : edges' = [edges EXCEPT ![w.group][w.member] = new]
        BY <3>4 DEF CommitCreate
      <4> HIDE DEF w
      <4>5. \A h \in Groups, k \in Members :
               h # w.group \/ k # w.member => edges'[h][k] = edges[h][k]
        BY <4>2, <4>4 DEF IInv, SafeEdges
      <4>6. Len(requests) \in Nat
        BY LenProperties DEF IInv
      <4>7. Prepared(c)'
        BY <1>1, <3>1, <4>2, <4>3, <4>5, <4>6, OthersPrepared
      <4> QED
        BY <3>2, <4>7
    <3> QED
      BY <3>3, <3>4
  <2> QED
    BY <2>1, <2>2
<1>4. OnePendingRequest'
  BY <1>1 DEF WorkInv, OnePendingRequest, PendingFor
<1> QED
  BY <1>1, <1>3, <1>4 DEF WorkInv

LEMMA BackgroundWorks ==
    ASSUME IInv, WorkInv, Background
    PROVE  WorkInv'
<1>1. \A q \in Procs : \E c : c = txn'[q] /\ Prepared(c)
  BY DEF Background, LoadExpiredEdges, ExpireEdge, ExpiryCrash, WorkInv
<1>2. UNCHANGED requests
  BY DEF Background, LoadExpiredEdges, ExpireEdge, ExpiryCrash
<1>3. CASE UNCHANGED edges
  BY <1>1, <1>2, <1>3, QuietKeeps
<1>4. ASSUME NEW g \in Groups, NEW m \in Members, ExpireEdge(g, m)
      PROVE  WorkInv'
  <2>1. edges' = [edges EXCEPT ![g][m].active = FALSE]
    BY <1>4 DEF ExpireEdge
  <2>2. edges \in [Groups -> [Members -> Edge]]
    BY DEF IInv, SafeEdges
  <2>3. ASSUME NEW h \in Groups, NEW k \in Members
        PROVE  /\ edges'[h][k].expiration = edges[h][k].expiration
               /\ edges'[h][k].active => edges[h][k].active
    <3>1. edges[h][k] \in Edge
      BY <2>2
    <3>2. edges'[h][k] = IF h = g /\ k = m
                         THEN [edges[h][k] EXCEPT !.active = FALSE]
                         ELSE edges[h][k]
      BY <2>1, <2>2
    <3>3. \A e \in Edge : /\ [e EXCEPT !.active = FALSE].expiration = e.expiration
                          /\ ~[e EXCEPT !.active = FALSE].active
      BY DEF Edge
    <3> QED
      BY <3>1, <3>2, <3>3
  <2> QED
    BY <1>1, <1>2, <2>3, QuietKeeps
<1> QED
  BY <1>3, <1>4 DEF Background, LoadExpiredEdges, ExpiryCrash

LEMMA WorkKeeps ==
    ASSUME Apart, IInv, WorkInv, [Next]_vars
    PROVE  WorkInv'
<1>1. ASSUME NEW p \in Procs, Prepares(p)
      PROVE  WorkInv'
  <2>1. PICK commits \in Seq(SafeWrite) : Begin(p, commits) /\ Prepared(commits)
    BY <1>1 DEF Prepares, Handed
  <2>2. txn' = [txn EXCEPT ![p] = commits] /\ UNCHANGED <<edges, requests>>
    BY <2>1 DEF Begin
  <2>3. \A q \in Procs : txn'[q] = commits \/ txn'[q] = txn[q]
    BY <2>2 DEF IInv
  <2>4. \A q \in Procs : \E c : c = txn'[q] /\ Prepared(c)
    BY <2>1, <2>3 DEF WorkInv
  <2> QED
    BY <2>2, <2>4, QuietKeeps
<1>2. ASSUME NEW p \in Procs, Handler(p)
      PROVE  WorkInv'
  BY <1>1, <1>2, HandlerPrepares
<1>3. ASSUME NEW p \in Procs, NEW u \in Users, UserDisable(p, u) \/ UserEnable(p, u)
      PROVE  WorkInv'
  BY <1>1, <1>3, UserHandlersPrepare
<1>4. ASSUME NEW p \in Procs, Commit(p)
      PROVE  WorkInv'
  BY <1>4, CommitEdgeWorks, CommitFiledRequestWorks, CommitOtherWorks DEF Commit
<1>5. ASSUME NEW p \in Procs, Abort(p)
      PROVE  WorkInv'
  <2>1. txn' = [txn EXCEPT ![p] = << >>] /\ UNCHANGED <<edges, requests>>
    BY <1>5 DEF Abort
  <2>2. \A q \in Procs : txn'[q] = << >> \/ txn'[q] = txn[q]
    BY <2>1 DEF IInv
  <2>3. \A q \in Procs : \E c : c = txn'[q] /\ Prepared(c)
    BY <2>2, NothingPrepared DEF WorkInv
  <2> QED
    BY <2>1, <2>3, QuietKeeps
<1>6. CASE Background
  BY <1>6, BackgroundWorks
<1>7. CASE Tick \/ UNCHANGED vars
  <2>1. UNCHANGED <<edges, requests, txn>>
    BY <1>7 DEF Tick, vars
  <2>2. \A q \in Procs : \E c : c = txn'[q] /\ Prepared(c)
    BY <2>1 DEF WorkInv
  <2> QED
    BY <2>1, <2>2, QuietKeeps
<1> QED
  BY <1>2, <1>3, <1>4, <1>5, <1>6, <1>7 DEF Next

LEMMA WorkAlways == Spec /\ []Apart => [](IInv /\ WorkInv)
<1>1. Init => WorkInv
  BY NothingPrepared DEF Init, WorkInv, OnePendingRequest, PendingFor
<1> QED
  BY <1>1, IInvInit, IInvNext, WorkKeeps, PTL DEF Spec

\* However many workers there are, if no two work on the same membership at a
\* time, persist_group_member_changes never files a second pending request of
\* a user for a group.
THEOREM RequestsAreSingle == Spec /\ []Apart => []OnePendingRequest
<1>1. WorkInv => OnePendingRequest
  BY DEF WorkInv
<1> QED
  BY <1>1, WorkAlways, PTL

\* Which steps touch the requests.
LEMMA RequestSteps ==
    ASSUME IInv, WorkInv, [Next]_vars
    PROVE  \/ requests' = requests
           \/ \E p \in Procs : CommitEdge(p)
           \/ \E p \in Procs : CommitFiledRequest(p)
<1>1. ASSUME NEW p \in Procs, Prepares(p) \/ Abort(p) \/ CommitCreate(p)
                              \/ CommitGroup(p) \/ CommitUser(p)
      PROVE  requests' = requests
  BY <1>1 DEF Prepares, Begin, Abort, CommitCreate, CommitGroup, CommitUser
<1>2. ASSUME Background \/ Tick \/ UNCHANGED vars
      PROVE  requests' = requests
  BY <1>2 DEF Background, LoadExpiredEdges, ExpireEdge, ExpiryCrash, Tick, vars
<1>3. \A p \in Procs : Handler(p) => Prepares(p)
  BY HandlerPrepares
<1>4. \A p \in Procs, u \in Users : UserDisable(p, u) \/ UserEnable(p, u) => Prepares(p)
  BY UserHandlersPrepare
<1> QED
  BY <1>1, <1>2, <1>3, <1>4 DEF Next, Commit

\* A request that has been decided keeps its status, if no two workers commit
\* update_status for the same membership.
THEOREM DecisionsStay == Spec /\ []Apart => DecidedOnce
<1>1. ASSUME IInv, WorkInv, [Next]_vars, NEW i \in 1..Len(requests),
             requests[i].status # "pending"
      PROVE  requests'[i].status = requests[i].status
  <2>1. CASE requests' = requests
    BY <2>1
  <2>2. ASSUME NEW p \in Procs, CommitEdge(p)
        PROVE  requests'[i].status = requests[i].status
    BY <1>1, <2>2, RequestCommitted DEF WorkInv
  <2>3. ASSUME NEW p \in Procs, CommitFiledRequest(p)
        PROVE  requests'[i].status = requests[i].status
    <3>1. PICK r : requests' = Append(requests, r)
      BY <2>3 DEF CommitFiledRequest
    <3>2. requests \in Seq(SafeRequest)
      BY <1>1 DEF IInv
    <3> QED
      BY <3>1, <3>2
  <2> QED
    BY <1>1, <2>1, <2>2, <2>3, RequestSteps
<1>2. IInv /\ WorkInv /\ [Next]_vars =>
        [\A i \in 1..Len(requests) : requests[i].status # "pending" =>
            requests'[i].status = requests[i].status]_vars
  BY <1>1
<1> QED
  BY <1>2, WorkAlways, PTL DEF Spec, DecidedOnce

\* What an approval makes active has the expiration that its request holds, or
\* keeps its own where the request holds none, wherever apply_changes has been cut
\* into commits, and whatever workers do to other memberships in between.
THEOREM ApprovalsKeepTheDate == Spec /\ []Apart => ApprovedWithItsExpiration
<1>1. ASSUME IInv, WorkInv, NEW p \in Procs, CommitEdge(p),
             NEW w, w = Head(txn[p]), NEW asked, asked = requests[w.request].changes,
             w.request # 0, "active" \in w.changes.keys
      PROVE  edges'[w.group][w.member].expiration =
                IF "expiration" \in asked.keys THEN asked.expiration
                ELSE edges[w.group][w.member].expiration
  <2>1. Prepared(txn[p])
    BY <1>1 DEF WorkInv
  <2>2. /\ ReadyToDecide(txn[p], 1) /\ w = txn[p][1]
        /\ edges'[w.group][w.member].expiration =
              IF "expiration" \in w.changes.keys THEN w.changes.expiration
              ELSE IF w.insert THEN Forever
              ELSE edges[w.group][w.member].expiration
    BY <1>1, <2>1, EdgeCommitted
  <2>3. /\ ~w.insert /\ w.changes.expiration = asked.expiration
        /\ "expiration" \in w.changes.keys => "expiration" \in asked.keys
        /\ DatedFirst(txn[p], 1)
    BY <1>1, <2>2 DEF ReadyToDecide
  <2>4. "expiration" \in asked.keys =>
           \/ edges[w.group][w.member].expiration = asked.expiration
           \/ "expiration" \in w.changes.keys
    BY <1>1, <2>2, <2>3 DEF DatedFirst
  <2> QED
    BY <2>2, <2>3, <2>4
<1>2. IInv /\ WorkInv /\ [Next]_vars =>
        [\A p \in Procs :
            LET w == Head(txn[p])
                asked == requests[w.request].changes
            IN  (CommitEdge(p) /\ w.request # 0 /\ "active" \in w.changes.keys)
                => edges'[w.group][w.member].expiration =
                     IF "expiration" \in asked.keys THEN asked.expiration
                     ELSE edges[w.group][w.member].expiration]_vars
  BY <1>1
<1> QED
  BY <1>2, WorkAlways, PTL DEF Spec, ApprovedWithItsExpiration

\* A removal that dies half-way, while no other worker is at that membership,
\* never leaves it to last for good: what clears an expiration in apply_changes
\* clears active with it.
THEOREM RevocationsNeverExtend == Spec /\ []Apart => RevocationNeverExtends
<1>1. ASSUME IInv, WorkInv, [Next]_vars, NEW g \in Groups, NEW m \in Members,
             IsMember(g, m), edges[g][m].expiration # Forever,
             edges'[g][m].active, edges'[g][m].expiration = Forever
      PROVE  \E p \in Procs : CommitEdge(p) /\ Head(txn[p]).changes.active
  <2>0. IInv /\ WorkInv
    BY <1>1
  <2>1. edges \in [Groups -> [Members -> Edge]]
    BY <1>1 DEF IInv, SafeEdges
  <2>2. edges[g][m].row /\ edges[g][m].active /\ groupStatus[g] = "enabled"
    BY <1>1 DEF IsMember
  <2>3. edges' # edges
    BY <1>1
  <2>4. \/ \E p \in Procs : \/ CommitEdge(p) \/ CommitFiledRequest(p)
                            \/ CommitCreate(p)
        \/ \E h \in Groups, k \in Members : ExpireEdge(h, k)
    <3>1. ASSUME NEW p \in Procs, Prepares(p) \/ Abort(p) \/ CommitGroup(p)
                                  \/ CommitUser(p)
          PROVE  edges' = edges
      BY <3>1 DEF Prepares, Begin, Abort, CommitGroup, CommitUser
    <3>2. ASSUME LoadExpiredEdges \/ ExpiryCrash \/ Tick \/ UNCHANGED vars
          PROVE  edges' = edges
      BY <3>2 DEF LoadExpiredEdges, ExpiryCrash, Tick, vars
    <3>3. \A p \in Procs : Handler(p) => Prepares(p)
      BY <1>1, HandlerPrepares
    <3>4. \A p \in Procs, u \in Users :
              UserDisable(p, u) \/ UserEnable(p, u) => Prepares(p)
      BY <1>1, UserHandlersPrepare
    <3> QED
      BY <1>1, <2>3, <3>1, <3>2, <3>3, <3>4 DEF Next, Commit, Background
  <2>5. ASSUME NEW p \in Procs, CommitEdge(p)
        PROVE  Head(txn[p]).changes.active
    <3>0. PICK w : w = Head(txn[p])
      OBVIOUS
    <3>1. Prepared(txn[p])
      BY <1>1 DEF WorkInv
    <3>2. /\ EndsWithDate(w) /\ (w.insert => ~edges[w.group][w.member].row)
          /\ edges'[w.group][w.member].expiration =
                IF "expiration" \in w.changes.keys THEN w.changes.expiration
                ELSE IF w.insert THEN Forever
                ELSE edges[w.group][w.member].expiration
          /\ edges'[w.group][w.member].active =
                IF "active" \in w.changes.keys THEN w.changes.active
                ELSE IF w.insert THEN FALSE
                ELSE edges[w.group][w.member].active
      BY <2>0, <2>5, <3>0, <3>1, EdgeCommitted
    <3>3. g = w.group /\ m = w.member
      BY <1>1, <2>5, <3>0, OtherEdgesStay
    <3>4. ~w.insert /\ "expiration" \in w.changes.keys
      BY <1>1, <2>2, <3>2, <3>3
    <3>5. w.changes.active
      BY <1>1, <2>2, <3>2, <3>3, <3>4 DEF EndsWithDate
    <3> QED
      BY <3>0, <3>5
  <2>6. ASSUME NEW p \in Procs, CommitFiledRequest(p)
        PROVE  FALSE
    <3> DEFINE w == Head(txn[p])
    <3>1. /\ txn[p] # << >> /\ w.op = "file" /\ ~Conflicts(w)
          /\ edges' = IF w.insert
                      THEN [edges EXCEPT ![w.group][w.member] = NewEdge(w.role)]
                      ELSE edges
      BY <2>6 DEF CommitFiledRequest, Current
    <3>2. w.insert /\ ~edges[w.group][w.member].row
      BY <2>3, <3>1 DEF Conflicts
    <3> HIDE DEF w
    <3>3. g # w.group \/ m # w.member
      BY <2>2, <3>2
    <3>4. edges'[g][m] = edges[g][m]
      BY <2>1, <3>1, <3>2, <3>3
    <3> QED
      BY <1>1, <3>4
  <2>7. ASSUME NEW p \in Procs, CommitCreate(p)
        PROVE  FALSE
    <3> DEFINE w == Head(txn[p])
               owner == [NewEdge(w.role) EXCEPT !.active = TRUE]
    <3>1. /\ txn[p] # << >> /\ w.op = "create" /\ ~Conflicts(w)
          /\ edges' = [edges EXCEPT ![w.group][w.member] = owner]
      BY <2>7 DEF CommitCreate, Current
    <3>2. g # w.group
      BY <2>2, <3>1 DEF Conflicts
    <3> HIDE DEF w, owner
    <3>3. edges'[g][m] = edges[g][m]
      BY <2>1, <3>1, <3>2
    <3> QED
      BY <1>1, <3>3
  <2>8. ASSUME NEW h \in Groups, NEW k \in Members, ExpireEdge(h, k)
        PROVE  FALSE
    <3>1. edges' = [edges EXCEPT ![h][k].active = FALSE]
      BY <2>8 DEF ExpireEdge
    <3>2. edges'[g][m] = IF g = h /\ m = k
                         THEN [edges[g][m] EXCEPT !.active = FALSE]
                         ELSE edges[g][m]
      BY <2>1, <3>1
    <3>3. edges[g][m] \in Edge
      BY <2>1
    <3>4. \A e \in Edge : ~[e EXCEPT !.active = FALSE].active
      BY DEF Edge
    <3> QED
      BY <1>1, <3>2, <3>3, <3>4
  <2> QED
    BY <2>4, <2>5, <2>6, <2>7, <2>8
<1>2. IInv /\ WorkInv /\ [Next]_vars =>
        [\A g \in Groups, m \in Members :
            (/\ IsMember(g, m) /\ edges[g][m].expiration # Forever
             /\ edges'[g][m].active /\ edges'[g][m].expiration = Forever)
            => \E p \in Procs : CommitEdge(p) /\ Head(txn[p]).changes.active]_vars
  BY <1>1
<1> QED
  BY <1>2, WorkAlways, PTL DEF Spec, RevocationNeverExtends
=============================================================================
