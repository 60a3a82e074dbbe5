----------------------------- MODULE Notices_proofs -----------------------------
(***************************************************************************)
(* Proofs about the notices of Notices, for any users, groups and number   *)
(* of processes.  A user with a date is told, because of what holds        *)
(* between the commits of a change: an expiration that a list of commits   *)
(* still holds comes with the next one.  Where the processes leave each    *)
(* other's owners and memberships alone, a notice has the date of its      *)
(* membership and goes to owners, because what a process has read of the   *)
(* notices that it is to adjust or cancel is still so when it does it.     *)
(***************************************************************************)
EXTENDS Notices, GroupMembership_proofs

\* The next commit of some process changes the expiration of the membership.
DateComes(g, m) ==
    \E p \in Procs : /\ txn[p] # << >>
                     /\ Head(txn[p]).op = "edge"
                     /\ Head(txn[p]).group = g /\ Head(txn[p]).member = m
                     /\ "expiration" \in Head(txn[p]).changes.keys

TypedNotices ==
    /\ notices \subseteq Notice
    /\ \A n \in notices : n[4] # Forever

\* A user with a date to come has been told or will be, even while the role or
\* the activity of the membership is being changed.
ToldOrDue ==
    \A g \in Groups, u \in Users :
        edges[g][u].expiration > now /\ <<g, u>> \notin excused /\ ~DateComes(g, u)
        => <<g, u, u, edges[g][u].expiration>> \in notices \union told

\* Some commit of the list gives the row an expiration.
Dates(list) == \E n \in 1..Len(list) : "expiration" \in list[n].changes.keys

\* What a process has yet to do about notices is about the membership that its
\* next commit changes.  Until the setter of the role is done no expiration is
\* committed, and whoever is to cancel a notice has an expiration to commit.
DutyFits(list, d) ==
    LET w == Head(list)
    IN  /\ d.setter # {} \/ d.cancel # "no" => list # << >> /\ w.op = "edge"
        /\ d.setter # {} => d.cancel = "unread" /\ w.member \in Users
        /\ \A n \in d.setter : n[2] = w.group /\ n[3] = w.member /\ n[4] # Forever
        /\ d.setter # {} /\ "role" \in w.changes.keys =>
              2 \in 1..Len(list) /\ "expiration" \notin w.changes.keys
        /\ d.cancel = "yes" => Dates(list)
        /\ list # << >> /\ w.op = "edge" /\ w.member \in Users =>
              d.recipients = {w.member}

\* The inductive invariant.
NoticeInv ==
    /\ IInv /\ RowInv
    /\ TypedNotices /\ ToldOrDue
    /\ \A p \in Procs : OneMembership(txn[p])
    /\ duty \in [Procs -> Duty]
    /\ \A p \in Procs : DutyFits(txn[p], duty[p])

\* The row that a commit changes.
Row(w) == IF w.insert THEN NewEdge(w.role) ELSE edges[w.group][w.member]

\* The steps that change notices as they change a membership.
Writes(p) ==
    \/ CommitRole(p) \/ AdjustNotice(p) \/ Reload(p) \/ CancelAlone(p)
    \/ CommitWithNotices(p)

LEMMA NoticeInvImplies == NoticeInv => ExpiringMembersAreTold
<1> SUFFICES ASSUME NoticeInv PROVE ExpiringMembersAreTold
  OBVIOUS
<1>1. \A g, m : DateComes(g, m) => InWork(g, m)
  BY DEF DateComes, InWork
<1> QED
  BY <1>1 DEF NoticeInv, ToldOrDue, ExpiringMembersAreTold

\* The notices are written on the side: every step is one of GroupMembership's.
LEMMA StepsAreNext == [NoticeNext]_<<vars, noticeVars>> => [Next]_vars
BY DEF NoticeNext, Next, Commit, CommitRole, AdjustNotice, Reload, CancelAlone,
       CommitWithNotices, AbortWithNotices, CommitGroupWithNotices, SendNotices,
       BackgroundWithNotices, vars

LEMMA OneMembershipKept ==
    ASSUME IInv, \A p \in Procs : OneMembership(txn[p]), [Next]_vars
    PROVE  \A p \in Procs : OneMembership(txn'[p])
<1>0. OneMembership(<< >>)
  BY DEF OneMembership
<1>1. ASSUME NEW p \in Procs, Prepares(p)
      PROVE  \A q \in Procs : OneMembership(txn'[q])
  <2>1. PICK commits \in Seq(SafeWrite) : Begin(p, commits) /\ OneMembership(commits)
    BY <1>1 DEF Prepares, Handed
  <2>2. \A q \in Procs : txn'[q] = commits \/ txn'[q] = txn[q]
    BY <2>1 DEF Begin, IInv
  <2> QED
    BY <2>1, <2>2
<1>2. ASSUME NEW p \in Procs, txn[p] # << >>, txn' = [txn EXCEPT ![p] = Tail(txn[p])]
      PROVE  \A q \in Procs : OneMembership(txn'[q])
  <2>1. PICK s, t : s = txn[p] /\ t = Tail(txn[p])
    OBVIOUS
  <2>2. /\ Len(t) = Len(s) - 1 /\ Len(s) \in Nat
        /\ \A n \in 1..Len(t) : n + 1 \in 2..Len(s) /\ t[n] = s[n + 1]
    BY <1>2, <2>1, CommitOrder, LenProperties DEF IInv
  <2>3. OneMembership(s)
    BY <2>1
  <2>4. OneMembership(t)
    <3> SUFFICES ASSUME NEW n \in 1..Len(t), t[n].op = "edge"
                 PROVE  /\ \A k \in 1..Len(t) :
                              /\ t[k].op = "edge" /\ t[k].group = t[n].group
                              /\ t[k].member = t[n].member
                              /\ t[k].changes.role = t[n].changes.role
                              /\ /\ "expiration" \in t[k].changes.keys
                                 /\ "expiration" \in t[n].changes.keys
                                 => k = n
                        /\ n > 2 => "expiration" \notin t[n].changes.keys
                        /\ n > 1 => "role" \notin t[n].changes.keys
      BY DEF OneMembership
    <3>1. n + 1 \in 1..Len(s) /\ t[n] = s[n + 1] /\ n \in Nat /\ n >= 1
      BY <2>2
    <3>2. /\ \A k \in 1..Len(s) :
                /\ s[k].op = "edge" /\ s[k].group = s[n + 1].group
                /\ s[k].member = s[n + 1].member
                /\ s[k].changes.role = s[n + 1].changes.role
                /\ /\ "expiration" \in s[k].changes.keys
                   /\ "expiration" \in s[n + 1].changes.keys
                   => k = n + 1
          /\ n + 1 > 2 => "expiration" \notin s[n + 1].changes.keys
          /\ n + 1 > 1 => "role" \notin s[n + 1].changes.keys
      BY <2>3, <3>1 DEF OneMembership
    <3>3. \A k \in 1..Len(t) : k + 1 \in 1..Len(s) /\ t[k] = s[k + 1] /\ k \in Nat
      BY <2>2
    <3>4. \A k \in 1..Len(t) : k + 1 = n + 1 => k = n
      BY <3>1, <3>3
    <3>5. n > 2 => n + 1 > 2
      BY <3>1
    <3>6. n + 1 > 1
      BY <3>1
    <3> QED
      BY <3>1, <3>2, <3>3, <3>4, <3>5, <3>6
  <2>5. \A q \in Procs : txn'[q] = t \/ txn'[q] = txn[q]
    BY <1>2, <2>1 DEF IInv
  <2> QED
    BY <2>4, <2>5
<1>3. ASSUME NEW p \in Procs, Commit(p)
      PROVE  \A q \in Procs : OneMembership(txn'[q])
  <2>1. txn[p] # << >> /\ txn' = [txn EXCEPT ![p] = Tail(txn[p])]
    BY <1>3 DEF Commit, CommitEdge, CommitFiledRequest, CommitCreate, CommitGroup,
                CommitUser, Current, Done
  <2> QED
    BY <1>2, <2>1
<1>4. ASSUME NEW p \in Procs, Abort(p)
      PROVE  \A q \in Procs : OneMembership(txn'[q])
  <2>1. \A q \in Procs : txn'[q] = << >> \/ txn'[q] = txn[q]
    BY <1>4 DEF Abort, IInv
  <2> QED
    BY <1>0, <2>1
<1>5. CASE Background \/ Tick \/ UNCHANGED vars
  BY <1>5 DEF Background, LoadExpiredEdges, ExpireEdge, ExpiryCrash, Tick, vars
<1>6. \A p \in Procs : Handler(p) => Prepares(p)
  BY HandlerPrepares
<1>7. \A p \in Procs, u \in Users : UserDisable(p, u) \/ UserEnable(p, u) => Prepares(p)
  BY UserHandlersPrepare
<1> QED
  BY <1>1, <1>3, <1>4, <1>5, <1>6, <1>7 DEF Next

\* What follows a commit of a list: a commit of the same membership, without the
\* role, and with the expiration when the list has one that is yet to come.
Follows(s, t) ==
    /\ t # << >> =>
          /\ Head(t).op = "edge" /\ Head(t).group = Head(s).group
          /\ Head(t).member = Head(s).member
          /\ Head(t).changes.role = Head(s).changes.role
          /\ "role" \notin Head(t).changes.keys
    /\ 2 \in 1..Len(s) => t # << >>
    /\ Dates(t) => Dates(s) /\ "expiration" \notin Head(s).changes.keys
    /\ Dates(s) /\ "expiration" \notin Head(s).changes.keys =>
          t # << >> /\ "expiration" \in Head(t).changes.keys
    /\ "expiration" \in Head(s).changes.keys => Dates(s)

LEMMA RestOfList ==
    ASSUME IInv, NEW p \in Procs, txn[p] # << >>, Head(txn[p]).op = "edge",
           OneMembership(txn[p])
    PROVE  Follows(txn[p], Tail(txn[p]))
<1>0. PICK s, t : s = txn[p] /\ t = Tail(txn[p])
  OBVIOUS
<1>1. /\ Head(s) = s[1] /\ 1 \in 1..Len(s) /\ t \in Seq(SafeWrite)
      /\ Len(t) = Len(s) - 1 /\ Len(s) \in Nat
      /\ \A n \in 1..Len(t) : n + 1 \in 2..Len(s) /\ t[n] = s[n + 1]
  BY <1>0, CommitOrder, LenProperties DEF IInv
<1>2. t # << >> => Len(t) >= 1 /\ Head(t) = t[1]
  BY <1>1
<1>3. /\ t # << >> <=> 2 \in 1..Len(s)
      /\ t # << >> => 1 \in 1..Len(t) /\ Head(t) = s[2]
  <2>1. t # << >> => 1 \in 1..Len(t)
    BY <1>1, <1>2
  <2>2. t # << >> => 2 \in 1..Len(s) /\ Head(t) = s[2]
    BY <1>1, <1>2, <2>1
  <2>3. 2 \in 1..Len(s) => Len(t) # 0
    BY <1>1
  <2>4. Len(<< >>) = 0
    OBVIOUS
  <2> QED
    BY <2>1, <2>2, <2>3, <2>4
<1>4. /\ \A k \in 1..Len(s) :
            /\ s[k].op = "edge" /\ s[k].group = s[1].group /\ s[k].member = s[1].member
            /\ s[k].changes.role = s[1].changes.role
      /\ \A n, k \in 1..Len(s) : /\ "expiration" \in s[n].changes.keys
                                 /\ "expiration" \in s[k].changes.keys
                                 => n = k
      /\ \A n \in 1..Len(s) : n > 2 => "expiration" \notin s[n].changes.keys
      /\ \A n \in 1..Len(s) : n > 1 => "role" \notin s[n].changes.keys
  <2>1. s[1].op = "edge" /\ OneMembership(s)
    BY <1>0, <1>1
  <2>2. \A k \in 1..Len(s) :
           /\ s[k].op = "edge" /\ s[k].group = s[1].group /\ s[k].member = s[1].member
           /\ s[k].changes.role = s[1].changes.role
    BY <1>1, <2>1 DEF OneMembership
  <2>3. \A n \in 1..Len(s) :
           /\ \A k \in 1..Len(s) : /\ "expiration" \in s[k].changes.keys
                                   /\ "expiration" \in s[n].changes.keys
                                   => k = n
           /\ n > 2 => "expiration" \notin s[n].changes.keys
           /\ n > 1 => "role" \notin s[n].changes.keys
    BY <2>1, <2>2 DEF OneMembership
  <2> QED
    BY <2>2, <2>3
<1>5. t # << >> =>
         /\ Head(t).op = "edge" /\ Head(t).group = Head(s).group
         /\ Head(t).member = Head(s).member
         /\ Head(t).changes.role = Head(s).changes.role
         /\ "role" \notin Head(t).changes.keys
  BY <1>1, <1>3, <1>4
<1>6. ASSUME Dates(t)
      PROVE  Dates(s) /\ "expiration" \notin Head(s).changes.keys
  <2>1. PICK n \in 1..Len(t) : "expiration" \in t[n].changes.keys
    BY <1>6 DEF Dates
  <2>2. n + 1 \in 1..Len(s) /\ n + 1 # 1 /\ "expiration" \in s[n + 1].changes.keys
    BY <1>1, <2>1
  <2> QED
    BY <1>1, <1>4, <2>2 DEF Dates
<1>7. ASSUME Dates(s), "expiration" \notin Head(s).changes.keys
      PROVE  t # << >> /\ "expiration" \in Head(t).changes.keys
  <2>1. PICK n \in 1..Len(s) : "expiration" \in s[n].changes.keys
    BY <1>7 DEF Dates
  <2>2. n = 2
    BY <1>1, <1>4, <1>7, <2>1
  <2> QED
    BY <1>3, <2>1, <2>2
<1>8. "expiration" \in Head(s).changes.keys => Dates(s)
  BY <1>1 DEF Dates
<1> QED
  BY <1>0, <1>3, <1>5, <1>6, <1>7, <1>8 DEF Follows

-----------------------------------------------------------------------------
(* What a process has yet to do about notices.                             *)

\* What the steps that write notices leave alone.
LEMMA WriteFacts ==
    ASSUME NoticeInv, NEW p \in Procs, Writes(p), NEW w, w = Head(txn[p])
    PROVE  /\ txn[p] # << >> /\ w.op = "edge"
           /\ w.group \in Groups /\ w.member \in Members /\ w.changes \in Changes
           /\ now' = now /\ groupStatus' = groupStatus
           /\ \A q \in Procs \ {p} : txn'[q] = txn[q] /\ duty'[q] = duty[q]
           /\ \A g \in Groups, m \in Members :
                 ~(g = w.group /\ m = w.member) => edges'[g][m] = edges[g][m]
<1>1. \/ CommitEdge(p)
      \/ /\ UNCHANGED vars /\ txn[p] # << >>
         /\ duty[p].setter # {} \/ duty[p].cancel # "no"
  BY DEF Writes, CommitRole, AdjustNotice, Reload, CancelAlone, CommitWithNotices
<1>2. txn[p] # << >> /\ w.op = "edge"
  BY <1>1 DEF CommitEdge, Current, NoticeInv, DutyFits
<1>3. w \in SafeWrite
  BY <1>2, CurrentWrite DEF NoticeInv
<1>4. w.group \in Groups /\ w.member \in Members /\ w.changes \in Changes
  BY <1>2, <1>3
  DEF SafeWrite, Write, EdgeWrite, FileWrite, CreateWrite, GroupWrite, UserWrite
<1>5. /\ now' = now /\ groupStatus' = groupStatus
      /\ \A q \in Procs \ {p} : txn'[q] = txn[q]
  BY <1>1 DEF CommitEdge, Done, vars, NoticeInv, IInv
<1>6. \A q \in Procs \ {p} : duty'[q] = duty[q]
  BY DEF Writes, CommitRole, AdjustNotice, Reload, CancelAlone, CommitWithNotices,
         NoticeInv
<1>7. ASSUME NEW g \in Groups, NEW m \in Members, ~(g = w.group /\ m = w.member)
      PROVE  edges'[g][m] = edges[g][m]
  <2>1. edges \in [Groups -> [Members -> Edge]]
    BY DEF NoticeInv, IInv, SafeEdges
  <2>2. CASE CommitEdge(p)
    <3>1. PICK row : edges' = [edges EXCEPT ![w.group][w.member] = row]
      BY <2>2 DEF CommitEdge
    <3> QED
      BY <1>4, <1>7, <2>1, <3>1
  <2>3. CASE UNCHANGED vars
    BY <2>3 DEF vars
  <2> QED
    BY <1>1, <2>2, <2>3
<1> QED
  BY <1>2, <1>4, <1>5, <1>6, <1>7

\* What a handler finds to do.
LEMMA DutyBegins ==
    ASSUME IInv, NEW list \in Seq(SafeWrite), 1 \in 1..Len(list), SetterFirst(list)
    PROVE  DutyOf(list) \in Duty /\ DutyFits(list, DutyOf(list))
<1>1. PICK w : w = Head(list)
  OBVIOUS
<1>2. w = list[1] /\ w \in SafeWrite /\ DOMAIN list = 1..Len(list) /\ list # << >>
  BY <1>1
<1>3. CASE w.op # "edge"
  <2>1. DutyOf(list) = NoDuty
    BY <1>1, <1>3 DEF DutyOf
  <2>2. NoDuty.setter = {} /\ NoDuty.cancel = "no" /\ NoDuty \in Duty
    BY DEF NoDuty, Duty
  <2> QED
    BY <1>1, <1>3, <2>1, <2>2 DEF DutyFits
<1>4. CASE w.op = "edge"
  <2>1. w.group \in Groups /\ w.member \in Members
    BY <1>2, <1>4, WriteSubject
  <2>2. PICK d : d = DutyOf(list)
    OBVIOUS
  <2>3. /\ d.setter = SetterNotices(w) /\ d.recipients = Recipients(w.member)
        /\ d.cancel = IF SetterNotices(w) = {} THEN CancelDuty(list) ELSE "unread"
        /\ d = [setter |-> d.setter, cancel |-> d.cancel, recipients |-> d.recipients]
    BY <1>1, <1>4, <2>2 DEF DutyOf
  <2>4. \A g \in Groups, m \in Members : edges[g][m].expiration \in Nat
    BY DEF IInv, SafeEdges, Edge
  <2>5. \A n \in d.setter : /\ ChangesOwnership(w) /\ n \in Notice
                            /\ n[2] = w.group /\ n[3] = w.member /\ n[4] # Forever
                            /\ ExpiringSupergroups(w.group) # {}
    <3> SUFFICES ASSUME NEW n \in d.setter
                 PROVE  /\ ChangesOwnership(w) /\ n \in Notice
                        /\ n[2] = w.group /\ n[3] = w.member /\ n[4] # Forever
                        /\ ExpiringSupergroups(w.group) # {}
      OBVIOUS
    <3>1. ChangesOwnership(w)
      BY <2>3 DEF SetterNotices
    <3>2. PICK g \in ExpiringSupergroups(w.group) :
             n = <<g, w.group, w.member, edges[g][w.group].expiration>>
      BY <2>3, <3>1 DEF SetterNotices
    <3>3. g \in Groups /\ edges[g][w.group].expiration # Forever
      BY <3>2 DEF ExpiringSupergroups
    <3>4. w.member \in Users /\ w.group \in Members
      BY <2>1, <3>1, Memberships DEF ChangesOwnership
    <3> QED
      BY <2>1, <2>4, <3>1, <3>2, <3>3, <3>4 DEF Notice
  <2>6. d.cancel = "yes" => Dates(list)
    BY <1>2, <2>3 DEF CancelDuty, Cancels, Dates
  <2>7. d.cancel \in {"unread", "yes", "no"} /\ d.recipients \subseteq Users
    BY <2>3 DEF CancelDuty, Recipients, OwnersOf
  <2>8. d.setter # {} => d.cancel = "unread"
    BY <2>3
  <2>9. d.setter # {} => w.member \in Users
    BY <2>5 DEF ChangesOwnership
  <2>10. d.setter # {} /\ "role" \in w.changes.keys =>
            2 \in 1..Len(list) /\ "expiration" \notin w.changes.keys
    BY <1>2, <1>4, <2>5 DEF ChangesOwnership, SetterFirst
  <2>11. w.member \in Users => d.recipients = {w.member}
    BY <2>3 DEF Recipients
  <2>12. d \in Duty
    <3>1. d.setter \in SUBSET Notice
      BY <2>5
    <3> QED
      BY <2>3, <2>7, <3>1 DEF Duty
  <2>13. DutyFits(list, d)
    BY <1>1, <1>2, <1>4, <2>5, <2>6, <2>8, <2>9, <2>10, <2>11 DEF DutyFits
  <2> QED
    BY <2>2, <2>12, <2>13
<1> QED
  BY <1>3, <1>4

LEMMA NoDutyFits == NoDuty \in Duty /\ DutyFits(<< >>, NoDuty)
BY DEF NoDuty, Duty, DutyFits

LEMMA DutyAfter ==
    ASSUME NoticeInv, NEW p \in Procs, Writes(p), NEW w, w = Head(txn[p]),
           NEW t, t = txn'[p], NEW d, d = duty[p], NEW e, e = duty'[p]
    PROVE  /\ d \in Duty /\ e \in Duty /\ DutyFits(t, e)
           /\ CommitRole(p) =>
                 /\ t # << >> /\ "expiration" \notin w.changes.keys
                 /\ e.cancel = "unread" /\ e.recipients = d.recipients
           /\ CommitEdge(p) => t = Tail(txn[p])
           /\ AdjustNotice(p) \/ Reload(p) \/ CancelAlone(p) => t = txn[p]
           /\ AdjustNotice(p) => e.cancel = "unread" /\ e.recipients = d.recipients
           /\ Reload(p) => /\ e.setter = {} /\ e.cancel = CancelDuty(txn[p])
                          /\ e.recipients = d.recipients
           /\ CancelAlone(p) => /\ e.setter = {} /\ e.cancel = "no"
                               /\ e.recipients = d.recipients
           /\ CommitWithNotices(p) =>
                 /\ d.setter = {} /\ e.setter = {} /\ e.cancel = "no"
                 /\ t # << >> => e.recipients = d.recipients
<1>1. /\ txn[p] # << >> /\ w.op = "edge" /\ d \in Duty /\ DutyFits(txn[p], d)
      /\ OneMembership(txn[p]) /\ IInv
  BY WriteFacts DEF NoticeInv
<1>2. CommitEdge(p) => t = Tail(txn[p])
  BY DEF CommitEdge, Done, NoticeInv, IInv
<1>3. AdjustNotice(p) \/ Reload(p) \/ CancelAlone(p) => t = txn[p]
  BY DEF AdjustNotice, Reload, CancelAlone, vars
<1>4. duty \in [Procs -> Duty]
  BY DEF NoticeInv
<1>5. ASSUME CommitRole(p)
      PROVE  /\ e \in Duty /\ DutyFits(t, e)
             /\ t # << >> /\ "expiration" \notin w.changes.keys
             /\ e.cancel = "unread" /\ e.recipients = d.recipients
  <2>1. PICK n \in d.setter : e = [d EXCEPT !.setter = StillToAdjust(@, n)]
    BY <1>4, <1>5 DEF CommitRole
  <2>2. /\ e \in Duty /\ e.setter = d.setter \ {n} /\ e.cancel = d.cancel
        /\ e.recipients = d.recipients
    BY <1>1, <2>1 DEF Duty, StillToAdjust
  <2>3. "role" \in w.changes.keys /\ CommitEdge(p)
    BY <1>5 DEF CommitRole
  <2>4. /\ d.cancel = "unread" /\ w.member \in Users
        /\ 2 \in 1..Len(txn[p]) /\ "expiration" \notin w.changes.keys
        /\ \A k \in d.setter : k[2] = w.group /\ k[3] = w.member /\ k[4] # Forever
        /\ d.recipients = {w.member}
    BY <1>1, <2>1, <2>3 DEF DutyFits
  <2>5. /\ t # << >> /\ Head(t).op = "edge" /\ Head(t).group = w.group
        /\ Head(t).member = w.member /\ "role" \notin Head(t).changes.keys
    <3>1. Follows(txn[p], t)
      BY <1>1, <1>2, <2>3, RestOfList
    <3> QED
      BY <2>4, <3>1 DEF Follows
  <2>6. DutyFits(t, e)
    BY <2>2, <2>4, <2>5 DEF DutyFits
  <2> QED
    BY <2>2, <2>4, <2>5, <2>6
<1>6. ASSUME AdjustNotice(p)
      PROVE  /\ e \in Duty /\ DutyFits(t, e)
             /\ e.cancel = "unread" /\ e.recipients = d.recipients
  <2>1. PICK n \in d.setter : e = [d EXCEPT !.setter = StillToAdjust(@, n)]
    BY <1>4, <1>6 DEF AdjustNotice
  <2>2. /\ e \in Duty /\ e.setter = d.setter \ {n} /\ e.cancel = d.cancel
        /\ e.recipients = d.recipients
    BY <1>1, <2>1 DEF Duty, StillToAdjust
  <2>3. d.cancel = "unread"
    BY <1>1, <2>1 DEF DutyFits
  <2>4. DutyFits(t, e)
    BY <1>1, <1>3, <1>6, <2>2, <2>3 DEF DutyFits
  <2> QED
    BY <2>2, <2>3, <2>4
<1>7. ASSUME Reload(p)
      PROVE  /\ e \in Duty /\ DutyFits(t, e) /\ e.setter = {}
             /\ e.cancel = CancelDuty(txn[p]) /\ e.recipients = d.recipients
  <2>1. e = [d EXCEPT !.cancel = CancelDuty(txn[p])] /\ d.setter = {}
    BY <1>4, <1>7 DEF Reload
  <2>2. CancelDuty(txn[p]) \in {"unread", "yes", "no"}
    BY DEF CancelDuty
  <2>3. /\ e \in Duty /\ e.setter = {} /\ e.cancel = CancelDuty(txn[p])
        /\ e.recipients = d.recipients
    BY <1>1, <2>1, <2>2 DEF Duty
  <2>4. DOMAIN txn[p] = 1..Len(txn[p])
    BY LenProperties DEF NoticeInv, IInv
  <2>5. CancelDuty(txn[p]) = "yes" => Dates(txn[p])
    BY <2>4 DEF CancelDuty, Cancels, Dates
  <2>6. DutyFits(t, e)
    BY <1>1, <1>3, <1>7, <2>3, <2>5 DEF DutyFits
  <2> QED
    BY <2>3, <2>6
<1>8. ASSUME CancelAlone(p)
      PROVE  /\ e \in Duty /\ DutyFits(t, e) /\ e.setter = {} /\ e.cancel = "no"
             /\ e.recipients = d.recipients
  <2>1. e = [d EXCEPT !.cancel = "no"] /\ d.cancel = "yes"
    BY <1>4, <1>8 DEF CancelAlone
  <2>2. /\ e \in Duty /\ e.setter = d.setter /\ e.cancel = "no"
        /\ e.recipients = d.recipients
    BY <1>1, <2>1 DEF Duty, StillToAdjust
  <2>3. d.setter = {}
    BY <1>1, <2>1 DEF DutyFits
  <2>4. DutyFits(t, e)
    BY <1>1, <1>3, <1>8, <2>2, <2>3 DEF DutyFits
  <2> QED
    BY <2>2, <2>3, <2>4
<1>9. ASSUME CommitWithNotices(p)
      PROVE  /\ e \in Duty /\ DutyFits(t, e)
             /\ d.setter = {} /\ e.setter = {} /\ e.cancel = "no"
             /\ t # << >> => e.recipients = d.recipients
  <2>1. /\ e = IF t = << >> THEN NoDuty ELSE [d EXCEPT !.cancel = "no"]
        /\ d.setter = {} /\ CommitEdge(p)
    BY <1>4, <1>9 DEF CommitWithNotices
  <2>2. /\ e \in Duty /\ e.setter = {} /\ e.cancel = "no"
        /\ t # << >> => e.recipients = d.recipients
    BY <1>1, <2>1 DEF Duty, NoDuty
  <2>3. t # << >> => /\ Head(t).op = "edge" /\ Head(t).member = w.member
    BY <1>1, <1>2, <2>1, RestOfList DEF Follows
  <2>4. DutyFits(t, e)
    BY <1>1, <2>2, <2>3 DEF DutyFits
  <2> QED
    BY <2>1, <2>2, <2>4
<1> QED
  BY <1>1, <1>2, <1>3, <1>5, <1>6, <1>7, <1>8, <1>9 DEF Writes

\* The other steps: a handler begins, a commit writes no edge that is there, and
\* what no process of the front end does.
Serves(p) ==
    /\ Prepares(p)
    /\ duty' = [duty EXCEPT ![p] = DutyOf(txn'[p])]
    /\ UNCHANGED <<notices, told, excused>>

Inserts(p) ==
    /\ CommitFiledRequest(p) \/ CommitCreate(p) \/ CommitUser(p)
    /\ UNCHANGED <<notices, duty, told, excused>>

Elsewhere ==
    \/ BackgroundWithNotices
    \/ SendNotices
    \/ Tick /\ UNCHANGED <<notices, duty, told, excused>>
    \/ UNCHANGED <<vars, notices, duty, told, excused>>

LEMMA NoticeSteps ==
    ASSUME NoticeInv, [NoticeNext]_<<vars, noticeVars>>
    PROVE  \/ Elsewhere
           \/ \E p \in Procs : \/ Writes(p) \/ Serves(p) \/ Inserts(p)
                              \/ AbortWithNotices(p) \/ CommitGroupWithNotices(p)
<1>1. ASSUME NEW p \in Procs,
             Handler(p) \/ \E u \in Users : UserDisable(p, u) \/ UserEnable(p, u),
             duty' = [duty EXCEPT ![p] = DutyOf(txn'[p])],
             UNCHANGED <<notices, told, excused>>
      PROVE  Serves(p)
  <2>1. Handler(p) => Prepares(p)
    BY HandlerPrepares DEF NoticeInv
  <2>2. \A u \in Users : UserDisable(p, u) \/ UserEnable(p, u) => Prepares(p)
    BY UserHandlersPrepare DEF NoticeInv
  <2> QED
    BY <1>1, <2>1, <2>2 DEF Serves
<1>2. UNCHANGED noticeVars => UNCHANGED <<notices, duty, told, excused>>
  BY DEF noticeVars
<1>3. CASE NoticeNext
  <2>1. CASE \/ BackgroundWithNotices
             \/ Tick /\ UNCHANGED noticeVars
             \/ SendNotices
    BY <1>2, <2>1 DEF Elsewhere
  <2>2. ASSUME NEW p \in Procs,
               \/ CommitRole(p)
               \/ AdjustNotice(p)
               \/ Reload(p)
               \/ CancelAlone(p)
               \/ CommitWithNotices(p)
               \/ AbortWithNotices(p)
               \/ CommitGroupWithNotices(p)
               \/ /\ Handler(p) \/ \E u \in Users : UserDisable(p, u) \/ UserEnable(p, u)
                  /\ changed < MaxChanges /\ changed' = changed + 1
                  /\ duty' = [duty EXCEPT ![p] = DutyOf(txn'[p])]
                  /\ UNCHANGED <<notices, told, excused>>
               \/ /\ CommitFiledRequest(p) \/ CommitCreate(p) \/ CommitUser(p)
                  /\ UNCHANGED noticeVars
        PROVE  \/ Writes(p) \/ Serves(p) \/ Inserts(p)
               \/ AbortWithNotices(p) \/ CommitGroupWithNotices(p)
    BY <1>1, <1>2, <2>2, Zenon DEF Writes, Inserts
  <2> QED
    BY <1>3, <2>1, <2>2, Zenon DEF NoticeNext
<1>4. CASE UNCHANGED <<vars, noticeVars>>
  BY <1>4 DEF Elsewhere, vars, noticeVars
<1> QED
  BY <1>3, <1>4

\* After a commit that is not one of an edge no commit of an edge comes.
LEMMA NoEdgeFollows ==
    ASSUME NoticeInv, NEW p \in Procs, txn[p] # << >>, Head(txn[p]).op # "edge"
    PROVE  Tail(txn[p]) # << >> => Head(Tail(txn[p])).op # "edge"
<1>1. PICK s, t : s = txn[p] /\ t = Tail(txn[p])
  OBVIOUS
<1>2. /\ Head(s) = s[1] /\ 1 \in 1..Len(s) /\ t \in Seq(SafeWrite)
      /\ \A n \in 1..Len(t) : n + 1 \in 1..Len(s) /\ t[n] = s[n + 1]
  BY <1>1, CommitOrder, LenProperties DEF NoticeInv, IInv
<1>3. SUFFICES ASSUME t # << >> PROVE Head(t).op # "edge"
  BY <1>1
<1>4. 1 \in 1..Len(t) /\ Head(t) = t[1]
  BY <1>2, <1>3
<1>5. 1 + 1 \in 1..Len(s) /\ t[1] = s[1 + 1] /\ OneMembership(s)
  BY <1>1, <1>2, <1>4 DEF NoticeInv
<1> QED
  BY <1>1, <1>2, <1>4, <1>5 DEF OneMembership

LEMMA DutyKept ==
    ASSUME NoticeInv, [NoticeNext]_<<vars, noticeVars>>
    PROVE  duty' \in [Procs -> Duty] /\ \A p \in Procs : DutyFits(txn'[p], duty'[p])
<1> DEFINE Good == duty' \in [Procs -> Duty] /\ \A p \in Procs : DutyFits(txn'[p], duty'[p])
<1>0. /\ duty \in [Procs -> Duty] /\ txn \in [Procs -> Seq(SafeWrite)] /\ IInv
      /\ \A p \in Procs : DutyFits(txn[p], duty[p])
  BY DEF NoticeInv, IInv
<1>1. ASSUME NEW p \in Procs, Writes(p)
      PROVE  Good
  <2>1. duty'[p] \in Duty /\ DutyFits(txn'[p], duty'[p])
    BY <1>1, DutyAfter
  <2>2. \A q \in Procs \ {p} : txn'[q] = txn[q] /\ duty'[q] = duty[q]
    BY <1>1, WriteFacts
  <2>3. \E d : duty' = [duty EXCEPT ![p] = d]
    BY <1>1 DEF Writes, CommitRole, AdjustNotice, Reload, CancelAlone, CommitWithNotices
  <2> QED
    BY <1>0, <2>1, <2>2, <2>3
<1>2. ASSUME NEW p \in Procs, Serves(p)
      PROVE  Good
  <2>1. PICK list \in Seq(SafeWrite) : Begin(p, list) /\ 1 \in 1..Len(list)
                                      /\ SetterFirst(list)
    BY <1>2 DEF Serves, Prepares, Handed
  <2>2. txn' = [txn EXCEPT ![p] = list]
    BY <2>1 DEF Begin
  <2>3. DutyOf(list) \in Duty /\ DutyFits(list, DutyOf(list))
    BY <1>0, <2>1, DutyBegins
  <2>4. txn'[p] = list /\ \A q \in Procs \ {p} : txn'[q] = txn[q]
    BY <1>0, <2>2
  <2> QED
    BY <1>0, <1>2, <2>3, <2>4 DEF Serves
<1>3. ASSUME NEW p \in Procs, AbortWithNotices(p)
      PROVE  Good
  <2>1. txn' = [txn EXCEPT ![p] = << >>] /\ duty' = [duty EXCEPT ![p] = NoDuty]
    BY <1>3 DEF AbortWithNotices, Abort
  <2> QED
    BY <1>0, <2>1, NoDutyFits
<1>4. ASSUME NEW p \in Procs, Inserts(p) \/ CommitGroupWithNotices(p)
      PROVE  Good
  <2>1. /\ txn[p] # << >> /\ Head(txn[p]).op # "edge"
        /\ txn' = [txn EXCEPT ![p] = Tail(txn[p])] /\ duty' = duty
    BY <1>4 DEF Inserts, CommitGroupWithNotices, CommitFiledRequest, CommitCreate,
                CommitUser, CommitGroup, Current, Done
  <2>2. Tail(txn[p]) # << >> => Head(Tail(txn[p])).op # "edge"
    BY <2>1, NoEdgeFollows
  <2>3. duty[p].setter = {} /\ duty[p].cancel = "no"
    <3>1. DutyFits(txn[p], duty[p]) /\ duty[p] \in Duty
      BY <1>0
    <3> QED
      BY <2>1, <3>1 DEF DutyFits
  <2>4. DutyFits(Tail(txn[p]), duty[p])
    BY <2>2, <2>3 DEF DutyFits
  <2> QED
    BY <1>0, <2>1, <2>4
<1>5. ASSUME Elsewhere
      PROVE  Good
  <2>1. UNCHANGED <<txn, duty>>
    BY <1>5 DEF Elsewhere, BackgroundWithNotices, Background, LoadExpiredEdges,
                ExpireEdge, ExpiryCrash, SendNotices, Tick, vars
  <2> QED
    BY <1>0, <2>1
<1> HIDE DEF Good
<1>6. \/ Elsewhere
      \/ \E p \in Procs : \/ Writes(p) \/ Serves(p) \/ Inserts(p)
                         \/ AbortWithNotices(p) \/ CommitGroupWithNotices(p)
  BY NoticeSteps
<1>7. Good
  BY <1>1, <1>2, <1>3, <1>4, <1>5, <1>6
<1> QED
  BY <1>7 DEF Good

-----------------------------------------------------------------------------
(* The steps that change no date of a membership.                          *)

DatesStay ==
    \A g \in Groups, m \in Members : edges'[g][m].expiration = edges[g][m].expiration

QuietStep ==
    \/ \E p \in Procs : \/ Prepares(p) \/ Abort(p)
                        \/ CommitFiledRequest(p) \/ CommitCreate(p)
                        \/ CommitGroup(p) \/ CommitUser(p)
    \/ Background \/ Tick \/ UNCHANGED vars

LEMMA QuietLeavesDates ==
    ASSUME IInv, RowInv, QuietStep
    PROVE  DatesStay
<1>0. edges \in [Groups -> [Members -> Edge]]
  BY DEF IInv, SafeEdges
<1>1. ASSUME edges' = edges
      PROVE  DatesStay
  BY <1>1 DEF DatesStay
<1>2. ASSUME NEW p \in Procs, CommitFiledRequest(p) \/ CommitCreate(p)
      PROVE  DatesStay
  <2>1. PICK w : w = Head(txn[p])
    OBVIOUS
  <2>2. /\ txn[p] # << >> /\ ~Conflicts(w) /\ w.op \in {"file", "create"}
        /\ \/ edges' = edges
           \/ \E row : /\ row.expiration = Forever
                       /\ edges' = [edges EXCEPT ![w.group][w.member] = row]
                       /\ w.op = "file" => w.insert
    <3>1. PICK new, owner : new = NewEdge(w.role)
                            /\ owner = [NewEdge(w.role) EXCEPT !.active = TRUE]
      OBVIOUS
    <3>2. new.expiration = Forever /\ owner.expiration = Forever
      BY <3>1 DEF NewEdge
    <3>3. CASE CommitFiledRequest(p)
      <4>1. /\ txn[p] # << >> /\ ~Conflicts(w) /\ w.op = "file"
            /\ edges' = IF w.insert THEN [edges EXCEPT ![w.group][w.member] = new]
                        ELSE edges
        BY <2>1, <3>1, <3>3 DEF CommitFiledRequest, Current
      <4> QED
        BY <3>2, <4>1
    <3>4. CASE CommitCreate(p)
      <4>1. /\ txn[p] # << >> /\ ~Conflicts(w) /\ w.op = "create"
            /\ edges' = [edges EXCEPT ![w.group][w.member] = owner]
        BY <2>1, <3>1, <3>4 DEF CommitCreate, Current
      <4> QED
        BY <3>2, <4>1
    <3> QED
      BY <1>2, <3>3, <3>4
  <2>3. w \in SafeWrite
    BY <2>1, <2>2, CurrentWrite
  <2>4. w.group \in Groups /\ w.member \in Members
    BY <2>2, <2>3, Memberships
    DEF SafeWrite, Write, EdgeWrite, FileWrite, CreateWrite, GroupWrite, UserWrite
  <2>5. CASE edges' # edges
    <3>1. PICK row : /\ row.expiration = Forever
                     /\ edges' = [edges EXCEPT ![w.group][w.member] = row]
                     /\ w.op = "file" => w.insert
      BY <2>2, <2>5
    <3>2. ~edges[w.group][w.member].row
      BY <2>2, <2>4, <3>1 DEF Conflicts, RowInv
    <3>3. edges[w.group][w.member].expiration = Forever
      BY <2>4, <3>2 DEF RowInv
    <3>4. \A g \in Groups, m \in Members :
             edges'[g][m] = IF g = w.group /\ m = w.member THEN row ELSE edges[g][m]
      BY <1>0, <2>4, <3>1
    <3> QED
      BY <3>1, <3>3, <3>4 DEF DatesStay
  <2> QED
    BY <1>1, <2>5
<1>3. ASSUME NEW h \in Groups, NEW k \in Members, ExpireEdge(h, k)
      PROVE  DatesStay
  <2>1. \A g \in Groups, m \in Members :
           edges'[g][m] = IF g = h /\ m = k THEN [edges[g][m] EXCEPT !.active = FALSE]
                          ELSE edges[g][m]
    BY <1>0, <1>3 DEF ExpireEdge
  <2>2. \A e \in Edge : [e EXCEPT !.active = FALSE].expiration = e.expiration
    BY DEF Edge
  <2> QED
    BY <1>0, <2>1, <2>2 DEF DatesStay
<1>4. ASSUME NEW p \in Procs, Prepares(p) \/ Abort(p) \/ CommitGroup(p) \/ CommitUser(p)
      PROVE  DatesStay
  BY <1>1, <1>4 DEF Prepares, Begin, Abort, CommitGroup, CommitUser
<1>5. CASE LoadExpiredEdges \/ ExpiryCrash \/ Tick \/ UNCHANGED vars
  BY <1>1, <1>5 DEF LoadExpiredEdges, ExpiryCrash, Tick, vars
<1> QED
  BY <1>2, <1>3, <1>4, <1>5 DEF QuietStep, Background

LEMMA QuietTime ==
    ASSUME IInv, QuietStep
    PROVE  now' \in Nat /\ now' >= now
<1>1. now \in Nat
  BY DEF IInv
<1>2. now' = now \/ now' = now + 1
  BY DEF QuietStep, Prepares, Begin, Abort, CommitFiledRequest, CommitCreate,
         CommitGroup, CommitUser, Background, LoadExpiredEdges, ExpireEdge,
         ExpiryCrash, Tick, vars
<1> QED
  BY <1>1, <1>2

LEMMA OthersAreQuiet ==
    ASSUME \/ Elsewhere
           \/ \E p \in Procs : \/ Serves(p) \/ Inserts(p)
                              \/ AbortWithNotices(p) \/ CommitGroupWithNotices(p)
    PROVE  QuietStep
<1>1. ASSUME NEW p \in Procs,
             \/ Serves(p) \/ Inserts(p)
             \/ AbortWithNotices(p) \/ CommitGroupWithNotices(p)
      PROVE  \/ Prepares(p) \/ Abort(p)
             \/ CommitFiledRequest(p) \/ CommitCreate(p)
             \/ CommitGroup(p) \/ CommitUser(p)
  BY <1>1 DEF Serves, AbortWithNotices, CommitGroupWithNotices, Inserts
<1>2. Elsewhere => Background \/ Tick \/ UNCHANGED vars
  BY DEF Elsewhere, BackgroundWithNotices, SendNotices, vars
<1> QED
  BY <1>1, <1>2, Zenon DEF QuietStep

\* What the commit w at the head of a list does to the dates.
DateAfter(w, g, m) ==
    edges'[g][m].expiration =
        IF g = w.group /\ m = w.member /\ "expiration" \in w.changes.keys
        THEN w.changes.expiration ELSE edges[g][m].expiration

LEMMA CommitDates ==
    ASSUME IInv, RowInv, NEW p \in Procs, CommitEdge(p), NEW w, w = Head(txn[p])
    PROVE  /\ w.op = "edge" /\ w.group \in Groups /\ w.member \in Members
           /\ w.changes \in Changes /\ now' = now
           /\ Row(w).expiration = edges[w.group][w.member].expiration
           /\ \A g \in Groups, m \in Members : DateAfter(w, g, m)
<1>1. /\ txn[p] # << >> /\ w.op = "edge" /\ ~Conflicts(w) /\ now' = now
      /\ edges' = [edges EXCEPT ![w.group][w.member] = ApplyChanges(Row(w), w.changes)]
  BY DEF CommitEdge, Current, Row
<1>2. w \in SafeWrite
  BY <1>1, CurrentWrite
<1>3. /\ w.group \in Groups /\ w.member \in Members /\ w.changes \in Changes
      /\ w.role \in Roles
  BY <1>1, <1>2
  DEF SafeWrite, Write, EdgeWrite, FileWrite, CreateWrite, GroupWrite, UserWrite
<1>4. edges[w.group][w.member] \in Edge /\ edges \in [Groups -> [Members -> Edge]]
  BY <1>3 DEF IInv, SafeEdges
<1>5. w.insert => edges[w.group][w.member].expiration = Forever
  BY <1>1, <1>3 DEF Conflicts, RowInv
<1>6. Row(w) \in Edge
  BY <1>3, <1>4, NewEdgeType DEF Row
<1>7. Row(w).expiration = edges[w.group][w.member].expiration
  BY <1>5 DEF Row, NewEdge
<1>8. ApplyChanges(Row(w), w.changes).expiration =
         IF "expiration" \in w.changes.keys THEN w.changes.expiration
         ELSE Row(w).expiration
  BY <1>6 DEF ApplyChanges, Edge
<1>9. ASSUME NEW g \in Groups, NEW m \in Members
      PROVE  DateAfter(w, g, m)
  <2>1. edges'[g][m] = IF g = w.group /\ m = w.member
                       THEN ApplyChanges(Row(w), w.changes) ELSE edges[g][m]
    BY <1>1, <1>3, <1>4
  <2> QED
    BY <1>7, <1>8, <2>1 DEF DateAfter
<1> QED
  BY <1>1, <1>3, <1>7, <1>9

\* What a step that leaves the dates must do to keep the invariant: lose no notice
\* but by sending it or before another date, and no commit of a date but by
\* excusing it.
LEMMA QuietKeepsTold ==
    ASSUME NoticeInv, IInv', DatesStay, now' \in Nat, now' >= now,
           \A g \in Groups, u \in Users :
              edges'[g][u].expiration # Forever =>
                 /\ <<g, u>> \in excused => <<g, u>> \in excused'
                 /\ DateComes(g, u) => DateComes(g, u)' \/ <<g, u>> \in excused'
                 /\ \A x : <<g, u, u, x>> \in notices \union told =>
                       \/ <<g, u, u, x>> \in notices' \union told'
                       \/ DateComes(g, u)'
    PROVE  ToldOrDue'
<1> SUFFICES ASSUME NEW g \in Groups, NEW u \in Users,
                    edges'[g][u].expiration > now', <<g, u>> \notin excused',
                    ~DateComes(g, u)'
             PROVE  <<g, u, u, edges'[g][u].expiration>> \in notices' \union told'
  BY DEF ToldOrDue
<1>1. /\ edges'[g][u].expiration = edges[g][u].expiration
      /\ edges[g][u].expiration \in Nat /\ now \in Nat
  <2>1. u \in Members
    BY Memberships
  <2>2. edges[g][u] \in Edge
    BY <2>1 DEF NoticeInv, IInv, SafeEdges
  <2> QED
    BY <2>1, <2>2 DEF DatesStay, Edge, NoticeInv, IInv
<1>2. edges[g][u].expiration > now /\ edges'[g][u].expiration # Forever
  BY <1>1 DEF Forever
<1>3. <<g, u>> \notin excused /\ ~DateComes(g, u)
  BY <1>2
<1>4. <<g, u, u, edges[g][u].expiration>> \in notices \union told
  BY <1>2, <1>3 DEF NoticeInv, ToldOrDue
<1> QED
  BY <1>1, <1>2, <1>4

\* Commits of dates stay next as long as their lists are left alone.
LEMMA DateStillComes ==
    ASSUME NEW p, \A q \in Procs \ {p} : txn'[q] = txn[q],
           p \in Procs /\ txn[p] # << >> => Head(txn[p]).op # "edge",
           NEW g, NEW u, DateComes(g, u)
    PROVE  DateComes(g, u)'
<1>1. PICK q \in Procs : /\ txn[q] # << >> /\ Head(txn[q]).op = "edge"
                         /\ Head(txn[q]).group = g /\ Head(txn[q]).member = u
                         /\ "expiration" \in Head(txn[q]).changes.keys
  BY DEF DateComes
<1>2. txn'[q] = txn[q]
  BY <1>1
<1> QED
  BY <1>1, <1>2 DEF DateComes

\* A user with a date stays excused.
LEMMA ExcuseStays ==
    ASSUME NEW set, excused' = StillExcused(set), NEW g \in Groups, NEW u \in Users,
           <<g, u>> \in set, edges'[g][u].expiration # Forever
    PROVE  <<g, u>> \in excused'
BY DEF StillExcused

LEMMA OthersKeepTold ==
    ASSUME NoticeInv, IInv',
           \/ Elsewhere
           \/ \E p \in Procs : \/ Serves(p) \/ Inserts(p)
                              \/ AbortWithNotices(p) \/ CommitGroupWithNotices(p)
    PROVE  ToldOrDue' /\ notices' \subseteq notices
<1> DEFINE Good == ToldOrDue' /\ notices' \subseteq notices
<1>1. DatesStay
  BY OthersAreQuiet, QuietLeavesDates DEF NoticeInv
<1>2. now' \in Nat /\ now \in Nat
  BY DEF NoticeInv, IInv
<1>3. now' >= now
  BY OthersAreQuiet, QuietTime DEF NoticeInv
<1>4. ASSUME NEW p \in Procs, Serves(p) \/ Inserts(p)
      PROVE  Good
  <2>1. /\ \A q \in Procs \ {p} : txn'[q] = txn[q]
        /\ txn[p] # << >> => Head(txn[p]).op # "edge"
        /\ UNCHANGED <<notices, told, excused>>
    BY <1>4 DEF Serves, Inserts, Prepares, Begin, Idle, CommitFiledRequest, CommitCreate,
                CommitUser, Current, Done, NoticeInv, IInv
  <2>2. \A g \in Groups, u \in Users : DateComes(g, u) => DateComes(g, u)'
    BY <2>1, DateStillComes
  <2> QED
    BY <1>1, <1>2, <1>3, <2>1, <2>2, QuietKeepsTold
<1>5. ASSUME NEW p \in Procs, CommitGroupWithNotices(p)
      PROVE  Good
  <2>1. /\ \A q \in Procs \ {p} : txn'[q] = txn[q]
        /\ txn[p] # << >> => Head(txn[p]).op # "edge"
    BY <1>5 DEF CommitGroupWithNotices, CommitGroup, Current, Done, NoticeInv, IInv
  <2>2. \A g \in Groups, u \in Users : DateComes(g, u) => DateComes(g, u)'
    BY <2>1, DateStillComes
  <2>3. \A g \in Groups, u \in Users :
           edges'[g][u].expiration # Forever /\ <<g, u>> \in excused
           => <<g, u>> \in excused'
    BY <1>5, ExcuseStays DEF CommitGroupWithNotices
  <2>4. UNCHANGED <<notices, told>>
    BY <1>5 DEF CommitGroupWithNotices
  <2> QED
    BY <1>1, <1>2, <1>3, <2>2, <2>3, <2>4, QuietKeepsTold
<1>6. ASSUME NEW p \in Procs, AbortWithNotices(p)
      PROVE  Good
  <2>0. PICK w : w = Head(txn[p])
    OBVIOUS
  <2>1. PICK cut :
           /\ excused' = StillExcused(excused \union cut)
           /\ \A gm \in Groups \X Members :
                 /\ w.op = "edge" /\ gm = <<w.group, w.member>>
                 /\ gm[2] \in Users => "expiration" \in w.changes.keys
                 => gm \in cut
    <3> DEFINE died ==
             {gm \in Groups \X Members :
                 \/ /\ Head(txn[p]).op = "edge"
                    /\ gm = <<Head(txn[p]).group, Head(txn[p]).member>>
                    /\ gm[2] \in Users => "expiration" \in Head(txn[p]).changes.keys
                 \/ Demoting(p) /\ \E n \in duty[p].setter : gm = <<n[1], n[2]>>}
    <3>1. excused' = StillExcused(excused \union died)
      BY <1>6 DEF AbortWithNotices
    <3>2. ASSUME NEW gm \in Groups \X Members,
                 w.op = "edge" /\ gm = <<w.group, w.member>>,
                 gm[2] \in Users => "expiration" \in w.changes.keys
          PROVE  gm \in died
      BY <2>0, <3>2
    <3> HIDE DEF died
    <3> QED
      BY <3>1, <3>2
  <2>2. \A q \in Procs \ {p} : txn'[q] = txn[q]
    BY <1>6 DEF AbortWithNotices, Abort, NoticeInv, IInv
  <2>3. UNCHANGED <<notices, told>>
    BY <1>6 DEF AbortWithNotices
  <2>4. ASSUME NEW g \in Groups, NEW u \in Users, DateComes(g, u)
        PROVE  DateComes(g, u)' \/ <<g, u>> \in cut
    <3>1. PICK q \in Procs : /\ txn[q] # << >> /\ Head(txn[q]).op = "edge"
                             /\ Head(txn[q]).group = g /\ Head(txn[q]).member = u
                             /\ "expiration" \in Head(txn[q]).changes.keys
      BY <2>4 DEF DateComes
    <3>2. CASE q = p
      BY <2>0, <2>1, <3>1, <3>2, Memberships
    <3>3. CASE q # p
      BY <2>2, <3>1, <3>3 DEF DateComes
    <3> QED
      BY <3>2, <3>3
  <2>5. \A g \in Groups, u \in Users :
           edges'[g][u].expiration # Forever /\ <<g, u>> \in excused \union cut
           => <<g, u>> \in excused'
    BY <2>1, ExcuseStays
  <2> QED
    BY <1>1, <1>2, <1>3, <2>3, <2>4, <2>5, QuietKeepsTold
<1>7. ASSUME Elsewhere
      PROVE  Good
  <2>1. /\ UNCHANGED txn /\ notices' \subseteq notices
        /\ notices \union told \subseteq notices' \union told'
    BY <1>7 DEF Elsewhere, BackgroundWithNotices, Background, LoadExpiredEdges,
                ExpireEdge, ExpiryCrash, SendNotices, Tick, vars
  <2>2. \E set : excused \subseteq set /\ excused' \in {set, StillExcused(set)}
    BY <1>7 DEF Elsewhere, BackgroundWithNotices, SendNotices
  <2>3. \A g \in Groups, u \in Users : DateComes(g, u) => DateComes(g, u)'
    BY <2>1 DEF DateComes
  <2>4. \A g \in Groups, u \in Users :
           edges'[g][u].expiration # Forever /\ <<g, u>> \in excused
           => <<g, u>> \in excused'
    BY <2>2, ExcuseStays
  <2> QED
    BY <1>1, <1>2, <1>3, <2>1, <2>3, <2>4, QuietKeepsTold
<1> HIDE DEF Good
<1>8. Good
  BY <1>4, <1>5, <1>6, <1>7
<1> QED
  BY <1>8 DEF Good

-----------------------------------------------------------------------------
(* The steps that write notices, and who is told.                          *)

LEMMA AdjustedNotices ==
    ASSUME NEW w, NEW n
    PROVE  /\ \A k \in AdjustedBySetter(w, n) : k \in notices \/ k = n
           /\ \A k \in notices : ~SameNotice(k, n) => k \in AdjustedBySetter(w, n)
BY DEF AdjustedBySetter

LEMMA AddedNotices ==
    ASSUME NEW w, NEW recipients
    PROVE  \A n \in AddExpiration(w, recipients) :
              /\ n = <<w.group, w.member, n[3], w.changes.expiration>>
              /\ n[3] \in recipients /\ w.changes.expiration # Forever
              /\ "expiration" \in w.changes.keys
<1>1. \A n \in AddExpiration(w, recipients) :
         \E u \in recipients : n = <<w.group, w.member, u, w.changes.expiration>>
  BY DEF AddExpiration
<1>2. AddExpiration(w, recipients) # {} =>
         w.changes.expiration # Forever /\ "expiration" \in w.changes.keys
  BY DEF AddExpiration, CommitsAfterExpiration
<1> QED
  BY <1>1, <1>2

\* Until the setter is done, and while the old notice is cancelled alone, the dates
\* stay as they are.
LEMMA WritesLeaveDates ==
    ASSUME NoticeInv, NEW p \in Procs, Writes(p), ~CommitWithNotices(p)
    PROVE  DatesStay
<1>1. CASE CommitRole(p)
  <2>1. PICK w : w = Head(txn[p])
    OBVIOUS
  <2>2. "expiration" \notin w.changes.keys
    BY <1>1, <2>1, DutyAfter
  <2>3. \A g \in Groups, m \in Members : DateAfter(w, g, m)
    BY <1>1, <2>1, CommitDates DEF CommitRole, NoticeInv
  <2> QED
    BY <2>2, <2>3 DEF DateAfter, DatesStay
<1>2. CASE AdjustNotice(p) \/ Reload(p) \/ CancelAlone(p)
  BY <1>2 DEF AdjustNotice, Reload, CancelAlone, vars, DatesStay
<1> QED
  BY <1>1, <1>2 DEF Writes

\* What is added to the notices.
LEMMA WritesAdd ==
    ASSUME NoticeInv, NEW p \in Procs, Writes(p), NEW w, w = Head(txn[p]),
           NEW n \in notices', n \notin notices
    PROVE  \/ /\ n \in duty[p].setter /\ w.changes.role \in OwnerRoles
              /\ CommitRole(p) \/ AdjustNotice(p)
              /\ n \in Notice /\ n[2] = w.group /\ n[3] = w.member /\ n[4] # Forever
              /\ w.member \in Users
           \/ /\ CommitWithNotices(p)
              /\ n = <<w.group, w.member, n[3], w.changes.expiration>>
              /\ n \in Notice /\ n[3] \in duty[p].recipients /\ n[4] # Forever
              /\ "expiration" \in w.changes.keys
<1>1. /\ w.group \in Groups /\ w.member \in Members /\ w.changes \in Changes
      /\ w.op = "edge" /\ txn[p] # << >>
  BY WriteFacts
<1>2. duty[p] \in Duty /\ DutyFits(txn[p], duty[p])
  BY DEF NoticeInv
<1>3. CASE CommitRole(p) \/ AdjustNotice(p)
  <2>1. PICK k \in duty[p].setter : notices' = AdjustedBySetter(w, k)
    BY <1>3 DEF CommitRole, AdjustNotice
  <2>2. n = k /\ w.changes.role \in OwnerRoles
    BY <2>1 DEF AdjustedBySetter
  <2>3. /\ n[2] = w.group /\ n[3] = w.member /\ n[4] # Forever /\ w.member \in Users
        /\ n \in Notice
    BY <1>2, <2>1, <2>2 DEF DutyFits, Duty
  <2> QED
    BY <1>3, <2>1, <2>2, <2>3
<1>4. CASE Reload(p) \/ CancelAlone(p)
  BY <1>4 DEF Reload, CancelAlone, CancelExpiration
<1>5. CASE CommitWithNotices(p)
  <2>1. n \in AddExpiration(w, duty[p].recipients)
    BY <1>5 DEF CommitWithNotices, CancelExpiration
  <2>2. /\ n = <<w.group, w.member, n[3], w.changes.expiration>>
        /\ n[3] \in duty[p].recipients /\ w.changes.expiration # Forever
        /\ "expiration" \in w.changes.keys
    BY <2>1, AddedNotices
  <2>3. n[3] \in Users /\ w.changes.expiration \in Nat
    BY <1>1, <1>2, <2>2 DEF Duty, Changes
  <2> QED
    BY <1>1, <1>5, <2>2, <2>3 DEF Notice
<1> QED
  BY <1>3, <1>4, <1>5 DEF Writes

LEMMA WritesKeepTyped ==
    ASSUME NoticeInv, NEW p \in Procs, Writes(p)
    PROVE  TypedNotices'
<1>1. \A n \in notices' : n \notin notices => n \in Notice /\ n[4] # Forever
  BY WritesAdd
<1> QED
  BY <1>1 DEF NoticeInv, TypedNotices

\* The setter and the cancellation lose no notice of a user, unless another comes.
LEMMA WritesKeepTold ==
    ASSUME NoticeInv, IInv', NEW p \in Procs, Writes(p), ~CommitWithNotices(p)
    PROVE  ToldOrDue'
<1>1. PICK w, d : w = Head(txn[p]) /\ d = duty[p]
  OBVIOUS
<1>2. /\ txn[p] # << >> /\ w.op = "edge" /\ w.group \in Groups /\ now' = now
      /\ \A q \in Procs \ {p} : txn'[q] = txn[q]
  BY <1>1, WriteFacts
<1>3. now' \in Nat /\ now' >= now
  BY <1>2 DEF IInv
<1>4. DutyFits(txn[p], d) /\ d \in Duty
  BY <1>1 DEF NoticeInv
<1>5. /\ told' = told
      /\ \E set : excused \subseteq set /\ excused' \in {set, StillExcused(set)}
  <2>1. CASE CommitRole(p)
    <3>1. told' = told
      BY <2>1 DEF CommitRole
    <3>2. "expiration" \notin w.changes.keys
      BY <1>1, <2>1, DutyAfter
    <3>3. excused \subseteq ExcusedBy(p)
      BY <1>1, <3>2 DEF ExcusedBy
    <3>4. \E n : excused' = StillExcused(ExcusedBy(p) \union Late(n))
      BY <2>1 DEF CommitRole
    <3> QED
      BY <3>1, <3>3, <3>4
  <2>2. CASE AdjustNotice(p) \/ Reload(p) \/ CancelAlone(p)
    BY <2>2 DEF AdjustNotice, Reload, CancelAlone
  <2> QED
    BY <2>1, <2>2 DEF Writes
<1>6. \A g \in Groups, u \in Users :
         edges'[g][u].expiration # Forever /\ <<g, u>> \in excused
         => <<g, u>> \in excused'
  BY <1>5, ExcuseStays
<1>7. ASSUME NEW g, NEW u, DateComes(g, u)
      PROVE  DateComes(g, u)'
  <2>1. PICK q \in Procs : /\ txn[q] # << >> /\ Head(txn[q]).op = "edge"
                           /\ Head(txn[q]).group = g /\ Head(txn[q]).member = u
                           /\ "expiration" \in Head(txn[q]).changes.keys
    BY <1>7 DEF DateComes
  <2>2. CASE q # p
    BY <1>2, <2>1, <2>2 DEF DateComes
  <2>3. CASE q = p
    <3>1. ~CommitRole(p)
      BY <1>1, <2>1, <2>3, DutyAfter
    <3>2. txn'[p] = txn[p]
      BY <3>1, DutyAfter DEF Writes
    <3> QED
      BY <2>1, <2>3, <3>2 DEF DateComes
  <2> QED
    BY <2>2, <2>3
<1>8. ASSUME NEW g \in Groups, NEW u \in Users, NEW x, <<g, u, u, x>> \in notices
      PROVE  <<g, u, u, x>> \in notices' \/ DateComes(g, u)'
  <2>1. u # w.group
    BY <1>2, Memberships
  <2>2. CASE CommitRole(p) \/ AdjustNotice(p)
    <3>1. PICK n \in d.setter : notices' = AdjustedBySetter(w, n)
      BY <1>1, <2>2 DEF CommitRole, AdjustNotice
    <3>2. ~SameNotice(<<g, u, u, x>>, n)
      BY <1>1, <1>4, <2>1, <3>1 DEF DutyFits, SameNotice
    <3> QED
      BY <1>8, <3>1, <3>2, AdjustedNotices
  <2>3. CASE Reload(p)
    BY <1>8, <2>3 DEF Reload
  <2>4. CASE CancelAlone(p)
    <3>1. notices' = CancelExpiration(w) /\ "expiration" \in w.changes.keys
      BY <1>1, <2>4 DEF CancelAlone
    <3>2. CASE g = w.group /\ u = w.member
      <4>1. DateComes(g, u)
        BY <1>1, <1>2, <3>1, <3>2 DEF DateComes
      <4> QED
        BY <1>7, <4>1
    <3>3. CASE ~(g = w.group /\ u = w.member)
      BY <1>8, <3>1, <3>3 DEF CancelExpiration
    <3> QED
      BY <3>2, <3>3
  <2> QED
    BY <2>2, <2>3, <2>4 DEF Writes
<1> QED
  BY <1>3, <1>5, <1>6, <1>7, <1>8, WritesLeaveDates, QuietKeepsTold

\* A user whose membership gets a date that is to come is told.
LEMMA MemberIsTold ==
    ASSUME NEW w, w.member \in Users, "expiration" \in w.changes.keys,
           w.changes.expiration # Forever, w.changes.expiration > now
    PROVE  <<w.group, w.member, w.member, w.changes.expiration>>
              \in AddExpiration(w, {w.member})
BY DEF AddExpiration, CommitsAfterExpiration

LEMMA CommitKeepsTold ==
    ASSUME NoticeInv, NEW p \in Procs, CommitWithNotices(p)
    PROVE  ToldOrDue'
<1>0. PICK w, d : w = Head(txn[p]) /\ d = duty[p]
  OBVIOUS
<1>1. /\ CommitEdge(p) /\ d.setter = {} /\ d.cancel # "unread"
      /\ d.cancel = "yes" => "expiration" \notin w.changes.keys
      /\ notices' = (IF d.cancel = "yes" THEN CancelExpiration(w) ELSE notices)
                       \union AddExpiration(w, d.recipients)
      /\ told' = {n \in told : edges'[n[1]][n[2]].expiration = n[4]}
      /\ excused' = StillExcused(ExcusedBy(p))
  BY <1>0 DEF CommitWithNotices
<1>2. /\ w.op = "edge" /\ w.group \in Groups /\ w.member \in Members
      /\ w.changes \in Changes /\ now' = now
      /\ \A g \in Groups, m \in Members : DateAfter(w, g, m)
  BY <1>0, <1>1, CommitDates DEF NoticeInv
<1>3. /\ txn[p] # << >> /\ txn'[p] = Tail(txn[p])
      /\ \A q \in Procs \ {p} : txn'[q] = txn[q]
  BY <1>0, <1>1, WriteFacts, DutyAfter DEF Writes
<1>4. /\ OneMembership(txn[p]) /\ DutyFits(txn[p], d) /\ IInv
      /\ now \in Nat /\ w.changes.expiration \in Nat
      /\ \A g \in Groups, m \in Members : edges[g][m] \in Edge
  BY <1>0, <1>2 DEF NoticeInv, IInv, SafeEdges, Changes
<1> SUFFICES ASSUME NEW g \in Groups, NEW u \in Users,
                    edges'[g][u].expiration > now', <<g, u>> \notin excused',
                    ~DateComes(g, u)'
             PROVE  <<g, u, u, edges'[g][u].expiration>> \in notices' \union told'
  BY DEF ToldOrDue
<1>5. u \in Members /\ DateAfter(w, g, u)
  BY <1>2, Memberships
<1>6. edges'[g][u].expiration # Forever
  BY <1>2, <1>4 DEF Forever
<1>7. CASE g = w.group /\ u = w.member /\ "expiration" \in w.changes.keys
  <2>1. edges'[g][u].expiration = w.changes.expiration
    BY <1>5, <1>7 DEF DateAfter
  <2>2. d.recipients = {w.member}
    BY <1>0, <1>2, <1>3, <1>4, <1>7 DEF DutyFits
  <2> QED
    BY <1>1, <1>2, <1>6, <1>7, <2>1, <2>2, MemberIsTold
<1>8. CASE ~(g = w.group /\ u = w.member /\ "expiration" \in w.changes.keys)
  <2>1. edges'[g][u].expiration = edges[g][u].expiration
    BY <1>5, <1>8 DEF DateAfter
  <2>2. <<g, u>> \notin excused
    <3>1. <<g, u>> \in excused => <<g, u>> \in ExcusedBy(p)
      BY <1>0, <1>8 DEF ExcusedBy
    <3> QED
      BY <1>1, <1>6, <3>1, ExcuseStays
  <2>3. ~DateComes(g, u)
    BY <1>0, <1>3, <1>8 DEF DateComes
  <2>4. <<g, u, u, edges[g][u].expiration>> \in notices \union told
    BY <1>2, <2>1, <2>2, <2>3 DEF NoticeInv, ToldOrDue
  <2>5. CASE <<g, u, u, edges[g][u].expiration>> \in told
    BY <1>1, <2>1, <2>5
  <2>6. CASE <<g, u, u, edges[g][u].expiration>> \in notices
    <3>1. ~(g = w.group /\ u = w.member /\ d.cancel = "yes")
      <4> SUFFICES ASSUME g = w.group, u = w.member, d.cancel = "yes"
                   PROVE  DateComes(g, u)'
        OBVIOUS
      <4>1. Dates(txn[p]) /\ "expiration" \notin w.changes.keys
        BY <1>1, <1>4 DEF DutyFits
      <4>2. PICK t : t = txn'[p]
        OBVIOUS
      <4>3. /\ t # << >> /\ "expiration" \in Head(t).changes.keys
            /\ Head(t).op = "edge" /\ Head(t).group = w.group
            /\ Head(t).member = w.member
        <5>1. Follows(txn[p], t)
          BY <1>0, <1>2, <1>3, <1>4, <4>2, RestOfList
        <5> QED
          BY <1>0, <4>1, <5>1 DEF Follows
      <4> QED
        BY <4>2, <4>3 DEF DateComes
    <3>2. <<g, u, u, edges[g][u].expiration>> \in notices'
      BY <1>1, <2>6, <3>1 DEF CancelExpiration
    <3> QED
      BY <2>1, <3>2
  <2> QED
    BY <2>4, <2>5, <2>6
<1> QED
  BY <1>7, <1>8

LEMMA NoticeInvInit == NoticeInit => NoticeInv
<1> SUFFICES ASSUME NoticeInit PROVE NoticeInv
  OBVIOUS
<1>1. IInv /\ RowInv
  BY IInvInit, RowInvInit DEF NoticeInit
<1>2. TypedNotices
  BY DEF NoticeInit, TypedNotices
<1>3. ToldOrDue
  BY Memberships DEF NoticeInit, Init, ToldOrDue, NoEdge, Forever
<1>4. \A p \in Procs : OneMembership(txn[p])
  BY DEF NoticeInit, Init, OneMembership
<1>5. duty \in [Procs -> Duty] /\ \A p \in Procs : DutyFits(txn[p], duty[p])
  BY NoDutyFits DEF NoticeInit, Init
<1> QED
  BY <1>1, <1>2, <1>3, <1>4, <1>5 DEF NoticeInv

LEMMA NoticeInvNext == NoticeInv /\ [NoticeNext]_<<vars, noticeVars>> => NoticeInv'
<1> SUFFICES ASSUME NoticeInv, [NoticeNext]_<<vars, noticeVars>> PROVE NoticeInv'
  OBVIOUS
<1>1. [Next]_vars
  BY StepsAreNext
<1>2. IInv' /\ RowInv'
  BY <1>1, IInvNext, RowInvNext DEF NoticeInv
<1>3. \A p \in Procs : OneMembership(txn'[p])
  BY <1>1, OneMembershipKept DEF NoticeInv
<1>4. duty' \in [Procs -> Duty] /\ \A p \in Procs : DutyFits(txn'[p], duty'[p])
  BY DutyKept
<1>5. ASSUME NEW p \in Procs, Writes(p)
      PROVE  TypedNotices' /\ ToldOrDue'
  BY <1>2, <1>5, WritesKeepTyped, WritesKeepTold, CommitKeepsTold
<1>6. ASSUME \/ Elsewhere
             \/ \E p \in Procs : \/ Serves(p) \/ Inserts(p)
                                \/ AbortWithNotices(p) \/ CommitGroupWithNotices(p)
      PROVE  TypedNotices' /\ ToldOrDue'
  <2>1. ToldOrDue' /\ notices' \subseteq notices
    BY <1>2, <1>6, OthersKeepTold
  <2> QED
    BY <2>1 DEF NoticeInv, TypedNotices
<1>7. \/ Elsewhere
      \/ \E p \in Procs : \/ Writes(p) \/ Serves(p) \/ Inserts(p)
                         \/ AbortWithNotices(p) \/ CommitGroupWithNotices(p)
  BY NoticeSteps
<1>8. TypedNotices' /\ ToldOrDue'
  BY <1>5, <1>6, <1>7
<1> QED
  BY <1>2, <1>3, <1>4, <1>8 DEF NoticeInv

LEMMA NoticesAlways == NoticeSpec => []NoticeInv
BY NoticeInvInit, NoticeInvNext, PTL DEF NoticeSpec

\* Scheduling and sending notices lets nothing happen to memberships and
\* requests that GroupMembership does not: what is proved of its behaviours holds
\* with the notices, and the commits that write nothing else, as well.
THEOREM NoticesImplementMembership == NoticeSpec => Spec
<1>1. NoticeInit => Init
  BY DEF NoticeInit
<1> QED
  BY <1>1, StepsAreNext, PTL DEF NoticeSpec, Spec

\* Whoever will lose a membership has been told or will be, unless a process
\* died between the commits that set the date and the notice.
THEOREM MembersTold == NoticeSpec => []ExpiringMembersAreTold
BY NoticesAlways, NoticeInvImplies, PTL

-----------------------------------------------------------------------------
(* Where no two processes change the same membership, and no process       *)
(* changes an owner of a group while another changes that group's own      *)
(* membership: what a process has read of the notices is still so when it  *)
(* adjusts, cancels or schedules them.                                     *)

\* Where one process works at a time this holds: its commits are about one
\* membership.
OwnersApart ==
    \A s \in Groups, g \in Groups, u \in Users : ~(InWork(s, g) /\ InWork(g, u))

OwnersTold ==
    \A n \in notices :
        n[2] \in Groups /\ n[4] > now /\ <<n[1], n[2]>> \notin excused =>
            /\ BeingCancelled(n) \/ edges[n[2]][n[3]].role \in OwnerRoles
            /\ InForce(n[1], n[2]) \/ InWork(n[1], n[2])

\* The dates that the setter has read.
DatesRead(d) == \A n \in d.setter : edges[n[1]][n[2]].expiration = n[4]

\* With a date to commit, and none to cancel, no notice is out.
OldCancelled(list, d) ==
    d.setter = {} /\ d.cancel = "no" /\ Dates(list) =>
        \A n \in notices : ~(n[1] = Head(list).group /\ n[2] = Head(list).member)

RecipientsOwn(w, d) ==
    w.member \in Groups =>
        \A u \in d.recipients : edges[w.member][u].role \in OwnerRoles

\* Whoever is no owner once w is committed has no notice that the setter has not
\* found.
DemotionFound(w, d) ==
    w.member \in Users /\ "role" \in w.changes.keys /\ w.changes.role \notin OwnerRoles =>
        \A n \in notices :
            /\ n[2] = w.group /\ n[3] = w.member /\ n[4] > now
            /\ <<n[1], n[2]>> \notin excused
            => \E k \in d.setter : SameNotice(n, k)

\* Once the role is committed, who is told is an owner.
PromotionMade(w, d) ==
    d.setter # {} /\ "role" \notin w.changes.keys /\ w.changes.role \in OwnerRoles =>
        edges[w.group][w.member].role \in OwnerRoles

Knows(list, d) ==
    list # << >> /\ Head(list).op = "edge" =>
        /\ DatesRead(d)
        /\ OldCancelled(list, d)
        /\ RecipientsOwn(Head(list), d)
        /\ DemotionFound(Head(list), d)
        /\ PromotionMade(Head(list), d)

ApartInv ==
    /\ NoticesHaveTheDate /\ OwnersTold
    /\ \A p \in Procs : Knows(txn[p], duty[p])

LEMMA HeadAbout ==
    ASSUME NEW list \in Seq(SafeWrite), list # << >>, Head(list).op = "edge"
    PROVE  /\ About(list, Head(list).group, Head(list).member)
           /\ Head(list).group \in Groups /\ Head(list).member \in Members
<1>1. 1 \in 1..Len(list) /\ Head(list) = list[1] /\ list[1] \in SafeWrite
  OBVIOUS
<1> QED
  BY <1>1, WriteSubject DEF About

\* What a step must leave a process that does not take it.
LEMMA Undisturbed ==
    ASSUME NoticeInv, NEW q \in Procs, Knows(txn[q], duty[q]), NEW v, v = Head(txn[q]),
           txn'[q] = txn[q], duty'[q] = duty[q], now' \in Nat, now' >= now,
           \A n \in notices' : n[2] \in Groups /\ <<n[1], n[2]>> \in excused
                              => <<n[1], n[2]>> \in excused',
           txn[q] # << >> /\ v.op = "edge" =>
              /\ \A n \in duty[q].setter :
                    edges'[n[1]][n[2]].expiration = edges[n[1]][n[2]].expiration
              /\ \A n \in notices' : n \notin notices =>
                    /\ ~(n[1] = v.group /\ n[2] = v.member)
                    /\ ~(n[2] = v.group /\ n[3] = v.member)
              /\ \A u \in Users :
                    v.member \in Groups /\ edges[v.member][u].role \in OwnerRoles
                    => edges'[v.member][u].role \in OwnerRoles
              /\ edges[v.group][v.member].role \in OwnerRoles
                 => edges'[v.group][v.member].role \in OwnerRoles
    PROVE  Knows(txn[q], duty[q])'
<1> SUFFICES ASSUME txn[q] # << >>, v.op = "edge"
             PROVE  /\ DatesRead(duty[q])' /\ OldCancelled(txn[q], duty[q])'
                    /\ RecipientsOwn(v, duty[q])' /\ DemotionFound(v, duty[q])'
                    /\ PromotionMade(v, duty[q])'
  BY DEF Knows
<1>1. /\ DatesRead(duty[q]) /\ OldCancelled(txn[q], duty[q])
      /\ RecipientsOwn(v, duty[q]) /\ DemotionFound(v, duty[q])
      /\ PromotionMade(v, duty[q])
  BY DEF Knows
<1>2. duty[q] \in Duty /\ v.group \in Groups
  <2>1. txn[q] \in Seq(SafeWrite)
    BY DEF NoticeInv, IInv
  <2> QED
    BY <2>1, HeadAbout DEF NoticeInv
<1>3. DatesRead(duty[q])'
  BY <1>1 DEF DatesRead
<1>4. OldCancelled(txn[q], duty[q])'
  BY <1>1 DEF OldCancelled, Dates
<1>5. RecipientsOwn(v, duty[q])'
  BY <1>1, <1>2 DEF RecipientsOwn, Duty
<1>6. DemotionFound(v, duty[q])'
  <2>1. now \in Nat /\ \A n \in notices : n[4] \in Nat
    BY DEF NoticeInv, IInv, TypedNotices, Notice
  <2> SUFFICES ASSUME v.member \in Users, "role" \in v.changes.keys,
                      v.changes.role \notin OwnerRoles, NEW n \in notices',
                      n[2] = v.group, n[3] = v.member, n[4] > now',
                      <<n[1], n[2]>> \notin excused'
               PROVE  \E k \in duty[q].setter : SameNotice(n, k)
    BY DEF DemotionFound
  <2>2. n \in notices /\ n[4] > now /\ <<n[1], n[2]>> \notin excused
    BY <1>2, <2>1
  <2> QED
    BY <1>1, <2>2 DEF DemotionFound
<1>7. PromotionMade(v, duty[q])'
  BY <1>1 DEF PromotionMade
<1> QED
  BY <1>3, <1>4, <1>5, <1>6, <1>7

-----------------------------------------------------------------------------
(* The steps that set no notices.                                          *)

\* A group's membership with a notice out stays excused.
LEMMA GroupExcuseStays ==
    ASSUME NEW set, excused' = StillExcused(set), NEW n \in notices',
           n[2] \in Groups, <<n[1], n[2]>> \in set
    PROVE  <<n[1], n[2]>> \in excused'
<1>1. n[2] \notin Users
  BY MembershipAssumption
<1> QED
  BY <1>1 DEF StillExcused

\* A process stays at work on a membership while another one takes a step.
LEMMA OthersStayInWork ==
    ASSUME NoticeInv, NEW p \in Procs, NEW list, txn' = [txn EXCEPT ![p] = list],
           NEW g, NEW m, InWork(g, m), ~InWork(g, m)'
    PROVE  /\ txn[p] # << >> /\ Head(txn[p]).op = "edge"
           /\ Head(txn[p]).group = g /\ Head(txn[p]).member = m
<1>1. PICK q \in Procs : /\ txn[q] # << >> /\ Head(txn[q]).op = "edge"
                         /\ Head(txn[q]).group = g /\ Head(txn[q]).member = m
  BY DEF InWork
<1>2. q # p => txn'[q] = txn[q]
  BY DEF NoticeInv, IInv
<1> QED
  BY <1>1, <1>2 DEF InWork

\* Filing a request and creating a group leave the rows that there are.
LEMMA InsertionsLeaveRows ==
    ASSUME NoticeInv, NEW p \in Procs, CommitFiledRequest(p) \/ CommitCreate(p)
    PROVE  /\ \A g \in Groups, m \in Members :
                 edges[g][m].row => edges'[g][m] = edges[g][m]
           /\ \A g \in Groups : groupStatus[g] = "enabled" => groupStatus'[g] = "enabled"
<1>0. edges \in [Groups -> [Members -> Edge]]
  BY DEF NoticeInv, IInv, SafeEdges
<1>1. PICK w : w = Head(txn[p])
  OBVIOUS
<1>2. \/ edges' = edges
      \/ \E row : /\ edges' = [edges EXCEPT ![w.group][w.member] = row]
                  /\ ~edges[w.group][w.member].row
                     \/ groupStatus[w.group] = "absent"
  BY <1>1 DEF CommitFiledRequest, CommitCreate, Current, Conflicts
<1>3. ASSUME NEW row, edges' = [edges EXCEPT ![w.group][w.member] = row],
             ~edges[w.group][w.member].row \/ groupStatus[w.group] = "absent",
             NEW g \in Groups, NEW m \in Members, edges[g][m].row
      PROVE  edges'[g][m] = edges[g][m]
  <2>1. groupStatus[g] # "absent"
    BY <1>3 DEF NoticeInv, RowInv
  <2>2. ~(g = w.group /\ m = w.member)
    BY <1>3, <2>1
  <2> QED
    BY <1>0, <1>3, <2>2
<1>4. groupStatus' = groupStatus \/ groupStatus' = [groupStatus EXCEPT ![w.group] = "enabled"]
  BY <1>1 DEF CommitFiledRequest, CommitCreate
<1>5. groupStatus \in [Groups -> {"absent", "enabled", "disabled"}]
  BY DEF NoticeInv, IInv
<1> QED
  BY <1>2, <1>3, <1>4, <1>5

\* A setter goes on cancelling while another process takes a step.
LEMMA OthersGoOnCancelling ==
    ASSUME NEW p \in Procs,
           \A q \in Procs \ {p} : txn'[q] = txn[q] /\ duty'[q] = duty[q],
           NEW n, BeingCancelled(n),
           ~(Demoting(p) /\ \E k \in duty[p].setter : SameNotice(n, k))
    PROVE  BeingCancelled(n)'
<1>1. PICK q \in Procs : Demoting(q) /\ \E k \in duty[q].setter : SameNotice(n, k)
  BY DEF BeingCancelled
<1>2. q # p
  BY <1>1
<1>3. txn'[q] = txn[q] /\ duty'[q] = duty[q]
  BY <1>2
<1>4. Demoting(q)'
  BY <1>1, <1>3 DEF Demoting
<1> QED
  BY <1>1, <1>3, <1>4 DEF BeingCancelled, SameNotice

\* What a step that sets no notices must do: leave the rows their roles, and excuse
\* the memberships that it takes out of force and the notices that stay.
LEMMA QuietKeepsOwnersTold ==
    ASSUME NoticeInv, NoticesHaveTheDate, OwnersTold, now' \in Nat, now' >= now,
           notices' \subseteq notices,
           \A g \in Groups, m \in Members :
              edges[g][m].row => edges'[g][m].role = edges[g][m].role,
           \A n \in notices' : n[2] \in Groups =>
              /\ <<n[1], n[2]>> \in excused => <<n[1], n[2]>> \in excused'
              /\ BeingCancelled(n) => BeingCancelled(n)' \/ <<n[1], n[2]>> \in excused'
              /\ edges[n[1]][n[2]].row /\ (InForce(n[1], n[2]) \/ InWork(n[1], n[2]))
                 => \/ InForce(n[1], n[2])' \/ InWork(n[1], n[2])'
                    \/ <<n[1], n[2]>> \in excused'
    PROVE  OwnersTold'
<1> SUFFICES ASSUME NEW n \in notices', n[2] \in Groups, n[4] > now',
                    <<n[1], n[2]>> \notin excused'
             PROVE  /\ BeingCancelled(n)' \/ edges'[n[2]][n[3]].role \in OwnerRoles
                    /\ InForce(n[1], n[2])' \/ InWork(n[1], n[2])'
  BY DEF OwnersTold
<1>1. n \in notices /\ now \in Nat /\ n[4] \in Nat /\ n[4] # Forever
  BY DEF NoticeInv, IInv, TypedNotices, Notice
<1>2. n[1] \in Groups /\ n[2] \in Members /\ n[3] \in Members
  BY <1>1, Memberships DEF NoticeInv, TypedNotices, Notice
<1>3. n[4] > now /\ <<n[1], n[2]>> \notin excused
  BY <1>1
<1>4. /\ BeingCancelled(n) \/ edges[n[2]][n[3]].role \in OwnerRoles
      /\ InForce(n[1], n[2]) \/ InWork(n[1], n[2])
  BY <1>1, <1>3 DEF OwnersTold
<1>5. edges[n[2]][n[3]].role \in OwnerRoles => edges[n[2]][n[3]].row
  BY <1>2 DEF NoticeInv, RowInv, OwnerRoles
<1>6. edges[n[1]][n[2]].row
  BY <1>1, <1>2 DEF NoticeInv, RowInv, NoticesHaveTheDate
<1> QED
  BY <1>2, <1>4, <1>5, <1>6

\* What a process has read stays so while another one sets no notices.
LEMMA QuietKeepsKnowing ==
    ASSUME NoticeInv, NEW q \in Procs, Knows(txn[q], duty[q]), DatesStay,
           txn'[q] = txn[q], duty'[q] = duty[q], now' \in Nat, now' >= now,
           notices' \subseteq notices,
           \A g \in Groups, m \in Members :
              edges[g][m].row => edges'[g][m].role = edges[g][m].role,
           \A n \in notices' : n[2] \in Groups /\ <<n[1], n[2]>> \in excused
                              => <<n[1], n[2]>> \in excused'
    PROVE  Knows(txn[q], duty[q])'
<1>1. PICK v : v = Head(txn[q])
  OBVIOUS
<1>2. \A n \in duty[q].setter :
         edges'[n[1]][n[2]].expiration = edges[n[1]][n[2]].expiration
  <2>1. duty[q] \in Duty
    BY DEF NoticeInv
  <2>2. \A n \in duty[q].setter : n[1] \in Groups /\ n[2] \in Members
    BY <2>1 DEF Duty, Notice
  <2> QED
    BY <2>2 DEF DatesStay
<1>3. \A g \in Groups, m \in Members :
         edges[g][m].role \in OwnerRoles => edges'[g][m].role \in OwnerRoles
  BY DEF NoticeInv, RowInv, OwnerRoles
<1>4. txn[q] # << >> /\ v.op = "edge" => v.group \in Groups /\ v.member \in Members
  BY <1>1, HeadAbout DEF NoticeInv, IInv
<1> QED
  BY <1>1, <1>2, <1>3, <1>4, Memberships, Undisturbed

LEMMA OthersKeepDates ==
    ASSUME NoticeInv, DatesStay, notices' \subseteq notices, NoticesHaveTheDate
    PROVE  NoticesHaveTheDate'
<1>1. \A n \in notices : n[1] \in Groups /\ n[2] \in Members
  BY DEF NoticeInv, TypedNotices, Notice
<1> QED
  BY <1>1 DEF NoticesHaveTheDate, DatesStay

\* A process that does no more on a membership knows what it must.
LEMMA AllKnow ==
    ASSUME ApartInv, NEW p \in Procs,
           txn'[p] # << >> => Head(txn'[p]).op # "edge",
           \A q \in Procs \ {p} : Knows(txn[q], duty[q])'
    PROVE  \A q \in Procs : Knows(txn[q], duty[q])'
BY DEF Knows

LEMMA InsertsKeepApart ==
    ASSUME NoticeInv, IInv', ApartInv, NEW p \in Procs, Inserts(p)
    PROVE  ApartInv'
<1>1. DatesStay /\ now' \in Nat /\ now' >= now
  BY OthersAreQuiet, QuietLeavesDates, QuietTime DEF NoticeInv
<1>2. /\ txn[p] # << >> /\ Head(txn[p]).op # "edge"
      /\ txn' = [txn EXCEPT ![p] = Tail(txn[p])]
      /\ UNCHANGED <<notices, duty, excused>>
  BY DEF Inserts, CommitFiledRequest, CommitCreate, CommitUser, Current, Done
<1>3. txn'[p] = Tail(txn[p]) /\ \A q \in Procs \ {p} : txn'[q] = txn[q] /\ duty'[q] = duty[q]
  BY <1>2 DEF NoticeInv, IInv
<1>4. /\ \A g \in Groups, m \in Members :
            edges[g][m].row => edges'[g][m] = edges[g][m]
      /\ \A g \in Groups : groupStatus[g] = "enabled" => groupStatus'[g] = "enabled"
  <2>1. CASE CommitFiledRequest(p) \/ CommitCreate(p)
    BY <2>1, InsertionsLeaveRows
  <2>2. CASE CommitUser(p)
    BY <2>2 DEF CommitUser
  <2> QED
    BY <2>1, <2>2 DEF Inserts
<1>5. ~Demoting(p)
  BY <1>2 DEF Demoting, NoticeInv, DutyFits
<1>6. OwnersTold'
  <2>1. \A g \in Groups, m \in Groups : edges[g][m].row =>
           /\ InWork(g, m) => InWork(g, m)'
           /\ InForce(g, m) => InForce(g, m)'
    BY <1>2, <1>4, OthersStayInWork, Memberships DEF InForce
  <2>2. \A n \in notices' : n[1] \in Groups
    BY <1>2 DEF NoticeInv, TypedNotices, Notice
  <2>3. \A n : BeingCancelled(n) => BeingCancelled(n)'
    BY <1>3, <1>5, OthersGoOnCancelling
  <2> QED
    BY <1>1, <1>2, <1>4, <2>1, <2>2, <2>3, QuietKeepsOwnersTold DEF ApartInv
<1>7. \A q \in Procs \ {p} : Knows(txn[q], duty[q])'
  BY <1>1, <1>2, <1>3, <1>4, QuietKeepsKnowing DEF ApartInv
<1>8. txn'[p] # << >> => Head(txn'[p]).op # "edge"
  BY <1>2, <1>3, NoEdgeFollows
<1>9. NoticesHaveTheDate'
  BY <1>1, <1>2, OthersKeepDates DEF ApartInv
<1> QED
  BY <1>6, <1>7, <1>8, <1>9, AllKnow DEF ApartInv

LEMMA CommitGroupKeepsApart ==
    ASSUME NoticeInv, IInv', ApartInv, NEW p \in Procs, CommitGroupWithNotices(p)
    PROVE  ApartInv'
<1>0. PICK w : w = Head(txn[p])
  OBVIOUS
<1> DEFINE off == {gm \in Groups \X Groups : w.to = "disabled" /\ w.group \in {gm[1], gm[2]}}
<1>1. DatesStay /\ now' \in Nat /\ now' >= now
  BY OthersAreQuiet, QuietLeavesDates, QuietTime DEF NoticeInv
<1>2. /\ txn[p] # << >> /\ w.op = "group" /\ UNCHANGED <<edges, notices, duty>>
      /\ groupStatus' = [groupStatus EXCEPT ![w.group] = w.to]
      /\ excused' = StillExcused(excused \union off)
      /\ txn' = [txn EXCEPT ![p] = Tail(txn[p])]
  BY <1>0 DEF CommitGroupWithNotices, CommitGroup, Current, Done
<1>3. txn'[p] = Tail(txn[p]) /\ \A q \in Procs \ {p} : txn'[q] = txn[q] /\ duty'[q] = duty[q]
  BY <1>2 DEF NoticeInv, IInv
<1>4. w.to \in {"enabled", "disabled"}
  BY <1>0, <1>2, CurrentWrite
  DEF NoticeInv, SafeWrite, Write, EdgeWrite, FileWrite, CreateWrite, GroupWrite, UserWrite
<1>5. ~Demoting(p)
  BY <1>0, <1>2 DEF Demoting, NoticeInv, DutyFits
<1>6. ASSUME NEW g \in Groups, NEW m \in Groups, InForce(g, m) \/ InWork(g, m)
      PROVE  InForce(g, m)' \/ InWork(g, m)' \/ <<g, m>> \in off
  <2>1. InWork(g, m) => InWork(g, m)'
    BY <1>0, <1>2, OthersStayInWork
  <2>2. groupStatus \in [Groups -> {"absent", "enabled", "disabled"}]
    BY DEF NoticeInv, IInv
  <2>3. InForce(g, m) => InForce(g, m)' \/ <<g, m>> \in off
    BY <1>2, <1>4, <2>2 DEF InForce
  <2> QED
    BY <1>6, <2>1, <2>3
<1> HIDE DEF off
<1>7. \A n \in notices' : n[2] \in Groups =>
         /\ <<n[1], n[2]>> \in excused => <<n[1], n[2]>> \in excused'
         /\ <<n[1], n[2]>> \in off => <<n[1], n[2]>> \in excused'
  BY <1>2, GroupExcuseStays
<1>8. OwnersTold'
  <2>1. \A n \in notices' : n[1] \in Groups
    BY <1>2 DEF NoticeInv, TypedNotices, Notice
  <2>2. \A n : BeingCancelled(n) => BeingCancelled(n)'
    BY <1>3, <1>5, OthersGoOnCancelling
  <2> QED
    BY <1>1, <1>2, <1>6, <1>7, <2>1, <2>2, QuietKeepsOwnersTold DEF ApartInv
<1>9. \A q \in Procs \ {p} : Knows(txn[q], duty[q])'
  BY <1>1, <1>2, <1>3, <1>7, QuietKeepsKnowing DEF ApartInv
<1>10. txn'[p] # << >> => Head(txn'[p]).op # "edge"
  BY <1>0, <1>2, <1>3, NoEdgeFollows
<1>11. NoticesHaveTheDate'
  BY <1>1, <1>2, OthersKeepDates DEF ApartInv
<1> QED
  BY <1>8, <1>9, <1>10, <1>11, AllKnow DEF ApartInv

LEMMA AbortKeepsApart ==
    ASSUME NoticeInv, IInv', ApartInv, NEW p \in Procs, AbortWithNotices(p)
    PROVE  ApartInv'
<1>0. PICK w : w = Head(txn[p])
  OBVIOUS
<1>1. DatesStay /\ now' \in Nat /\ now' >= now
  BY OthersAreQuiet, QuietLeavesDates, QuietTime DEF NoticeInv
<1>2. /\ UNCHANGED <<edges, groupStatus, notices>>
      /\ txn' = [txn EXCEPT ![p] = << >>] /\ duty' = [duty EXCEPT ![p] = NoDuty]
  BY DEF AbortWithNotices, Abort
<1>3. PICK cut :
         /\ excused' = StillExcused(excused \union cut)
         /\ \A gm \in Groups \X Members :
               \/ /\ w.op = "edge" /\ gm = <<w.group, w.member>>
                  /\ gm[2] \in Users => "expiration" \in w.changes.keys
               \/ Demoting(p) /\ \E k \in duty[p].setter : gm = <<k[1], k[2]>>
               => gm \in cut
  <2> DEFINE died ==
           {gm \in Groups \X Members :
               \/ /\ Head(txn[p]).op = "edge"
                  /\ gm = <<Head(txn[p]).group, Head(txn[p]).member>>
                  /\ gm[2] \in Users => "expiration" \in Head(txn[p]).changes.keys
               \/ Demoting(p) /\ \E n \in duty[p].setter : gm = <<n[1], n[2]>>}
  <2>1. excused' = StillExcused(excused \union died)
    BY DEF AbortWithNotices
  <2>2. ASSUME NEW gm \in Groups \X Members,
               \/ /\ w.op = "edge" /\ gm = <<w.group, w.member>>
                  /\ gm[2] \in Users => "expiration" \in w.changes.keys
               \/ Demoting(p) /\ \E k \in duty[p].setter : gm = <<k[1], k[2]>>
        PROVE  gm \in died
    BY <1>0, <2>2
  <2> HIDE DEF died
  <2> QED
    BY <2>1, <2>2
<1>4. txn'[p] = << >> /\ \A q \in Procs \ {p} : txn'[q] = txn[q] /\ duty'[q] = duty[q]
  BY <1>2 DEF NoticeInv, IInv
<1>5. ASSUME NEW g \in Groups, NEW m \in Groups, InForce(g, m) \/ InWork(g, m)
      PROVE  InForce(g, m)' \/ InWork(g, m)' \/ <<g, m>> \in cut
  <2>1. InForce(g, m) => InForce(g, m)'
    BY <1>2 DEF InForce
  <2>2. InWork(g, m) => InWork(g, m)' \/ <<g, m>> \in cut
    BY <1>0, <1>2, <1>3, OthersStayInWork, Memberships
  <2> QED
    BY <1>5, <2>1, <2>2
<1>6. \A n \in notices' : n[2] \in Groups =>
         /\ <<n[1], n[2]>> \in excused => <<n[1], n[2]>> \in excused'
         /\ <<n[1], n[2]>> \in cut => <<n[1], n[2]>> \in excused'
  BY <1>3, GroupExcuseStays
<1>7. \A n \in notices' : n[1] \in Groups /\ n[2] \in Members
  BY <1>2 DEF NoticeInv, TypedNotices, Notice
<1>8. \A n \in notices' : BeingCancelled(n) => BeingCancelled(n)' \/ <<n[1], n[2]>> \in cut
  <2> SUFFICES ASSUME NEW n \in notices', BeingCancelled(n), <<n[1], n[2]>> \notin cut
               PROVE  BeingCancelled(n)'
    OBVIOUS
  <2>1. ~(Demoting(p) /\ \E k \in duty[p].setter : SameNotice(n, k))
    BY <1>3, <1>7 DEF SameNotice
  <2> QED
    BY <1>4, <2>1, OthersGoOnCancelling
<1>9. OwnersTold'
  BY <1>1, <1>2, <1>5, <1>6, <1>7, <1>8, QuietKeepsOwnersTold DEF ApartInv
<1>10. \A q \in Procs \ {p} : Knows(txn[q], duty[q])'
  BY <1>1, <1>2, <1>4, <1>6, QuietKeepsKnowing DEF ApartInv
<1>11. NoticesHaveTheDate'
  BY <1>1, <1>2, OthersKeepDates DEF ApartInv
<1> QED
  BY <1>4, <1>9, <1>10, <1>11, AllKnow DEF ApartInv

LEMMA ElsewhereKeepsApart ==
    ASSUME NoticeInv, IInv', ApartInv, Elsewhere
    PROVE  ApartInv'
<1>1. DatesStay /\ now' \in Nat /\ now' >= now
  BY OthersAreQuiet, QuietLeavesDates, QuietTime DEF NoticeInv
<1>2. UNCHANGED <<groupStatus, txn, duty>> /\ notices' \subseteq notices
  BY DEF Elsewhere, BackgroundWithNotices, Background, LoadExpiredEdges, ExpireEdge,
         ExpiryCrash, SendNotices, Tick, vars
<1>3. \A g \in Groups, m \in Members :
         edges[g][m].row => edges'[g][m].role = edges[g][m].role
  <2>1. ASSUME NEW h \in Groups, NEW k \in Members, ExpireEdge(h, k)
        PROVE  \A g \in Groups, m \in Members : edges'[g][m].role = edges[g][m].role
    <3>1. edges \in [Groups -> [Members -> Edge]]
      BY DEF NoticeInv, IInv, SafeEdges
    <3>2. \A g \in Groups, m \in Members :
             edges'[g][m] = IF g = h /\ m = k THEN [edges[g][m] EXCEPT !.active = FALSE]
                            ELSE edges[g][m]
      BY <2>1, <3>1 DEF ExpireEdge
    <3>3. \A e \in Edge : [e EXCEPT !.active = FALSE].role = e.role
      BY DEF Edge
    <3> QED
      BY <3>1, <3>2, <3>3
  <2>2. \/ edges' = edges
        \/ \E h \in Groups, k \in Members : ExpireEdge(h, k)
    BY DEF Elsewhere, BackgroundWithNotices, Background, LoadExpiredEdges,
           ExpiryCrash, SendNotices, Tick, vars
  <2> QED
    BY <2>1, <2>2
<1>4. PICK ended :
         /\ \A g \in Groups, m \in Groups :
               edges[g][m].active /\ ~edges'[g][m].active => <<g, m>> \in ended
         /\ \/ excused' = StillExcused(excused \union ended)
            \/ excused' = excused /\ ended = {}
  <2>1. CASE BackgroundWithNotices
    <3>1. PICK ended :
             /\ ended = {gm \in Groups \X Groups :
                    edges[gm[1]][gm[2]].active /\ ~edges'[gm[1]][gm[2]].active}
             /\ excused' = StillExcused(excused \union ended)
      BY <2>1 DEF BackgroundWithNotices
    <3> QED
      BY <3>1
  <2>2. CASE SendNotices
    <3>1. edges' = edges /\ excused' = StillExcused(excused \union {})
      BY <2>2 DEF SendNotices, vars
    <3> QED
      BY <3>1
  <2>3. CASE \/ Tick /\ UNCHANGED <<notices, duty, told, excused>>
             \/ UNCHANGED <<vars, notices, duty, told, excused>>
    <3>1. edges' = edges /\ excused' = excused
      BY <2>3 DEF Tick, vars
    <3> QED
      BY <3>1
  <2> QED
    BY <2>1, <2>2, <2>3 DEF Elsewhere
<1>5. \A g \in Groups, m \in Groups :
         InForce(g, m) \/ InWork(g, m)
         => InForce(g, m)' \/ InWork(g, m)' \/ <<g, m>> \in ended
  BY <1>2, <1>4 DEF InForce, InWork
<1>6. \A n \in notices' : n[2] \in Groups =>
         /\ <<n[1], n[2]>> \in excused => <<n[1], n[2]>> \in excused'
         /\ <<n[1], n[2]>> \in ended => <<n[1], n[2]>> \in excused'
  BY <1>4, GroupExcuseStays
<1>7. \A n \in notices' : n[1] \in Groups
  BY <1>2 DEF NoticeInv, TypedNotices, Notice
<1>8. \A n : BeingCancelled(n) => BeingCancelled(n)'
  BY <1>2 DEF BeingCancelled, Demoting
<1>9. OwnersTold'
  BY <1>1, <1>2, <1>3, <1>5, <1>6, <1>7, <1>8, QuietKeepsOwnersTold DEF ApartInv
<1>10. \A q \in Procs : Knows(txn[q], duty[q])'
  BY <1>1, <1>2, <1>3, <1>6, QuietKeepsKnowing DEF ApartInv
<1>11. NoticesHaveTheDate'
  BY <1>1, <1>2, OthersKeepDates DEF ApartInv
<1> QED
  BY <1>9, <1>10, <1>11 DEF ApartInv

-----------------------------------------------------------------------------
(* What a handler reads.                                                   *)

\* Where there is a date to commit and no old one to cancel, no notice is out.
LEMMA NoneToCancel ==
    ASSUME NoticeInv, NoticesHaveTheDate, NEW list \in Seq(SafeWrite),
           ~Cancels(list), Dates(list), NEW n \in notices
    PROVE  ~(n[1] = Head(list).group /\ n[2] = Head(list).member)
<1>1. DOMAIN list = 1..Len(list)
  OBVIOUS
<1>2. edges[Head(list).group][Head(list).member].expiration = Forever
  BY <1>1 DEF Cancels, Dates
<1>3. edges[n[1]][n[2]].expiration # Forever
  BY DEF NoticeInv, TypedNotices, NoticesHaveTheDate
<1> QED
  BY <1>2, <1>3

\* The notices of an owner who is demoted are those that the setter finds.
LEMMA DemotionIsFound ==
    ASSUME NoticeInv, NoticesHaveTheDate, NEW w, w.group \in Groups, w.member \in Users,
           "role" \in w.changes.keys, w.changes.role \notin OwnerRoles,
           NEW n \in notices, n[2] = w.group, n[3] = w.member, n[4] > now,
           edges[n[2]][n[3]].role \in OwnerRoles, InForce(n[1], n[2])
    PROVE  \E k \in SetterNotices(w) : SameNotice(n, k)
<1>1. n[1] \in Groups /\ n[2] \in Members
  BY DEF NoticeInv, TypedNotices, Notice
<1>2. edges[n[1]][n[2]].expiration = n[4] /\ n[4] # Forever
  BY DEF NoticeInv, TypedNotices, NoticesHaveTheDate
<1>3. edges[n[1]][n[2]].row
  BY <1>1, <1>2 DEF NoticeInv, RowInv
<1>4. n[2] \notin Users
  BY Memberships
<1>5. n[1] \in ExpiringSupergroups(w.group)
  BY <1>1, <1>2, <1>3, <1>4 DEF ExpiringSupergroups, IsMember, Enabled, Unexpired, InForce
<1>6. ChangesOwnership(w)
  BY DEF ChangesOwnership
<1>7. PICK k : k = <<n[1], w.group, w.member, edges[n[1]][w.group].expiration>>
  OBVIOUS
<1>8. k \in SetterNotices(w)
  BY <1>5, <1>6, <1>7 DEF SetterNotices
<1>9. SameNotice(n, k)
  BY <1>7 DEF SameNotice
<1> QED
  BY <1>8, <1>9

LEMMA ServesKnow ==
    ASSUME NoticeInv, NoticeInv', ApartInv, Apart', OwnersApart',
           NEW p \in Procs, Serves(p)
    PROVE  Knows(txn[p], duty[p])'
<1>0. PICK list, d : list = txn'[p] /\ d = duty'[p]
  OBVIOUS
<1>1. /\ UNCHANGED <<edges, groupStatus, notices, excused, now>>
      /\ Idle(p) /\ d = DutyOf(list)
      /\ \A q \in Procs \ {p} : txn'[q] = txn[q] /\ duty'[q] = duty[q]
      /\ list \in Seq(SafeWrite) /\ DutyFits(list, d)
  BY <1>0 DEF Serves, Prepares, Begin, NoticeInv, IInv
<1> SUFFICES ASSUME list # << >>, Head(list).op = "edge"
             PROVE  /\ DatesRead(d)' /\ OldCancelled(list, d)'
                    /\ RecipientsOwn(Head(list), d)' /\ DemotionFound(Head(list), d)'
                    /\ PromotionMade(Head(list), d)'
  BY <1>0 DEF Knows
<1>2. PICK w : w = Head(list)
  OBVIOUS
<1>3. w.group \in Groups /\ w.member \in Members /\ About(list, w.group, w.member)
  BY <1>1, <1>2, HeadAbout
<1>4. /\ d.setter = SetterNotices(w) /\ d.recipients = Recipients(w.member)
      /\ d.cancel = IF SetterNotices(w) = {} THEN CancelDuty(list) ELSE "unread"
  BY <1>1, <1>2 DEF DutyOf
<1>5. DatesRead(d)'
  BY <1>1, <1>4 DEF DatesRead, SetterNotices
<1>6. OldCancelled(list, d)'
  <2>1. d.cancel = "no" => ~Cancels(list)
    BY <1>4 DEF CancelDuty
  <2> QED
    BY <1>1, <2>1, NoneToCancel DEF OldCancelled, ApartInv, Dates
<1>7. RecipientsOwn(w, d)'
  BY <1>1, <1>4, Memberships DEF RecipientsOwn, Recipients, OwnersOf
<1>8. DemotionFound(w, d)'
  <2> SUFFICES ASSUME w.member \in Users, "role" \in w.changes.keys,
                      w.changes.role \notin OwnerRoles, NEW n \in notices,
                      n[2] = w.group, n[3] = w.member, n[4] > now,
                      <<n[1], n[2]>> \notin excused
               PROVE  \E k \in d.setter : SameNotice(n, k)
    BY <1>1 DEF DemotionFound
  <2>1. n[1] \in Groups
    BY DEF NoticeInv, TypedNotices, Notice
  <2>2. /\ BeingCancelled(n) \/ edges[n[2]][n[3]].role \in OwnerRoles
        /\ InForce(n[1], n[2]) \/ InWork(n[1], n[2])
    BY <1>3 DEF ApartInv, OwnersTold
  <2>3. ~BeingCancelled(n)
    <3> SUFFICES ASSUME BeingCancelled(n) PROVE FALSE
      OBVIOUS
    <3>1. PICK q \in Procs : Demoting(q) /\ \E k \in duty[q].setter : SameNotice(n, k)
      BY DEF BeingCancelled
    <3>2. /\ txn[q] # << >> /\ Head(txn[q]).op = "edge"
          /\ Head(txn[q]).group = n[2] /\ Head(txn[q]).member = n[3]
      BY <3>1 DEF Demoting, SameNotice, NoticeInv, DutyFits
    <3>3. q # p /\ txn'[q] = txn[q]
      BY <1>1, <3>2 DEF Idle
    <3>4. About(txn'[q], w.group, w.member)
      BY <3>2, <3>3, HeadAbout DEF NoticeInv, IInv
    <3> QED
      BY <1>0, <1>3, <3>3, <3>4 DEF Apart
  <2>4. ~InWork(n[1], n[2])
    <3> SUFFICES ASSUME InWork(n[1], n[2]) PROVE FALSE
      OBVIOUS
    <3>1. PICK q \in Procs : /\ txn[q] # << >> /\ Head(txn[q]).op = "edge"
                             /\ Head(txn[q]).group = n[1] /\ Head(txn[q]).member = n[2]
      BY DEF InWork
    <3>2. q # p /\ txn'[q] = txn[q]
      BY <1>1, <3>1 DEF Idle
    <3>3. InWork(n[1], n[2])'
      BY <3>1, <3>2 DEF InWork
    <3>4. InWork(w.group, w.member)'
      BY <1>0, <1>2 DEF InWork
    <3> QED
      BY <1>3, <2>1, <3>3, <3>4 DEF OwnersApart
  <2> QED
    BY <1>3, <1>4, <2>2, <2>3, <2>4, DemotionIsFound DEF ApartInv
<1>9. PromotionMade(w, d)'
  BY <1>4 DEF PromotionMade, SetterNotices, ChangesOwnership
<1> QED
  BY <1>2, <1>5, <1>6, <1>7, <1>8, <1>9

LEMMA ServesKeepsApart ==
    ASSUME NoticeInv, NoticeInv', ApartInv, Apart', OwnersApart',
           NEW p \in Procs, Serves(p)
    PROVE  ApartInv'
<1>1. DatesStay /\ now' \in Nat /\ now' >= now
  BY OthersAreQuiet, QuietLeavesDates, QuietTime DEF NoticeInv
<1>2. PICK list : /\ Idle(p) /\ txn' = [txn EXCEPT ![p] = list]
                  /\ UNCHANGED <<edges, groupStatus, notices, excused>>
                  /\ \A q \in Procs \ {p} : txn'[q] = txn[q] /\ duty'[q] = duty[q]
  BY DEF Serves, Prepares, Begin, NoticeInv, IInv
<1>3. ~Demoting(p)
  BY <1>2 DEF Demoting, Idle
<1>4. OwnersTold'
  <2>1. \A g, m : /\ InWork(g, m) => InWork(g, m)'
                  /\ InForce(g, m) => InForce(g, m)'
    BY <1>2, OthersStayInWork DEF InForce, Idle
  <2>2. \A n : BeingCancelled(n) => BeingCancelled(n)'
    BY <1>2, <1>3, OthersGoOnCancelling
  <2> QED
    BY <1>1, <1>2, <2>1, <2>2, QuietKeepsOwnersTold DEF ApartInv
<1>5. \A q \in Procs \ {p} : Knows(txn[q], duty[q])'
  BY <1>1, <1>2, QuietKeepsKnowing DEF ApartInv
<1>6. NoticesHaveTheDate'
  BY <1>1, <1>2, OthersKeepDates DEF ApartInv
<1> QED
  BY <1>4, <1>5, <1>6, ServesKnow DEF ApartInv

-----------------------------------------------------------------------------
(* The steps that write notices.                                           *)

\* What such a step does to the roles, and to the list that it is taken from.
LEMMA WriteRoles ==
    ASSUME NoticeInv, NEW p \in Procs, Writes(p), NEW w, w = Head(txn[p])
    PROVE  /\ edges[w.group][w.member].role \in OwnerRoles =>
                 \/ edges'[w.group][w.member].role \in OwnerRoles
                 \/ /\ CommitEdge(p) /\ "role" \in w.changes.keys
                    /\ w.changes.role \notin OwnerRoles
           /\ CommitEdge(p) /\ "role" \in w.changes.keys =>
                 edges'[w.group][w.member].role = w.changes.role
           /\ ~CommitEdge(p) => edges' = edges
<1>1. w.group \in Groups /\ w.member \in Members
  BY WriteFacts
<1>2. ~CommitEdge(p) => edges' = edges
  BY DEF Writes, CommitRole, AdjustNotice, Reload, CancelAlone, CommitWithNotices, vars
<1>3. ASSUME CommitEdge(p)
      PROVE  /\ edges[w.group][w.member].row =>
                   edges'[w.group][w.member].role =
                       IF "role" \in w.changes.keys THEN w.changes.role
                       ELSE edges[w.group][w.member].role
             /\ "role" \in w.changes.keys =>
                   edges'[w.group][w.member].role = w.changes.role
  <2>1. /\ txn[p] # << >> /\ ~Conflicts(w) /\ w.op = "edge"
        /\ edges' = [edges EXCEPT ![w.group][w.member] = ApplyChanges(Row(w), w.changes)]
    BY <1>3 DEF CommitEdge, Current, Row
  <2>2. edges \in [Groups -> [Members -> Edge]]
    BY DEF NoticeInv, IInv, SafeEdges
  <2>3. edges'[w.group][w.member] = ApplyChanges(Row(w), w.changes)
    BY <1>1, <2>1, <2>2
  <2>4. edges[w.group][w.member].row => Row(w) = edges[w.group][w.member]
    BY <2>1 DEF Conflicts, Row
  <2>5. \A e \in Edge : ApplyChanges(e, w.changes).role =
           IF "role" \in w.changes.keys THEN w.changes.role ELSE e.role
    BY DEF ApplyChanges, Edge
  <2>6. edges[w.group][w.member] \in Edge /\ Row(w) \in Edge
    <3>1. w.role \in Roles
      BY <2>1, CurrentWrite
      DEF NoticeInv, SafeWrite, Write, EdgeWrite, FileWrite, CreateWrite, GroupWrite, UserWrite
    <3> QED
      BY <1>1, <2>2, <3>1, NewEdgeType DEF Row
  <2> QED
    BY <2>3, <2>4, <2>5, <2>6
<1>4. edges[w.group][w.member].role \in OwnerRoles => edges[w.group][w.member].row
  BY <1>1 DEF NoticeInv, RowInv, OwnerRoles
<1> QED
  BY <1>2, <1>3, <1>4

\* The list goes on with the same membership, and with the same role, which is
\* committed first.
LEMMA WriteRest ==
    ASSUME NoticeInv, NEW p \in Procs, Writes(p), NEW w, w = Head(txn[p]),
           NEW t, t = txn'[p]
    PROVE  /\ t # << >> =>
                 /\ Head(t).op = "edge" /\ Head(t).group = w.group
                 /\ Head(t).member = w.member /\ Head(t).changes.role = w.changes.role
                 /\ CommitEdge(p) => "role" \notin Head(t).changes.keys
           /\ ~CommitEdge(p) => t = txn[p] /\ t # << >>
           /\ CommitWithNotices(p) /\ Dates(t) =>
                 Dates(txn[p]) /\ "expiration" \notin w.changes.keys
<1>1. txn[p] # << >> /\ w.op = "edge" /\ IInv /\ OneMembership(txn[p])
  BY WriteFacts DEF NoticeInv
<1>2. CommitEdge(p) => t = Tail(txn[p])
  BY DutyAfter
<1>3. ~CommitEdge(p) => t = txn[p]
  BY DEF Writes, CommitRole, AdjustNotice, Reload, CancelAlone, CommitWithNotices, vars
<1>4. CommitEdge(p) => Follows(txn[p], t)
  BY <1>1, <1>2, RestOfList
<1>5. CommitWithNotices(p) => CommitEdge(p)
  BY DEF CommitWithNotices
<1> QED
  BY <1>1, <1>3, <1>4, <1>5 DEF Follows

\* A group's membership with a notice out stays excused.
LEMMA WritesKeepExcused ==
    ASSUME NoticeInv, NEW p \in Procs, Writes(p), NEW n \in notices', n[2] \in Groups,
           <<n[1], n[2]>> \in excused
    PROVE  <<n[1], n[2]>> \in excused'
<1>1. <<n[1], n[2]>> \in ExcusedBy(p)
  <2>1. Head(txn[p]).member \in Users => <<n[1], n[2]>> # <<Head(txn[p]).group, Head(txn[p]).member>>
    BY MembershipAssumption
  <2> QED
    BY <2>1 DEF ExcusedBy
<1>2. \/ excused' = excused
      \/ \E set : <<n[1], n[2]>> \in set /\ excused' = StillExcused(set)
  BY <1>1 DEF Writes, CommitRole, AdjustNotice, Reload, CancelAlone, CommitWithNotices
<1> QED
  BY <1>2, GroupExcuseStays

\* What another process has read stays so.
LEMMA WritesLeaveOthers ==
    ASSUME NoticeInv, IInv', ApartInv, Apart, OwnersApart, NEW p \in Procs, Writes(p),
           NEW q \in Procs \ {p}
    PROVE  Knows(txn[q], duty[q])'
<1>1. PICK w, v : w = Head(txn[p]) /\ v = Head(txn[q])
  OBVIOUS
<1>2. /\ txn[p] # << >> /\ w.op = "edge" /\ now' = now
      /\ w.group \in Groups /\ w.member \in Members
      /\ txn'[q] = txn[q] /\ duty'[q] = duty[q]
      /\ \A g \in Groups, m \in Members :
            ~(g = w.group /\ m = w.member) => edges'[g][m] = edges[g][m]
  BY <1>1, WriteFacts
<1>3. now' \in Nat /\ now' >= now
  BY <1>2 DEF IInv
<1>4. InWork(w.group, w.member) /\ About(txn[p], w.group, w.member)
  <2>1. txn[p] \in Seq(SafeWrite)
    BY DEF NoticeInv, IInv
  <2> QED
    BY <1>1, <1>2, <2>1, HeadAbout DEF InWork
<1>5. ASSUME txn[q] # << >>, v.op = "edge"
      PROVE  /\ \A n \in duty[q].setter :
                   edges'[n[1]][n[2]].expiration = edges[n[1]][n[2]].expiration
             /\ \A n \in notices' : n \notin notices =>
                   /\ ~(n[1] = v.group /\ n[2] = v.member)
                   /\ ~(n[2] = v.group /\ n[3] = v.member)
             /\ \A u \in Users :
                   v.member \in Groups /\ edges[v.member][u].role \in OwnerRoles
                   => edges'[v.member][u].role \in OwnerRoles
             /\ edges[v.group][v.member].role \in OwnerRoles
                => edges'[v.group][v.member].role \in OwnerRoles
  <2>1. /\ v.group \in Groups /\ v.member \in Members
        /\ InWork(v.group, v.member) /\ About(txn[q], v.group, v.member)
    <3>1. txn[q] \in Seq(SafeWrite)
      BY DEF NoticeInv, IInv
    <3> QED
      BY <1>1, <1>5, <3>1, HeadAbout DEF InWork
  <2>2. ~(v.group = w.group /\ v.member = w.member)
    BY <1>2, <1>4, <2>1 DEF Apart
  <2>3. ~(w.member = v.group /\ v.member \in Users)
    BY <1>2, <1>4, <2>1 DEF OwnersApart
  <2>4. ~(v.member = w.group /\ w.member \in Users)
    BY <1>2, <1>4, <2>1 DEF OwnersApart
  <2>5. ASSUME NEW n \in duty[q].setter
        PROVE  edges'[n[1]][n[2]].expiration = edges[n[1]][n[2]].expiration
    <3>1. DutyFits(txn[q], duty[q]) /\ duty[q] \in Duty
      BY DEF NoticeInv
    <3>2. n[1] \in Groups /\ n[2] = v.group /\ v.member \in Users
      BY <1>1, <3>1 DEF DutyFits, Duty, Notice
    <3> QED
      BY <1>2, <2>1, <2>3, <3>2, Memberships
  <2>6. ASSUME NEW n \in notices', n \notin notices
        PROVE  /\ ~(n[1] = v.group /\ n[2] = v.member)
               /\ ~(n[2] = v.group /\ n[3] = v.member)
    <3>1. \/ n[2] = w.group /\ n[3] = w.member /\ w.member \in Users
          \/ n[1] = w.group /\ n[2] = w.member /\ n[3] \in Users
      <4>1. n \in Notice => n[3] \in Users
        BY DEF Notice
      <4>2. \/ /\ n[2] = w.group /\ n[3] = w.member /\ w.member \in Users
            \/ /\ n = <<w.group, w.member, n[3], w.changes.expiration>>
               /\ n \in Notice
        BY <1>1, <2>6, WritesAdd
      <4> QED
        BY <4>1, <4>2
    <3> QED
      BY <2>2, <2>3, <2>4, <3>1
  <2>7. ASSUME NEW u \in Users, v.member \in Groups
        PROVE  edges'[v.member][u] = edges[v.member][u]
    BY <1>2, <2>4, <2>7, Memberships
  <2>8. edges'[v.group][v.member] = edges[v.group][v.member]
    BY <1>2, <2>1, <2>2
  <2> QED
    BY <2>5, <2>6, <2>7, <2>8
<1>6. \A n \in notices' : n[2] \in Groups /\ <<n[1], n[2]>> \in excused
                         => <<n[1], n[2]>> \in excused'
  BY WritesKeepExcused
<1>7. Knows(txn[q], duty[q])
  BY DEF ApartInv
<1> QED
  BY <1>1, <1>2, <1>3, <1>5, <1>6, <1>7, Undisturbed

\* What the process itself has yet to do is about what it leaves.
LEMMA WritesKnow ==
    ASSUME NoticeInv, NoticeInv', ApartInv, NEW p \in Procs, Writes(p)
    PROVE  Knows(txn[p], duty[p])'
<1>1. PICK w, d, t, e : w = Head(txn[p]) /\ d = duty[p] /\ t = txn'[p] /\ e = duty'[p]
  OBVIOUS
<1>2. /\ txn[p] # << >> /\ w.op = "edge" /\ now' = now
      /\ w.group \in Groups /\ w.member \in Members
      /\ \A g \in Groups, m \in Members :
            ~(g = w.group /\ m = w.member) => edges'[g][m] = edges[g][m]
  BY <1>1, WriteFacts
<1>3. /\ DatesRead(d) /\ OldCancelled(txn[p], d) /\ RecipientsOwn(w, d)
      /\ DemotionFound(w, d) /\ PromotionMade(w, d)
  BY <1>1, <1>2 DEF ApartInv, Knows
<1>4. d \in Duty /\ DutyFits(txn[p], d)
  BY <1>1 DEF NoticeInv
<1> SUFFICES ASSUME t # << >>
             PROVE  /\ DatesRead(e)' /\ OldCancelled(t, e)'
                    /\ RecipientsOwn(Head(t), e)' /\ DemotionFound(Head(t), e)'
                    /\ PromotionMade(Head(t), e)'
  BY <1>1 DEF Knows
<1>5. PICK v : v = Head(t)
  OBVIOUS
<1>6. /\ v.group = w.group /\ v.member = w.member /\ v.changes.role = w.changes.role
      /\ CommitEdge(p) => "role" \notin v.changes.keys
      /\ ~CommitEdge(p) => t = txn[p] /\ v = w
  BY <1>1, <1>5, WriteRest
<1>7. /\ e.recipients = d.recipients /\ e.setter \subseteq d.setter
      /\ CommitRole(p) \/ AdjustNotice(p) => e.cancel = "unread"
      /\ e.setter # {} => CommitRole(p) \/ AdjustNotice(p)
  <2>1. e.recipients = d.recipients
    BY <1>1, DutyAfter DEF Writes
  <2>2. CommitRole(p) \/ AdjustNotice(p) => e.cancel = "unread"
    BY <1>1, DutyAfter
  <2>3. Reload(p) \/ CancelAlone(p) \/ CommitWithNotices(p) => e.setter = {}
    BY <1>1, DutyAfter
  <2>4. ASSUME CommitRole(p) \/ AdjustNotice(p)
        PROVE  e.setter \subseteq d.setter
    <3>1. PICK n : duty' = [duty EXCEPT ![p].setter = StillToAdjust(@, n)]
      BY <2>4 DEF CommitRole, AdjustNotice
    <3>2. e = [d EXCEPT !.setter = StillToAdjust(@, n)]
      BY <1>1, <3>1 DEF NoticeInv
    <3> QED
      BY <1>4, <3>2 DEF Duty, StillToAdjust
  <2> QED
    BY <2>1, <2>2, <2>3, <2>4 DEF Writes
<1>8. DatesRead(e)'
  <2> SUFFICES ASSUME NEW n \in e.setter
               PROVE  edges'[n[1]][n[2]].expiration = n[4]
    BY <1>1 DEF DatesRead
  <2>1. n[1] \in Groups /\ n[2] = w.group /\ w.member \in Users
    BY <1>1, <1>4, <1>7 DEF DutyFits, Duty, Notice
  <2> QED
    BY <1>2, <1>3, <1>7, <2>1, Memberships DEF DatesRead
<1>9. OldCancelled(t, e)'
  <2> SUFFICES ASSUME e.setter = {}, e.cancel = "no", Dates(t), NEW n \in notices'
               PROVE  ~(n[1] = w.group /\ n[2] = w.member)
    BY <1>1, <1>5, <1>6 DEF OldCancelled, Dates
  <2>1. ~CommitRole(p) /\ ~AdjustNotice(p)
    BY <1>7
  <2>2. CASE Reload(p)
    <3>1. e.cancel = CancelDuty(txn[p]) /\ t = txn[p]
      BY <1>1, <2>2, DutyAfter
    <3>2. ~Cancels(txn[p]) /\ Dates(txn[p])
      BY <3>1 DEF CancelDuty
    <3>3. n \in notices /\ txn[p] \in Seq(SafeWrite)
      BY <2>2 DEF Reload, NoticeInv, IInv
    <3> QED
      BY <1>1, <3>2, <3>3, NoneToCancel DEF ApartInv
  <2>3. CASE CancelAlone(p)
    BY <1>1, <2>3 DEF CancelAlone, CancelExpiration
  <2>4. CASE CommitWithNotices(p)
    <3>1. Dates(txn[p]) /\ "expiration" \notin w.changes.keys
      BY <1>1, <2>4, WriteRest
    <3>2. n \in IF d.cancel = "yes" THEN CancelExpiration(w) ELSE notices
      BY <1>1, <2>4, <3>1, AddedNotices DEF CommitWithNotices
    <3>3. d.setter = {} /\ d.cancel # "unread"
      BY <1>1, <2>4 DEF CommitWithNotices
    <3>4. CASE d.cancel = "yes"
      BY <3>2, <3>4 DEF CancelExpiration
    <3>5. CASE d.cancel = "no"
      BY <1>1, <1>3, <3>1, <3>2, <3>3, <3>5 DEF OldCancelled
    <3> QED
      BY <1>4, <3>3, <3>4, <3>5 DEF Duty
  <2> QED
    BY <2>1, <2>2, <2>3, <2>4 DEF Writes
<1>10. RecipientsOwn(v, e)'
  <2>1. ASSUME w.member \in Groups, NEW u \in d.recipients
        PROVE  edges'[w.member][u].role \in OwnerRoles
    <3>1. u \in Users /\ edges[w.member][u].role \in OwnerRoles
      BY <1>3, <1>4, <2>1 DEF RecipientsOwn, Duty
    <3> QED
      BY <1>2, <2>1, <3>1, Memberships
  <2> QED
    BY <1>1, <1>6, <1>7, <2>1 DEF RecipientsOwn
<1>11. DemotionFound(v, e)'
  <2> SUFFICES ASSUME w.member \in Users, "role" \in v.changes.keys,
                      w.changes.role \notin OwnerRoles, NEW n \in notices',
                      n[2] = w.group, n[3] = w.member, n[4] > now,
                      <<n[1], n[2]>> \notin excused'
               PROVE  \E k \in e.setter : SameNotice(n, k)
    BY <1>1, <1>2, <1>6 DEF DemotionFound, SameNotice
  <2>1. v = w /\ (Reload(p) \/ CancelAlone(p))
    BY <1>1, <1>6 DEF Writes, CommitRole, AdjustNotice, CommitWithNotices
  <2>2. n \in notices /\ <<n[1], n[2]>> \notin excused
    <3>1. <<n[1], n[2]>> \notin excused
      BY <1>2, WritesKeepExcused
    <3> QED
      BY <2>1, <3>1 DEF Reload, CancelAlone, CancelExpiration
  <2>3. \E k \in d.setter : SameNotice(n, k)
    BY <1>3, <2>1, <2>2 DEF DemotionFound
  <2>4. d.setter = {}
    BY <1>1, <1>4, <2>1 DEF Reload, CancelAlone, DutyFits
  <2> QED
    BY <2>3, <2>4
<1>12. PromotionMade(v, e)'
  <2> SUFFICES ASSUME e.setter # {}, w.changes.role \in OwnerRoles,
                      "role" \notin v.changes.keys
               PROVE  edges'[w.group][w.member].role \in OwnerRoles
    BY <1>1, <1>6 DEF PromotionMade
  <2>1. CASE CommitRole(p)
    <3>1. CommitEdge(p) /\ "role" \in w.changes.keys
      BY <1>1, <2>1 DEF CommitRole
    <3> QED
      BY <1>1, <3>1, WriteRoles
  <2>2. CASE AdjustNotice(p)
    <3>1. d.setter # {} /\ "role" \notin w.changes.keys /\ edges' = edges
      BY <1>1, <2>2 DEF AdjustNotice, vars
    <3> QED
      BY <1>3, <3>1 DEF PromotionMade
  <2> QED
    BY <1>7, <2>1, <2>2
<1> QED
  BY <1>5, <1>8, <1>9, <1>10, <1>11, <1>12

LEMMA WritesKeepDates ==
    ASSUME NoticeInv, ApartInv, NEW p \in Procs, Writes(p)
    PROVE  NoticesHaveTheDate'
<1>1. PICK w, d : w = Head(txn[p]) /\ d = duty[p]
  OBVIOUS
<1>2. /\ txn[p] # << >> /\ w.op = "edge"
      /\ w.group \in Groups /\ w.member \in Members
      /\ \A g \in Groups, m \in Members :
            ~(g = w.group /\ m = w.member) => edges'[g][m] = edges[g][m]
  BY <1>1, WriteFacts
<1>3. DatesRead(d) /\ OldCancelled(txn[p], d)
  BY <1>1, <1>2 DEF ApartInv, Knows
<1>4. d \in Duty /\ OneMembership(txn[p]) /\ IInv
  BY <1>1 DEF NoticeInv
<1> SUFFICES ASSUME NEW n \in notices'
             PROVE  edges'[n[1]][n[2]].expiration = n[4]
  BY DEF NoticesHaveTheDate
<1>5. CASE n \notin notices
  <2>1. CASE n \in d.setter /\ n \in Notice /\ n[2] = w.group /\ w.member \in Users
    <3>1. n[1] \in Groups /\ n[2] # w.member
      BY <1>2, <2>1, Memberships DEF Notice
    <3> QED
      BY <1>2, <1>3, <2>1, <3>1, Memberships DEF DatesRead
  <2>2. CASE /\ CommitWithNotices(p)
             /\ n = <<w.group, w.member, n[3], w.changes.expiration>>
             /\ "expiration" \in w.changes.keys
    <3>1. DateAfter(w, w.group, w.member)
      BY <1>1, <1>2, <2>2, CommitDates DEF CommitWithNotices, NoticeInv
    <3>2. n[1] = w.group /\ n[2] = w.member /\ n[4] = w.changes.expiration
      BY <2>2
    <3> QED
      BY <2>2, <3>1, <3>2 DEF DateAfter
  <2> QED
    BY <1>1, <1>5, <2>1, <2>2, WritesAdd
<1>6. CASE n \in notices
  <2>1. /\ edges[n[1]][n[2]].expiration = n[4] /\ n[1] \in Groups /\ n[2] \in Members
    BY <1>6 DEF ApartInv, NoticesHaveTheDate, NoticeInv, TypedNotices, Notice
  <2>2. CASE ~CommitWithNotices(p)
    BY <2>1, <2>2, WritesLeaveDates DEF DatesStay
  <2>3. CASE CommitWithNotices(p)
    <3>1. DateAfter(w, n[1], n[2])
      BY <1>1, <2>1, <2>3, CommitDates DEF CommitWithNotices, NoticeInv
    <3>2. ~(n[1] = w.group /\ n[2] = w.member /\ "expiration" \in w.changes.keys)
      <4> SUFFICES ASSUME n[1] = w.group, n[2] = w.member,
                          "expiration" \in w.changes.keys
                   PROVE  FALSE
        OBVIOUS
      <4>1. d.setter = {} /\ d.cancel \notin {"unread", "yes"}
        BY <1>1, <2>3 DEF CommitWithNotices
      <4>2. d.cancel = "no"
        BY <1>4, <4>1 DEF Duty
      <4>3. Dates(txn[p])
        BY <1>1, <1>2, <1>4, RestOfList DEF Follows
      <4> QED
        BY <1>1, <1>3, <1>6, <4>1, <4>2, <4>3 DEF OldCancelled
    <3> QED
      BY <2>1, <3>1, <3>2 DEF DateAfter
  <2> QED
    BY <2>2, <2>3
<1> QED
  BY <1>5, <1>6

\* A membership with a notice out is in force or in work.
LEMMA WritesKeepInForce ==
    ASSUME NoticeInv, ApartInv, NEW p \in Procs, Writes(p), NEW n \in notices',
           n[2] \in Groups, n[4] > now, <<n[1], n[2]>> \notin excused'
    PROVE  InForce(n[1], n[2])' \/ InWork(n[1], n[2])'
<1>1. PICK w, t : w = Head(txn[p]) /\ t = txn'[p]
  OBVIOUS
<1>2. /\ txn[p] # << >> /\ w.op = "edge" /\ groupStatus' = groupStatus
      /\ w.group \in Groups /\ w.member \in Members
      /\ \A q \in Procs \ {p} : txn'[q] = txn[q]
      /\ \A g \in Groups, m \in Members :
            ~(g = w.group /\ m = w.member) => edges'[g][m] = edges[g][m]
  BY <1>1, WriteFacts
<1>3. n[1] \in Groups /\ n[2] \in Members
  <2>1. n \in notices => n \in Notice
    BY DEF NoticeInv, TypedNotices
  <2>2. n \in Notice
    BY <1>1, <2>1, WritesAdd
  <2> QED
    BY <2>2, Memberships DEF Notice
<1>4. CASE n[1] = w.group /\ n[2] = w.member
  <2>1. CASE t # << >>
    <3>1. Head(t).op = "edge" /\ Head(t).group = w.group /\ Head(t).member = w.member
      BY <1>1, <2>1, WriteRest
    <3> QED
      BY <1>1, <1>4, <2>1, <3>1 DEF InWork
  <2>2. CASE t = << >>
    <3>1. CommitWithNotices(p)
      <4>1. ~CommitRole(p)
        BY <1>1, <2>2, DutyAfter
      <4>2. ~(AdjustNotice(p) \/ Reload(p) \/ CancelAlone(p))
        BY <1>1, <1>2, <2>2, DutyAfter
      <4> QED
        BY <4>1, <4>2, Zenon DEF Writes
    <3>2. excused' = StillExcused(ExcusedBy(p))
      BY <3>1 DEF CommitWithNotices
    <3>3. <<n[1], n[2]>> \notin ExcusedBy(p)
      BY <3>2, GroupExcuseStays
    <3>4. w.member \notin Users
      BY <1>4, Memberships
    <3> QED
      BY <1>1, <1>4, <2>2, <3>3, <3>4 DEF ExcusedBy
  <2> QED
    BY <2>1, <2>2
<1>5. CASE ~(n[1] = w.group /\ n[2] = w.member)
  <2>1. InForce(n[1], n[2]) => InForce(n[1], n[2])'
    BY <1>2, <1>3, <1>5 DEF InForce
  <2>2. CASE n \in notices
    <3>1. <<n[1], n[2]>> \notin excused
      BY WritesKeepExcused
    <3>2. InForce(n[1], n[2]) \/ InWork(n[1], n[2])
      BY <2>2, <3>1 DEF ApartInv, OwnersTold
    <3>3. InWork(n[1], n[2]) => InWork(n[1], n[2])'
      <4> SUFFICES ASSUME InWork(n[1], n[2]) PROVE InWork(n[1], n[2])'
        OBVIOUS
      <4>1. PICK q \in Procs : /\ txn[q] # << >> /\ Head(txn[q]).op = "edge"
                               /\ Head(txn[q]).group = n[1]
                               /\ Head(txn[q]).member = n[2]
        BY DEF InWork
      <4>2. txn'[q] = txn[q]
        BY <1>1, <1>2, <1>5, <4>1
      <4> QED
        BY <4>1, <4>2 DEF InWork
    <3> QED
      BY <2>1, <3>2, <3>3
  <2>3. CASE n \notin notices
    <3>1. CommitRole(p) \/ AdjustNotice(p)
      <4>1. /\ n = <<w.group, w.member, n[3], w.changes.expiration>>
            => n[1] = w.group /\ n[2] = w.member
        OBVIOUS
      <4> QED
        BY <1>1, <1>5, <2>3, <4>1, WritesAdd
    <3>2. PICK k, set : /\ notices' = AdjustedBySetter(w, k)
                        /\ excused' = StillExcused(set \union Late(k))
      BY <1>1, <3>1 DEF CommitRole, AdjustNotice
    <3>3. n = k
      BY <2>3, <3>2, AdjustedNotices
    <3>4. <<n[1], n[2]>> \notin Late(n)
      BY <3>2, <3>3, GroupExcuseStays
    <3> QED
      BY <2>1, <3>4 DEF Late
  <2> QED
    BY <2>2, <2>3
<1> QED
  BY <1>4, <1>5

\* A setter that has notices to cancel cancels one, and goes on with the others.
LEMMA GoesOnCancelling ==
    ASSUME NoticeInv, NEW p \in Procs, CommitRole(p) \/ AdjustNotice(p),
           NEW w, w = Head(txn[p]), w.changes.role \notin OwnerRoles,
           NEW n \in notices', NEW k \in duty[p].setter, SameNotice(n, k)
    PROVE  BeingCancelled(n)'
<1>1. Writes(p)
  BY DEF Writes
<1>2. PICK x \in duty[p].setter :
         /\ notices' = AdjustedBySetter(w, x)
         /\ duty' = [duty EXCEPT ![p].setter = StillToAdjust(@, x)]
  BY DEF CommitRole, AdjustNotice
<1>3. ~SameNotice(n, x)
  BY <1>2 DEF AdjustedBySetter
<1>4. duty'[p].setter = duty[p].setter \ {x}
  BY <1>2 DEF NoticeInv, Duty, StillToAdjust
<1>5. k \in duty'[p].setter
  BY <1>3, <1>4
<1>6. PICK t : t = txn'[p]
  OBVIOUS
<1>7. t # << >> /\ Head(t).changes.role = w.changes.role
  <2>1. CommitRole(p) => t # << >>
    BY <1>1, <1>6, DutyAfter
  <2>2. AdjustNotice(p) => t # << >>
    BY <1>6 DEF AdjustNotice, vars
  <2> QED
    BY <1>1, <1>6, <2>1, <2>2, WriteRest
<1>8. "role" \notin Head(t).changes.keys
  <2>1. CASE CommitRole(p)
    BY <1>1, <1>6, <1>7, <2>1, WriteRest DEF CommitRole
  <2>2. CASE AdjustNotice(p)
    BY <1>6, <2>2 DEF AdjustNotice, vars
  <2> QED
    BY <2>1, <2>2
<1>9. Demoting(p)'
  BY <1>5, <1>6, <1>7, <1>8 DEF Demoting
<1> QED
  BY <1>5, <1>9 DEF BeingCancelled, SameNotice

\* A notice about a group goes to an owner, or is about to be cancelled.
LEMMA WritesTellOwners ==
    ASSUME NoticeInv, ApartInv, NEW p \in Procs, Writes(p), NEW n \in notices',
           n[2] \in Groups, n[4] > now, <<n[1], n[2]>> \notin excused'
    PROVE  BeingCancelled(n)' \/ edges'[n[2]][n[3]].role \in OwnerRoles
<1>1. PICK w, d : w = Head(txn[p]) /\ d = duty[p]
  OBVIOUS
<1>2. /\ txn[p] # << >> /\ w.op = "edge" /\ w.group \in Groups /\ w.member \in Members
      /\ \A q \in Procs \ {p} : txn'[q] = txn[q] /\ duty'[q] = duty[q]
      /\ \A g \in Groups, m \in Members :
            ~(g = w.group /\ m = w.member) => edges'[g][m] = edges[g][m]
  BY <1>1, WriteFacts
<1>3. RecipientsOwn(w, d) /\ DemotionFound(w, d) /\ PromotionMade(w, d)
  BY <1>1, <1>2 DEF ApartInv, Knows
<1>4. d \in Duty /\ DutyFits(txn[p], d)
  BY <1>1 DEF NoticeInv
<1>5. CASE n \notin notices
  <2>1. CASE /\ n[2] = w.group /\ n[3] = w.member /\ w.changes.role \in OwnerRoles
             /\ n \in d.setter
             /\ CommitRole(p) \/ AdjustNotice(p)
    <3>1. CASE CommitRole(p)
      BY <1>1, <2>1, <3>1, WriteRoles DEF CommitRole
    <3>2. CASE AdjustNotice(p)
      BY <1>1, <1>3, <2>1, <3>2 DEF AdjustNotice, PromotionMade, vars
    <3> QED
      BY <2>1, <3>1, <3>2
  <2>2. CASE n = <<w.group, w.member, n[3], w.changes.expiration>> /\ n[3] \in d.recipients
    <3>1. n[2] = w.member /\ n[3] \in Users
      BY <1>4, <2>2 DEF Duty
    <3>2. edges[w.member][n[3]].role \in OwnerRoles
      BY <1>3, <2>2, <3>1 DEF RecipientsOwn
    <3> QED
      BY <1>2, <3>1, <3>2, Memberships
  <2> QED
    BY <1>1, <1>5, <2>1, <2>2, WritesAdd
<1>6. CASE n \in notices
  <2>1. <<n[1], n[2]>> \notin excused /\ n[3] \in Users /\ n[3] \in Members
    BY <1>6, WritesKeepExcused, Memberships DEF NoticeInv, TypedNotices, Notice
  <2>2. BeingCancelled(n) \/ edges[n[2]][n[3]].role \in OwnerRoles
    BY <1>6, <2>1 DEF ApartInv, OwnersTold
  <2>3. CASE edges[n[2]][n[3]].role \in OwnerRoles
    <3>1. CASE ~(n[2] = w.group /\ n[3] = w.member)
      BY <1>2, <2>1, <2>3, <3>1
    <3>2. CASE /\ n[2] = w.group /\ n[3] = w.member
               /\ edges'[w.group][w.member].role \notin OwnerRoles
      <4>1. CommitEdge(p) /\ "role" \in w.changes.keys /\ w.changes.role \notin OwnerRoles
        BY <1>1, <2>3, <3>2, WriteRoles
      <4>2. PICK k \in d.setter : SameNotice(n, k)
        BY <1>3, <1>6, <2>1, <3>2, <4>1 DEF DemotionFound
      <4>3. ~CommitWithNotices(p)
        BY <1>1, <4>2 DEF CommitWithNotices
      <4>4. CommitRole(p) \/ AdjustNotice(p)
        <5>1. d.cancel = "unread"
          BY <1>4, <4>2 DEF DutyFits
        <5> QED
          BY <1>1, <4>2, <4>3, <5>1 DEF Writes, Reload, CancelAlone
      <4> QED
        BY <1>1, <4>1, <4>2, <4>4, GoesOnCancelling
    <3> QED
      BY <3>1, <3>2
  <2>4. CASE BeingCancelled(n)
    <3>1. CASE Demoting(p) /\ \E k \in d.setter : SameNotice(n, k)
      <4>1. /\ d.setter # {} /\ d.cancel = "unread" /\ "role" \notin w.changes.keys
            /\ w.changes.role \notin OwnerRoles
        BY <1>1, <1>4, <3>1 DEF Demoting, DutyFits
      <4>2. AdjustNotice(p)
        BY <1>1, <4>1 DEF Writes, CommitRole, Reload, CancelAlone, CommitWithNotices
      <4> QED
        BY <1>1, <3>1, <4>1, <4>2, GoesOnCancelling
    <3>2. CASE ~(Demoting(p) /\ \E k \in d.setter : SameNotice(n, k))
      BY <1>1, <1>2, <2>4, <3>2, OthersGoOnCancelling
    <3> QED
      BY <3>1, <3>2
  <2> QED
    BY <2>2, <2>3, <2>4
<1> QED
  BY <1>5, <1>6

LEMMA WritesKeepApart ==
    ASSUME NoticeInv, NoticeInv', ApartInv, Apart, OwnersApart, NEW p \in Procs, Writes(p)
    PROVE  ApartInv'
<1>1. now' = now
  BY WriteFacts
<1>2. OwnersTold'
  BY <1>1, WritesKeepInForce, WritesTellOwners DEF OwnersTold
<1>3. NoticesHaveTheDate'
  BY WritesKeepDates
<1>4. \A q \in Procs : Knows(txn[q], duty[q])'
  <2>1. IInv'
    BY DEF NoticeInv
  <2> QED
    BY <2>1, WritesKnow, WritesLeaveOthers
<1> QED
  BY <1>2, <1>3, <1>4 DEF ApartInv

-----------------------------------------------------------------------------
(* What holds as long as the processes leave each other's work alone.      *)

LEMMA ApartInvInit == NoticeInit => ApartInv
BY DEF NoticeInit, Init, ApartInv, NoticesHaveTheDate, OwnersTold, Knows

LEMMA ApartInvNext ==
    /\ NoticeInv /\ NoticeInv' /\ ApartInv
    /\ Apart /\ Apart' /\ OwnersApart /\ OwnersApart'
    /\ [NoticeNext]_<<vars, noticeVars>>
    => ApartInv'
<1> SUFFICES ASSUME NoticeInv, NoticeInv', ApartInv, Apart, Apart', OwnersApart,
                    OwnersApart', [NoticeNext]_<<vars, noticeVars>>
             PROVE  ApartInv'
  OBVIOUS
<1>1. IInv'
  BY DEF NoticeInv
<1>2. ASSUME NEW p \in Procs,
             \/ Writes(p) \/ Serves(p) \/ Inserts(p)
             \/ AbortWithNotices(p) \/ CommitGroupWithNotices(p)
      PROVE  ApartInv'
  BY <1>1, <1>2, WritesKeepApart, ServesKeepsApart, InsertsKeepApart,
     AbortKeepsApart, CommitGroupKeepsApart
<1>3. Elsewhere => ApartInv'
  BY <1>1, ElsewhereKeepsApart
<1> QED
  BY <1>2, <1>3, NoticeSteps

LEMMA OwnersToldImplies == OwnersTold => FormerOwnersAreNotTold
BY DEF OwnersTold, FormerOwnersAreNotTold

\* A notice that is still to be sent has the date that its membership has, for any
\* number of processes of which no two change the same membership, nor one an
\* owner of a group while another changes what that group belongs to.
THEOREM NoticesDated ==
    NoticeSpec /\ []Apart /\ []OwnersApart => []NoticesHaveTheDate
<1>1. ApartInv => NoticesHaveTheDate
  BY DEF ApartInv
<1> QED
  BY <1>1, ApartInvInit, ApartInvNext, NoticesAlways, PTL DEF NoticeSpec

\* The end of a group's membership is announced to owners of the group, under the
\* same condition, whatever larger groups the setter of the role has to go over,
\* as long as it gets to go over them.
THEOREM OwnersAreTold ==
    NoticeSpec /\ []Apart /\ []OwnersApart => []FormerOwnersAreNotTold
<1>1. ApartInv => FormerOwnersAreNotTold
  BY OwnersToldImplies DEF ApartInv
<1> QED
  BY <1>1, ApartInvInit, ApartInvNext, NoticesAlways, PTL DEF NoticeSpec

=============================================================================
