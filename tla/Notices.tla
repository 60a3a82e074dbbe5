-------------------------------- MODULE Notices --------------------------------
(***************************************************************************)
(* The notices that announce the end of a membership: rows of              *)
(* async_notifications that the commits of GroupMembership schedule and    *)
(* cancel on the side, for a user who is a member, and for the owners of a *)
(* group that is one.  They carry names and a date, and nothing but        *)
(* apply_changes and the setter of the role keeps them in step with the    *)
(* memberships.  Each time they cancel or schedule they commit: with what  *)
(* the row has been given by then, or alone, and then GroupMembership      *)
(* stays as it is.                                                         *)
(***************************************************************************)
EXTENDS GroupMembership

CONSTANTS
    NoticeDays,    \* settings.expiration_notice_days
    MaxChanges     \* bound: handlers that are run

ASSUME NoticeAssumption == NoticeDays \in Nat /\ MaxChanges \in Nat

VARIABLES
    notices,   \* <<group, member, recipient, expiration>> yet to be sent
    duty,      \* what each process has read and will do about notices
    told,      \* history: those that were sent, until the date is changed
    excused,   \* history: memberships with a change that was cut short, or of
               \* one group in another that were not in force with a notice out
    changed    \* how many handlers were run

noticeVars == <<notices, duty, told, excused, changed>>

Notice == Groups \X Members \X Users \X Nat

\* The notices that the setter of the role has yet to schedule or cancel, whether
\* that of the old expiration is cancelled, and whom a new one goes to.
Duty == [setter : SUBSET Notice, cancel : {"unread", "yes", "no"},
         recipients : SUBSET Users]

NoDuty == [setter |-> {}, cancel |-> "no", recipients |-> {}]

NoticeInit ==
    /\ Init
    /\ notices = {} /\ told = {} /\ excused = {} /\ changed = 0
    /\ duty = [p \in Procs |-> NoDuty]

-----------------------------------------------------------------------------
(* What is read with the row, when a change begins.                        *)

\* my_owners_as_strings.
OwnersOf(g) == {u \in Users : IsMember(g, u) /\ edges[g][u].role \in OwnerRoles}

\* Whom apply_changes tells of the end of a membership.
Recipients(m) == IF m \in Users THEN {m} ELSE OwnersOf(m)

\* The setter of the role: of a new row, the role is no change.
ChangesOwnership(w) ==
    /\ w.member \in Users
    /\ "role" \in w.changes.keys
    /\ (edges[w.group][w.member].role \in OwnerRoles)
            # (w.changes.role \in OwnerRoles)

\* A new owner of a group is told when the group drops out of others, a former
\* one is not.
SetterNotices(w) ==
    IF ChangesOwnership(w)
    THEN {<<s, w.group, w.member, edges[s][w.group].expiration>> :
              s \in ExpiringSupergroups(w.group)}
    ELSE {}

\* The notice of the old expiration is to be cancelled before the new one is set.
Cancels(commits) ==
    LET w == Head(commits)
    IN  /\ edges[w.group][w.member].expiration # Forever
        /\ \E n \in DOMAIN commits : "expiration" \in commits[n].changes.keys

CancelDuty(commits) == IF Cancels(commits) THEN "yes" ELSE "no"

\* Once the setter has committed, the row is loaded again.
DutyOf(commits) ==
    LET w == Head(commits)
    IN  IF w.op # "edge" THEN NoDuty
        ELSE [setter |-> SetterNotices(w),
              cancel |-> IF SetterNotices(w) = {} THEN CancelDuty(commits)
                         ELSE "unread",
              recipients |-> Recipients(w.member)]

-----------------------------------------------------------------------------
(* What is scheduled and cancelled.                                        *)

SameNotice(n, k) == n[1] = k[1] /\ n[2] = k[2] /\ n[3] = k[3]

\* Mutant: the setter is done with the first group.
AfterFirst(set, n) == {}

\* The loop of the setter goes over the groups, in whatever order it loaded them.
StillToAdjust(set, n) == set \ {n}

\* One add_expiration or cancel_expiration of the setter.
AdjustedBySetter(w, n) ==
    IF w.changes.role \in OwnerRoles THEN notices \union {n}
    ELSE {k \in notices : ~SameNotice(k, n)}

\* Mutant: only the member's own notice is cancelled.
CancelOwn(w) ==
    {n \in notices : ~(n[1] = w.group /\ n[2] = w.member /\ n[3] = w.member)}

\* cancel_expiration, for whoever was to be told.
CancelExpiration(w) == {n \in notices : ~(n[1] = w.group /\ n[2] = w.member)}

\* Mutant: who is not a member yet need not be told.
AddToActive(w, recipients) ==
    IF CommitsAfterExpiration(w.changes) /\ edges[w.group][w.member].active
    THEN {<<w.group, w.member, u, w.changes.expiration>> : u \in recipients}
    ELSE {}

\* add_expiration, for an expiration in the future.
AddExpiration(w, recipients) ==
    IF CommitsAfterExpiration(w.changes)
    THEN {<<w.group, w.member, u, w.changes.expiration>> : u \in recipients}
    ELSE {}

\* my_expiring_groups sees the membership, as far as anybody but the calendar
\* decides.
InForce(g, m) ==
    /\ groupStatus[g] = "enabled" /\ groupStatus[m] = "enabled"
    /\ edges[g][m].active

\* What is still excused once the notices are set: a cut that leaves a user with
\* a date, and what keeps the setter from a notice about a group.
StillExcused(set) ==
    {gm \in set : IF gm[2] \in Users THEN edges'[gm[1]][gm[2]].expiration # Forever
                  ELSE \E n \in notices' : <<n[1], n[2]>> = gm}

\* A date that is set is no longer cut short; a change that ends without putting
\* a group's membership in force leaves a notice that the setter does not find.
ExcusedBy(p) ==
    LET w == Head(txn[p])
        gm == <<w.group, w.member>>
    IN  IF w.member \in Users
        THEN excused \ {x \in {gm} : "expiration" \in w.changes.keys}
        ELSE excused \union {x \in {gm} : /\ txn'[p] = << >>
                                          /\ ~InForce(x[1], x[2])'}

\* A notice that the setter is late with, and will not find again.
Late(n) == {gm \in {<<n[1], n[2]>>} : ~InForce(n[1], n[2])}

\* The first commit of the setter takes the role and the request along.
CommitRole(p) ==
    /\ CommitEdge(p)
    /\ LET w == Head(txn[p])
       IN  /\ "role" \in w.changes.keys
           /\ \E n \in duty[p].setter :
                 /\ notices' = AdjustedBySetter(w, n)
                 /\ duty' = [duty EXCEPT ![p].setter = StillToAdjust(@, n)]
                 /\ excused' = StillExcused(ExcusedBy(p) \union Late(n))
    /\ UNCHANGED <<told, changed>>

\* A later one commits a notice alone.
AdjustNotice(p) ==
    /\ txn[p] # << >>
    /\ UNCHANGED <<vars, told, changed>>
    /\ \E n \in duty[p].setter :
          /\ "role" \notin Head(txn[p]).changes.keys
          /\ notices' = AdjustedBySetter(Head(txn[p]), n)
          /\ duty' = [duty EXCEPT ![p].setter = StillToAdjust(@, n)]
          /\ excused' = StillExcused(excused \union Late(n))

\* apply_changes goes on with the expiration, on the row as it is after the last
\* commit of the setter.
Reload(p) ==
    /\ txn[p] # << >>
    /\ duty[p].setter = {} /\ duty[p].cancel = "unread"
    /\ duty' = [duty EXCEPT ![p].cancel = CancelDuty(txn[p])]
    /\ UNCHANGED <<vars, notices, told, excused, changed>>

\* The role has been committed by then, and the old notice goes on its own.
CancelAlone(p) ==
    /\ txn[p] # << >>
    /\ UNCHANGED <<vars, told, changed>>
    /\ duty[p].cancel = "yes" /\ "expiration" \in Head(txn[p]).changes.keys
    /\ notices' = CancelExpiration(Head(txn[p]))
    /\ duty' = [duty EXCEPT ![p].cancel = "no"]
    /\ excused' = StillExcused(excused)

\* GroupEdge.apply_changes: what the row is given, with the old notice that is
\* cancelled or the new one that is scheduled.
CommitWithNotices(p) ==
    /\ CommitEdge(p)
    /\ LET w == Head(txn[p])
       IN  /\ duty[p].setter = {} /\ duty[p].cancel # "unread"
           /\ duty[p].cancel = "yes" => "expiration" \notin w.changes.keys
           /\ notices' = (IF duty[p].cancel = "yes" THEN CancelExpiration(w)
                          ELSE notices) \union AddExpiration(w, duty[p].recipients)
           /\ told' = {n \in told : edges'[n[1]][n[2]].expiration = n[4]}
    /\ duty' = [duty EXCEPT ![p] = IF txn'[p] = << >> THEN NoDuty
                                   ELSE [@ EXCEPT !.cancel = "no"]]
    /\ excused' = StillExcused(ExcusedBy(p))
    /\ UNCHANGED changed

\* A former owner whose role has been committed, and not all notices cancelled.
Demoting(p) ==
    /\ txn[p] # << >> /\ duty[p].setter # {}
    /\ "role" \notin Head(txn[p]).changes.keys
    /\ Head(txn[p]).changes.role \notin OwnerRoles

AbortWithNotices(p) ==
    /\ Abort(p)
    /\ duty' = [duty EXCEPT ![p] = NoDuty]
    /\ UNCHANGED <<notices, told, changed>>
    /\ excused' = StillExcused(excused \union
          {gm \in Groups \X Members :
              \/ /\ Head(txn[p]).op = "edge"
                 /\ gm = <<Head(txn[p]).group, Head(txn[p]).member>>
                 /\ gm[2] \in Users => "expiration" \in Head(txn[p]).changes.keys
              \/ Demoting(p) /\ \E n \in duty[p].setter : gm = <<n[1], n[2]>>})

CommitGroupWithNotices(p) ==
    /\ CommitGroup(p)
    /\ UNCHANGED <<notices, duty, told, changed>>
    /\ LET w == Head(txn[p])
       IN  excused' = StillExcused(excused \union
              {gm \in Groups \X Groups : w.to = "disabled" /\ w.group \in {gm[1], gm[2]}})

\* process_async_emails, for the notices that are due (the rest of it is in
\* MailQueue).
SendNotices ==
    /\ \E n \in notices : n[4] < now + NoticeDays
    /\ notices' = {n \in notices : n[4] >= now + NoticeDays}
    /\ told' = told \union (notices \ notices')
    /\ UNCHANGED <<vars, duty, changed>>
    /\ excused' = StillExcused(excused)

\* The expiry task cancels no notices.
BackgroundWithNotices ==
    /\ Background
    /\ UNCHANGED <<notices, duty, told, changed>>
    /\ excused' = StillExcused(excused \union
          {gm \in Groups \X Groups :
              edges[gm[1]][gm[2]].active /\ ~edges'[gm[1]][gm[2]].active})

NoticeNext ==
    \/ \E p \in Procs :
          \/ CommitRole(p)
          \/ AdjustNotice(p)
          \/ Reload(p)
          \/ CancelAlone(p)
          \/ CommitWithNotices(p)
          \/ AbortWithNotices(p)
          \/ CommitGroupWithNotices(p)
          \/ /\ Handler(p) \/ \E u \in Users : UserDisable(p, u) \/ UserEnable(p, u)
             /\ changed < MaxChanges /\ changed' = changed + 1
             /\ duty' = [duty EXCEPT ![p] = DutyOf(txn'[p])]
             /\ UNCHANGED <<notices, told, excused>>
          \/ /\ CommitFiledRequest(p) \/ CommitCreate(p) \/ CommitUser(p)
             /\ UNCHANGED noticeVars
    \/ BackgroundWithNotices
    \/ Tick /\ UNCHANGED noticeVars
    \/ SendNotices

NoticeSpec == NoticeInit /\ [][NoticeNext]_<<vars, noticeVars>>

-----------------------------------------------------------------------------
(* Properties.                                                             *)

\* Whatever is edited, revoked, requested, approved or cut short: a notice that
\* is still to be sent has the date that the membership has.
NoticesHaveTheDate ==
    \A n \in notices : edges[n[1]][n[2]].expiration = n[4]

\* Whether processes work on a membership.
InWork(g, m) ==
    \E p \in Procs : /\ txn[p] # << >> /\ Head(txn[p]).op = "edge"
                     /\ Head(txn[p]).group = g /\ Head(txn[p]).member = m

\* A user whose membership will end has been told, or will be, by whatever
\* sequence of requests, edits and renewals the date has come about.
ExpiringMembersAreTold ==
    \A g \in Groups, u \in Users :
        LET e == edges[g][u]
        IN  /\ e.row /\ e.active /\ e.expiration > now
            /\ <<g, u>> \notin excused /\ ~InWork(g, u)
            => <<g, u, u, e.expiration>> \in notices \union told

\* The setter of the role is about to cancel the notice.
BeingCancelled(n) ==
    \E p \in Procs : Demoting(p) /\ \E k \in duty[p].setter : SameNotice(n, k)

\* The end of a group's membership is announced to owners of the group, not to
\* those who have ceased to be, once the setter of the role has gone over all the
\* groups that theirs is about to drop out of.  Only while no process changes an
\* owner of a group as another changes what that group belongs to, unless the
\* setter is cut short, and while the membership is in force: my_expiring_groups
\* does not see it when either group is disabled, before it is made active or once
\* the expiry task has ended it.
FormerOwnersAreNotTold ==
    \A n \in notices :
        /\ n[2] \in Groups /\ n[4] > now /\ <<n[1], n[2]>> \notin excused
        /\ ~BeingCancelled(n)
        => edges[n[2]][n[3]].role \in OwnerRoles

=============================================================================
