-------------------------------- MODULE MCNotices --------------------------------
(* Values of the constants for the runs of Notices.                        *)
EXTENDS Notices, TLC

CONSTANTS
    u1, u2, g1, g2, g3, p1, p2,
    MoreChanges    \* bound: handlers that are run after the five of SupergroupInit

\* One group lets anybody in, for a day; the others are closed.
OpenAndClosed == [g \in Groups |-> IF g = g1 THEN "canjoin" ELSE "nobody"]
OneDay == [g \in Groups |-> IF g = g1 THEN 1 ELSE 0]

\* What five handlers leave: three GroupCreate of one user, and two GroupAdd that
\* make the third group a member of the others until the last day.
Supergroups == {g1, g2}
OwnerEdge == [NoEdge EXCEPT !.row = TRUE, !.active = TRUE, !.role = "owner"]
DatedEdge == [NoEdge EXCEPT !.row = TRUE, !.active = TRUE, !.expiration = MaxDay]

SupergroupInit ==
    /\ groupStatus = [g \in Groups |-> "enabled"]
    /\ userEnabled = [u \in Users |-> TRUE]
    /\ edges = [g \in Groups |-> [m \in Members |->
                  IF m \in Users THEN OwnerEdge
                  ELSE IF g \in Supergroups /\ m = g3 THEN DatedEdge
                  ELSE NoEdge]]
    /\ requests = << >> /\ now = 1 /\ expiring = {}
    /\ txn = [p \in Procs |-> << >>]
    /\ notices = {<<s, g3, u, MaxDay>> : s \in Supergroups, u \in Users}
    /\ duty = [p \in Procs |-> NoDuty]
    /\ told = {} /\ excused = {} /\ changed = MaxChanges - MoreChanges

MCSpec == (NoticeInit \/ SupergroupInit) /\ [][NoticeNext]_<<vars, noticeVars>>

\* Who starts with nothing has the first two groups only.
TwoGroupsOrThree ==
    groupStatus[g3] = "absent" \/ \A s \in Supergroups : edges[s][g3].row
=============================================================================
