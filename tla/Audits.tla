-------------------------------- MODULE Audits --------------------------------
(***************************************************************************)
(* The audits of groups: started for all audited groups by one request,    *)
(* reviewed and enacted by an owner of each, or ended with their group,    *)
(* next to memberships that come and go and to the e-mail queue that       *)
(* reminds the owners.  Every request commits in several steps.            *)
(***************************************************************************)
EXTENDS MailQueue, SequencesExt

CONSTANTS
    Procs,        \* processes of the front end
    Creators,     \* those that handle POST /audits/create
    Reviewers,    \* those that handle POST /audits/<id>/complete
    Disablers,    \* those that handle POST /groups/<name>/disable
    Auditors,     \* users with a grant of the auditor permission
    Audited,      \* groups with an audited permission
    IdOf,         \* [Users -> primary keys]
    MaxAudits     \* bound: audits of groups

ASSUME AuditAssumption ==
    /\ Creators \union Reviewers \union Disablers \subseteq Procs
    /\ Auditors \subseteq Users /\ Audited \subseteq Groups /\ IsFiniteSet(Audited)
    /\ DOMAIN IdOf = Users
    /\ MaxAudits \in Nat

VARIABLES
    audits,    \* rows of audits with the statuses of their audit_members
    current,   \* [Groups -> groups.audit_id], 0 for none
    back,      \* history: memberships that came to be, or back, during an open audit
    pc         \* [Procs -> where its request is]

vars == <<mailVars, audits, current, back, pc>>

Statuses == {"pending", "approved", "remove"}
AuditRows == 1..Len(audits)
None == [at |-> "idle"]

TypeOK ==
    /\ enabled \subseteq Groups
    /\ edges \in [Groups -> [Users -> EdgeStates]]
    /\ \A a \in AuditRows :
          /\ audits[a].group \in Groups
          /\ audits[a].state \in {"open", "complete"}
          /\ audits[a].status \in [Users -> Statuses \union {"none"}]
    /\ current \in [Groups -> 0..Len(audits)]
    /\ back \subseteq Groups \X Users
    /\ Len(attempts) = Len(mails)
    /\ \A i \in Ids : mails[i].to \subseteq Users
    /\ bg.batch \union bg.marked \subseteq Ids
    /\ \A p \in Procs : pc[p].at \in {"idle", "insert", "remind", "review",
                                      "check", "enact", "cancel", "disabled"}

Init ==
    /\ MailInit
    /\ edges \in {e \in [Groups -> [Users -> {"in", "temp"}]] :
                     \A g \in Groups : \A u \in Auditors : e[g][u] = "in"}
    /\ audits = << >>
    /\ current = [g \in Groups |-> 0]
    /\ back = {}
    /\ pc = [p \in Procs |-> None]

Goto(p, r) == pc' = [pc EXCEPT ![p] = r]

-----------------------------------------------------------------------------
(* AuditsCreate.                                                           *)

IsOpen(g) == current[g] # 0 /\ audits[current[g]].state = "open"
NoOpenAudits == \A a \in AuditRows : audits[a].state # "open"

\* The lock is one of this request alone, so that the check stands by itself.
AuditsCreate(p) ==
    /\ pc[p].at = "idle" /\ p \in Creators
    /\ NoOpenAudits
    /\ Len(audits) + Cardinality(Audited) <= MaxAudits
    /\ Goto(p, [at |-> "insert"])
    /\ UNCHANGED <<mailVars, audits, current, back>>

\* An audit for each audited group of the graph, with its members by then.
NewAudit(g) ==
    [group |-> g, state |-> "open",
     status |-> [u \in Users |-> IF IsMember(g, u) THEN "pending" ELSE "none"]]

\* The graph may be of any age: known are the groups that were enabled by then.
InsertAudits(p) ==
    /\ pc[p].at = "insert"
    /\ \E known \in SUBSET Audited :
       LET order == SetToSeq(known)
           Row(g) == CHOOSE i \in DOMAIN order : order[i] = g
       IN  /\ audits' = audits \o [i \in DOMAIN order |-> NewAudit(order[i])]
           /\ current' = [g \in Groups |-> IF g \in known THEN Len(audits) + Row(g)
                                             ELSE current[g]]
           /\ back' = {e \in back : e[1] \notin known}
           /\ Goto(p, [at |-> "remind", groups |-> known])
    /\ UNCHANGED mailVars

\* The e-mails, one group after the other.  Of those of a group only one of the
\* reminders is kept: the notice has no key, and is like that of an expiry.
RemindOwners(p) ==
    /\ pc[p].at = "remind"
    /\ \/ \E g \in pc[p].groups :
             /\ IF CurrentOwners(g) = {} THEN UNCHANGED <<mails, attempts>>
                ELSE SendAsyncEmail(CurrentOwners(g), <<"audit", g>>, TRUE)
             /\ Goto(p, [pc[p] EXCEPT !.groups = @ \ {g}])
       \/ /\ pc[p].groups = {}
          /\ Goto(p, None)
          /\ UNCHANGED <<mails, attempts>>
    /\ UNCHANGED <<enabled, edges, bg, audits, current, back>>

-----------------------------------------------------------------------------
(* AuditsComplete.                                                         *)

\* get_group_audit_members_infos: members in the current audit, and still in.
Covered(g) ==
    IF current[g] = 0 THEN {} ELSE {u \in Users : audits[current[g]].status[u] # "none"
                                           /\ IsMember(g, u)}
StatusIn(g, u) == audits[current[g]].status[u]

\* An owner who is an auditor opens an audit that is not complete.
AuditsComplete(p, a, actor) ==
    /\ pc[p].at = "idle" /\ p \in Reviewers
    /\ audits[a].state = "open"
    /\ actor \in Auditors \cap CurrentOwners(audits[a].group)
    /\ Goto(p, [at |-> "review", audit |-> a, actor |-> actor])
    /\ UNCHANGED <<mailVars, audits, current, back>>

\* The statuses of the form, "none" for a member it leaves out; it may put a
\* decision back to "pending".  Whoever has the id of the owner is approved.
CommitReview(p) ==
    /\ pc[p].at = "review"
    /\ LET g == audits[pc[p].audit].group
           actor == pc[p].actor
       IN  \E form \in [Covered(g) -> Statuses \union {"none"}] :
              audits' = [audits EXCEPT ![current[g]].status =
                    [u \in Users |->
                        IF u \notin Covered(g) \/ form[u] = "none" THEN @[u]
                        ELSE IF IdOf[u] = IdOf[actor] THEN "approved"
                        ELSE form[u]]]
    /\ Goto(p, [pc[p] EXCEPT !.at = "check"])
    /\ UNCHANGED <<mailVars, current, back>>

\* group_has_pending_audit_members.
HasPending(g) == \E u \in Covered(g) : StatusIn(g, u) = "pending"

\* Pending members end the request; else those to remove are loaded.
CheckPending(p) ==
    /\ pc[p].at = "check"
    /\ LET g == audits[pc[p].audit].group
       IN  IF HasPending(g) THEN Goto(p, None)
           ELSE Goto(p, [at |-> "enact", audit |-> pc[p].audit,
                         remove |-> {u \in Covered(g) : StatusIn(g, u) = "remove"}])
    /\ UNCHANGED <<mailVars, audits, current, back>>

\* The plugin: u is the last permanent owner.
PolicyRejects(g, u) == {o \in Owners[g] : edges[g][o] = "in"} = {u}

\* Mutant: a rejection is passed over.
EnactRegardless(p) ==
    /\ pc[p].at = "enact"
    /\ \E u \in pc[p].remove :
          LET g == audits[pc[p].audit].group
          IN  /\ edges' = [edges EXCEPT ![g][u] = IF PolicyRejects(g, u) THEN @ ELSE "out"]
              /\ Goto(p, [pc[p] EXCEPT !.remove = @ \ {u}])
    /\ UNCHANGED <<enabled, mails, attempts, bg, audits, current, back>>

\* revoke_member, committed with its log entry; a rejection ends the request.
Enact(p) ==
    /\ pc[p].at = "enact"
    /\ \E u \in pc[p].remove :
          LET g == audits[pc[p].audit].group
          IN  \/ /\ PolicyRejects(g, u)
                 /\ Goto(p, None)
                 /\ UNCHANGED edges
              \/ /\ ~PolicyRejects(g, u)
                 /\ edges' = [edges EXCEPT ![g][u] = "out"]
                 /\ Goto(p, [pc[p] EXCEPT !.remove = @ \ {u}])
    /\ UNCHANGED <<enabled, mails, attempts, bg, audits, current, back>>

\* audit.complete = True.
CommitComplete(p) ==
    /\ pc[p].at = "enact" /\ pc[p].remove = {}
    /\ audits' = [audits EXCEPT ![pc[p].audit].state = "complete"]
    /\ back' = {e \in back : e[1] # audits[pc[p].audit].group}
    /\ Goto(p, [at |-> "cancel", group |-> audits[pc[p].audit].group])
    /\ UNCHANGED <<mailVars, current>>

CancelReminders(p) ==
    /\ pc[p].at = "cancel"
    /\ CancelAsyncEmails(<<"audit", pc[p].group>>)
    /\ Goto(p, None)
    /\ UNCHANGED <<enabled, edges, attempts, bg, audits, current, back>>

-----------------------------------------------------------------------------
(* What else happens to the groups.                                        *)

\* GroupDisable; a role user is disabled with its group the same way.
GroupDisable(p, g) ==
    /\ pc[p].at = "idle" /\ p \in Disablers /\ g \in enabled
    /\ enabled' = enabled \ {g}
    /\ Goto(p, [at |-> "disabled", group |-> g])
    /\ UNCHANGED <<edges, mails, attempts, bg, audits, current, back>>

\* The audit of a disabled group is complete, whatever its state.
CompleteDisabled(p) ==
    /\ pc[p].at = "disabled"
    /\ LET g == pc[p].group
       IN  \/ /\ current[g] # 0
              /\ audits' = [audits EXCEPT ![current[g]].state = "complete"]
              /\ Goto(p, [at |-> "cancel", group |-> g])
           \/ /\ current[g] = 0
              /\ Goto(p, None)
              /\ UNCHANGED audits
    /\ back' = {e \in back : e[1] # pc[p].group}
    /\ UNCHANGED <<mailVars, current>>

\* GroupEnable brings every membership of the group back.
GroupEnable(g) ==
    /\ g \notin enabled
    /\ enabled' = enabled \union {g}
    /\ back' = back \union {e \in {g} \X Users : IsOpen(g)}
    /\ UNCHANGED <<edges, mails, attempts, bg, audits, current, pc>>

\* add_member, in the row of an earlier membership if there is one.
AddMember(g, u) ==
    /\ g \in enabled /\ edges[g][u] \in {"out", "expired"}
    /\ edges' = [edges EXCEPT ![g][u] = "in"]
    /\ back' = back \union {e \in {<<g, u>>} : IsOpen(g)}
    /\ UNCHANGED <<enabled, mails, attempts, bg, audits, current, pc>>

\* GroupLeave, GroupRemove.
RemoveMember(g, u) ==
    /\ IsMember(g, u) /\ ~PolicyRejects(g, u)
    /\ edges' = [edges EXCEPT ![g][u] = "out"]
    /\ UNCHANGED <<enabled, mails, attempts, bg, audits, current, back, pc>>

\* A process of the front end dies between two commits.
Crash(p) ==
    /\ pc[p].at # "idle"
    /\ Goto(p, None)
    /\ UNCHANGED <<mailVars, audits, current, back>>

-----------------------------------------------------------------------------
Handlers ==
    \E p \in Procs :
        \/ AuditsCreate(p) \/ InsertAudits(p) \/ RemindOwners(p)
        \/ \E a \in AuditRows, actor \in Users : AuditsComplete(p, a, actor)
        \/ CommitReview(p) \/ CheckPending(p) \/ Enact(p)
        \/ CommitComplete(p) \/ CancelReminders(p)
        \/ \E g \in Groups : GroupDisable(p, g)
        \/ CompleteDisabled(p)
        \/ Crash(p)

Others ==
    \/ \E g \in Groups : GroupEnable(g)
    \/ \E g \in Groups, u \in Users : AddMember(g, u) \/ RemoveMember(g, u)

Next ==
    \/ MailNext /\ UNCHANGED <<audits, current, back, pc>>
    \/ Handlers
    \/ Others

\* The processor runs in a loop, under a supervisor.
Fairness == WF_vars(Processor /\ UNCHANGED <<audits, current, back, pc>>)

Spec == Init /\ [][Next]_vars /\ Fairness

-----------------------------------------------------------------------------
(* Properties.                                                             *)

\* A review completes an audit only when every member it covers has been
\* approved, except memberships that came back after the audit started: whom
\* the review marks "remove" is out, and nobody is left pending.
CompletionIsEnacted ==
    [][\A p \in Procs, a \in AuditRows :
          CommitComplete(p) /\ audits[a].state = "open" /\ audits'[a].state = "complete"
            => LET g == audits[a].group
               IN  \A u \in Covered(g) :
                       <<g, u>> \in back \/ StatusIn(g, u) = "approved"]_vars

\* As long as the processor lives, no mail goes to the mail server twice, not
\* even when the server refuses it.
TriedOncePerLife == \A i \in Ids : attempts[i] <= 1

\* A reminder that was cancelled, or a mail that was sent, before its turn in the
\* batch of the processor does not go out any more.
CancelledMailIsNotSent ==
    [][\A i \in Ids : mails[i].sent => attempts'[i] <= attempts[i]]_vars

\* The task never ends a membership in silence, wherever it is interrupted: the
\* notice to the member has been committed.
ExpiryIsAnnounced ==
    [][BgDeactivate => \E i \in Ids : /\ mails[i].key = <<"expired", bg.edge[1], bg.edge[2]>>
                                      /\ bg.edge[2] \in mails[i].to]_vars

\* Unless the processor dies for ever and ever, it catches up: time and again no
\* membership of an enabled group is expired, and all mail that is due is gone.
BackgroundCatchesUp ==
    \/ []<><<BgCrash>>_vars
    \/ /\ []<>(ExpiredEdges = {})
       /\ []<>(\A i \in Ids : mails[i].later \/ mails[i].sent)

\* "Any sort of error with sending the email and we want to move on to the next
\* email. This email will be retried later."
RefusedMailIsRetried ==
    [][\A i \in Ids : BgCommit /\ i \in bg.refused => ~mails'[i].sent]_vars

=============================================================================
