------------------------------- MODULE MailQueue -------------------------------
(***************************************************************************)
(* The queue of e-mails, async_notifications, and the two tasks of the     *)
(* background processor that feed and empty it: the expiry of memberships  *)
(* and the sending.  Anything unexpected ends the process, and the         *)
(* supervisor starts it again: only what was committed is left.            *)
(***************************************************************************)
EXTENDS Integers, FiniteSets, Sequences

CONSTANTS
    Users, Groups,
    Owners,       \* [Groups -> users with the role owner while they are in]
    Answers,      \* what the mail server may do: "taken", "refused"
    MaxMails      \* bound: rows by which the processor may have died

ASSUME MailAssumption ==
    /\ Owners \in [Groups -> SUBSET Users]
    /\ Answers \subseteq {"taken", "refused"}
    /\ MaxMails \in Nat

VARIABLES
    enabled,      \* enabled groups
    edges,        \* [Groups -> [Users -> EdgeStates]]
    mails,        \* rows of async_notifications in the order of their ids
    attempts,     \* [ids -> how often a mail in the queue went to the mail server
                  \* since the processor last started]
    bg            \* the background processor

mailVars == <<enabled, edges, mails, attempts, bg>>

\* "temp" has an expiration in the future, "expired" one in the past.
EdgeStates == {"out", "in", "temp", "expired"}

\* my_members of a group.
IsMember(g, u) == g \in enabled /\ edges[g][u] \in {"in", "temp"}

\* my_owners.
CurrentOwners(g) == {u \in Owners[g] : IsMember(g, u)}

Ids == 1..Len(mails)

\* send_async_email: one row stands for those of all recipients, which are in one
\* commit.  "later" is for a send_after in the future.
SendAsyncEmail(to, key, later) ==
    /\ mails' = Append(mails, [key |-> key, to |-> to, later |-> later, sent |-> FALSE])
    /\ attempts' = Append(attempts, 0)

\* cancel_async_emails and the commit of the log entry after it.  The rows that
\* the processor has marked are locked until it commits.
CancelAsyncEmails(key) ==
    /\ \A i \in bg.marked : mails[i].key # key
    /\ mails' = [i \in Ids |-> IF mails[i].key = key
                               THEN [mails[i] EXCEPT !.sent = TRUE] ELSE mails[i]]

-----------------------------------------------------------------------------
Idle == [at |-> "idle", edges |-> {}, edge |-> << >>, batch |-> {},
         marked |-> {}, refused |-> {}]

MailInit ==
    /\ enabled = Groups
    /\ mails = << >> /\ attempts = << >>
    /\ bg = Idle

ExpiredEdges == {e \in enabled \X Users : edges[e[1]][e[2]] = "expired"}

\* run, expire_edges: the expired memberships in enabled groups.  A pass that
\* would find nothing to do is left out.
BgStart ==
    /\ bg.at = "idle"
    /\ ExpiredEdges # {} \/ \E i \in Ids : ~mails[i].sent
    /\ bg' = [bg EXCEPT !.at = "expire", !.edges = ExpiredEdges]
    /\ UNCHANGED <<enabled, edges, mails, attempts>>

\* Mutant: the owners are told, not the member.
TellOwners(e) == SendAsyncEmail(CurrentOwners(e[1]) \ {e[2]}, <<"expired", e[1], e[2]>>, FALSE)

\* Mutant: the notice is addressed to the group.
TellGroup(e) == SendAsyncEmail({e[1]}, <<"expired", e[1], e[2]>>, FALSE)

\* notify_edge_expiration for a user: the member is told.
NotifyEdgeExpiration(e) == SendAsyncEmail({e[2]}, <<"expired", e[1], e[2]>>, FALSE)

\* expire_edges, one edge: the notice is committed before the edge.
BgNotify ==
    /\ bg.at = "expire"
    /\ \E e \in bg.edges :
          /\ NotifyEdgeExpiration(e)
          /\ bg' = [bg EXCEPT !.at = "deactivate", !.edge = e, !.edges = @ \ {e}]
    /\ UNCHANGED <<enabled, edges>>

BgDeactivate ==
    /\ bg.at = "deactivate"
    /\ edges' = [edges EXCEPT ![bg.edge[1]][bg.edge[2]] = "out"]
    /\ bg' = [bg EXCEPT !.at = "expire", !.edge = << >>]
    /\ UNCHANGED <<enabled, mails, attempts>>

\* Mutant: only the reminders are loaded.
BgLoadReminders ==
    /\ bg.at = "expire" /\ bg.edges = {}
    /\ bg' = [bg EXCEPT !.at = "send", !.batch = {i \in Ids : ~mails[i].sent /\ mails[i].later}]
    /\ UNCHANGED <<enabled, edges, mails, attempts>>

\* process_async_emails: the rows that are due, all loaded at once.  Those for
\* later may or may not be due by now.
BgLoad ==
    /\ bg.at = "expire" /\ bg.edges = {}
    /\ \E due \in SUBSET {i \in Ids : mails[i].later} :
          bg' = [bg EXCEPT !.at = "send",
                   !.batch = {i \in Ids : ~mails[i].sent /\ (mails[i].later => i \in due)}]
    /\ UNCHANGED <<enabled, edges, mails, attempts>>

\* Mutant: the mark is set without a look at the row.
MarkedAnyway(i) == TRUE

\* The conditional update: this row is still to be sent.
StillUnsent(i) == ~mails[i].sent

\* A mail is marked, then sent.  A refusal is an SMTPException, passed over.
BgSend ==
    /\ bg.at = "send"
    /\ \E i \in bg.batch :
          \/ /\ StillUnsent(i)
             /\ attempts' = [attempts EXCEPT ![i] = @ + 1]
             /\ \E answer \in Answers :
                   bg' = [bg EXCEPT !.batch = @ \ {i}, !.marked = @ \union {i},
                             !.refused = IF answer = "refused" THEN @ \union {i} ELSE @]
          \/ /\ ~StillUnsent(i)
             /\ bg' = [bg EXCEPT !.batch = @ \ {i}]
             /\ UNCHANGED attempts
    /\ UNCHANGED <<enabled, edges, mails>>

\* Mutant: nothing commits the marks.
Forgotten == mails

\* The rows once the marks are committed.
Committed ==
    [i \in Ids |-> IF i \in bg.marked THEN [mails[i] EXCEPT !.sent = TRUE] ELSE mails[i]]

\* prune_old_traces commits, and with it the marks of the whole batch.
BgCommit ==
    /\ bg.at = "send" /\ bg.batch = {}
    /\ mails' = Committed
    /\ attempts' = [i \in Ids |-> IF mails'[i].sent THEN 0 ELSE attempts[i]]
    /\ bg' = Idle
    /\ UNCHANGED <<enabled, edges>>

\* An exception other than SMTPException, or a kill: os._exit and a restart.
BgCrash ==
    /\ bg.at # "idle" /\ Len(mails) <= MaxMails
    /\ bg' = Idle
    /\ attempts' = [i \in Ids |-> 0]
    /\ UNCHANGED <<enabled, edges, mails>>

\* Time passes.
MembershipExpires(g, u) ==
    /\ edges[g][u] = "temp"
    /\ edges' = [edges EXCEPT ![g][u] = "expired"]
    /\ UNCHANGED <<enabled, mails, attempts, bg>>

Processor == BgStart \/ BgNotify \/ BgDeactivate \/ BgLoad \/ BgSend \/ BgCommit

MailNext ==
    \/ Processor
    \/ BgCrash
    \/ \E g \in Groups, u \in Users : MembershipExpires(g, u)

=============================================================================
