---------------------------- MODULE Audits_proofs ----------------------------
(***************************************************************************)
(* Proofs about Audits and the queue of e-mails, for every number of       *)
(* users, groups, processes, mails and audits: types, that no mail is      *)
(* tried twice, that no membership expires in silence, and, where requests *)
(* leave each other's audits alone, that a completed audit is one whose    *)
(* removals have been carried out.                                         *)
(***************************************************************************)
EXTENDS Audits, FiniteSetTheorems, TLAPS

-----------------------------------------------------------------------------
(* The queue of e-mails.                                                   *)

Key == ({"audit"} \X Groups) \union ({"expired"} \X Groups \X Users)
Mail == [key : Key, to : SUBSET Users, later : BOOLEAN, sent : BOOLEAN]
Memberships == Groups \X Users
Processing == [at : {"idle", "expire", "deactivate", "send"},
               edges : SUBSET Memberships, edge : Memberships \union {<< >>},
               batch : SUBSET Nat, marked : SUBSET Nat, refused : SUBSET Nat]

MailType ==
    /\ enabled \subseteq Groups
    /\ edges \in [Groups -> [Users -> EdgeStates]]
    /\ mails \in Seq(Mail)
    /\ attempts \in Seq({0, 1}) /\ Len(attempts) = Len(mails)
    /\ bg \in Processing

\* The notice of the membership that is about to be ended is in the queue.
Announced ==
    /\ bg.edge \in Memberships
    /\ \E i \in Ids : /\ mails[i].key = <<"expired", bg.edge[1], bg.edge[2]>>
                      /\ bg.edge[2] \in mails[i].to

\* What was tried in this life is marked, and what is marked has left the batch.
MailInv ==
    /\ MailType
    /\ bg.batch \union bg.marked \subseteq Ids
    /\ bg.batch \cap bg.marked = {}
    /\ bg.at # "send" => bg.batch = {} /\ bg.marked = {}
    /\ \A i \in Ids : attempts[i] # 0 => i \in bg.marked
    /\ bg.at = "deactivate" => Announced

\* A new mail comes last and has not been tried.
LEMMA Queued ==
    ASSUME MailType, NEW to \in SUBSET Users, NEW key \in Key, NEW later \in BOOLEAN,
           SendAsyncEmail(to, key, later)
    PROVE  /\ mails' \in Seq(Mail) /\ attempts' \in Seq({0, 1})
           /\ Len(mails) \in Nat /\ Len(mails') = Len(mails) + 1
           /\ Len(attempts') = Len(mails')
           /\ \A i \in Ids : mails'[i] = mails[i] /\ attempts'[i] = attempts[i]
           /\ attempts'[Len(mails')] = 0
           /\ mails'[Len(mails')].key = key /\ mails'[Len(mails')].to = to
<1> DEFINE m == [key |-> key, to |-> to, later |-> later, sent |-> FALSE]
<1>1. m \in Mail
  BY DEF Mail
<1>2. mails' = Append(mails, m) /\ attempts' = Append(attempts, 0)
  BY DEF SendAsyncEmail
<1>3. m.key = key /\ m.to = to
  OBVIOUS
<1> HIDE DEF m
<1>4. /\ mails' \in Seq(Mail) /\ Len(mails) \in Nat /\ Len(mails') = Len(mails) + 1
      /\ \A i \in Ids : mails'[i] = mails[i]
      /\ mails'[Len(mails) + 1] = m
  BY <1>1, <1>2 DEF MailType, Ids
<1>5. /\ attempts' \in Seq({0, 1}) /\ Len(attempts') = Len(mails) + 1
      /\ \A i \in Ids : attempts'[i] = attempts[i]
      /\ attempts'[Len(mails) + 1] = 0
  BY <1>2 DEF MailType, Ids
<1> QED
  BY <1>3, <1>4, <1>5

\* Marking rows as sent changes nothing else of them.
LEMMA Ticked ==
    ASSUME MailType, NEW T,
           mails' = [i \in Ids |-> IF i \in T THEN [mails[i] EXCEPT !.sent = TRUE]
                                   ELSE mails[i]]
    PROVE  /\ mails' \in Seq(Mail) /\ Len(mails) \in Nat /\ Len(mails') = Len(mails)
           /\ \A i \in Ids : /\ mails'[i].key = mails[i].key
                             /\ mails'[i].to = mails[i].to
                             /\ i \in T => mails'[i].sent
<1>1. \A m \in Mail : LET n == [m EXCEPT !.sent = TRUE]
                      IN  n \in Mail /\ n.key = m.key /\ n.to = m.to /\ n.sent
  BY DEF Mail
<1>2. Len(mails) \in Nat /\ \A i \in Ids : mails[i] \in Mail
  BY DEF MailType, Ids
<1>3. mails' \in [1..Len(mails) -> Mail]
  BY <1>1, <1>2 DEF Ids
<1>4. mails' \in Seq(Mail) /\ Len(mails') = Len(mails)
  BY <1>2, <1>3
<1> QED
  BY <1>1, <1>2, <1>4

\* As long as the queue and the processor are left alone.
LEMMA MembershipsMove ==
    ASSUME MailInv, UNCHANGED <<mails, attempts, bg>>, enabled' \subseteq Groups,
           edges' \in [Groups -> [Users -> EdgeStates]]
    PROVE  MailInv'
BY DEF MailInv, MailType, Announced, Ids

LEMMA MailIsAdded ==
    ASSUME MailInv, UNCHANGED <<enabled, edges, bg>>,
           NEW to \in SUBSET Users, NEW key \in Key, NEW later \in BOOLEAN,
           SendAsyncEmail(to, key, later)
    PROVE  MailInv'
<1>1. MailType
  BY DEF MailInv
<1>2. /\ Len(mails) \in Nat /\ Len(mails') = Len(mails) + 1
      /\ \A i \in Ids : mails'[i] = mails[i] /\ attempts'[i] = attempts[i]
      /\ attempts'[Len(mails')] = 0
  BY <1>1, Queued
<1>3. MailType'
  BY <1>1, Queued DEF MailType
<1>4. Announced => Announced'
  BY <1>2 DEF Announced, Ids
<1>5. (\A i \in Ids : attempts[i] # 0 => i \in bg.marked)'
  BY <1>2 DEF MailInv, Ids
<1> QED
  BY <1>2, <1>3, <1>4, <1>5 DEF MailInv, Ids

LEMMA MailIsCancelled ==
    ASSUME MailInv, UNCHANGED <<enabled, edges, attempts, bg>>,
           NEW key, CancelAsyncEmails(key)
    PROVE  MailInv'
<1>1. MailType
  BY DEF MailInv
<1>2. mails' = [i \in Ids |-> IF i \in {j \in Ids : mails[j].key = key}
                              THEN [mails[i] EXCEPT !.sent = TRUE] ELSE mails[i]]
  BY DEF CancelAsyncEmails
<1> QED
  BY <1>1, <1>2, Ticked DEF MailInv, MailType, Announced, Ids

\* The steps of the processor.
LEMMA MailKeeps ==
    ASSUME MailInv, MailNext
    PROVE  MailInv'
<1> USE DEF Ids
<1>1. CASE BgStart
  BY <1>1 DEF BgStart, MailInv, MailType, Processing, ExpiredEdges, Memberships
<1>2. ASSUME NEW e \in bg.edges, bg.at = "expire", NotifyEdgeExpiration(e),
             bg' = [bg EXCEPT !.at = "deactivate", !.edge = e, !.edges = @ \ {e}],
             UNCHANGED <<enabled, edges>>
      PROVE  MailInv'
  <2>1. e \in Memberships /\ MailType
    BY DEF MailInv, MailType, Processing
  <2>2. {e[2]} \in SUBSET Users /\ <<"expired", e[1], e[2]>> \in Key /\ FALSE \in BOOLEAN
    BY <2>1 DEF Memberships, Key
  <2>3. SendAsyncEmail({e[2]}, <<"expired", e[1], e[2]>>, FALSE)
    BY <1>2 DEF NotifyEdgeExpiration
  <2>4. bg' \in Processing /\ bg'.at = "deactivate" /\ bg'.edge = e
        /\ bg'.batch = bg.batch /\ bg'.marked = bg.marked
    BY <1>2, <2>1 DEF MailType, Processing
  <2>5. MailType'
    BY <1>2, <2>1, <2>2, <2>3, <2>4, Queued DEF MailType
  <2> DEFINE k == Len(mails')
  <2>6. /\ k \in Ids' /\ k \in Nat /\ Ids \subseteq Ids'
        /\ \A i \in Ids' : i \in Ids \/ i = k
        /\ mails'[k].key = <<"expired", e[1], e[2]>> /\ mails'[k].to = {e[2]}
        /\ attempts'[k] = 0 /\ \A i \in Ids : attempts'[i] = attempts[i]
    <3>1. /\ Len(mails) \in Nat /\ k = Len(mails) + 1
          /\ \A i \in Ids : attempts'[i] = attempts[i]
          /\ attempts'[k] = 0
          /\ mails'[k].key = <<"expired", e[1], e[2]>> /\ mails'[k].to = {e[2]}
      BY <2>1, <2>2, <2>3, Queued
    <3> QED
      BY <3>1
  <2> HIDE DEF k
  <2>7. Announced'
    BY <2>1, <2>4, <2>6 DEF Announced
  <2>8. /\ (bg.batch \union bg.marked \subseteq Ids)'
        /\ (\A i \in Ids : attempts[i] # 0 => i \in bg.marked)'
    BY <2>4, <2>6 DEF MailInv
  <2> QED
    BY <1>2, <2>4, <2>5, <2>7, <2>8 DEF MailInv
<1>3. CASE BgDeactivate
  BY <1>3 DEF BgDeactivate, MailInv, MailType, Processing, Announced, Memberships, EdgeStates
<1>4. CASE BgLoad
  <2>1. /\ UNCHANGED <<enabled, edges, mails, attempts>> /\ bg.at = "expire"
        /\ \E b \in SUBSET Ids : bg' = [bg EXCEPT !.at = "send", !.batch = b]
    BY <1>4 DEF BgLoad
  <2>2. Ids \subseteq Nat
    OBVIOUS
  <2>3. /\ bg' \in Processing /\ bg'.at = "send" /\ bg'.marked = bg.marked
        /\ bg'.batch \subseteq Ids
    BY <2>1, <2>2 DEF MailInv, MailType, Processing
  <2>4. MailType'
    BY <2>1, <2>3 DEF MailInv, MailType
  <2> QED
    BY <2>1, <2>3, <2>4 DEF MailInv
<1>5. ASSUME NEW i \in bg.batch, bg.at = "send", UNCHANGED <<enabled, edges, mails>>,
             attempts' = [attempts EXCEPT ![i] = @ + 1],
             NEW answer \in Answers,
             bg' = [bg EXCEPT !.batch = @ \ {i}, !.marked = @ \union {i},
                              !.refused = IF answer = "refused" THEN @ \union {i} ELSE @]
      PROVE  MailInv'
  <2>1. i \in Ids /\ i \in Nat /\ i \notin bg.marked /\ attempts[i] = 0
    BY DEF MailInv, MailType, Processing
  <2>2. bg' \in Processing /\ bg'.at = "send" /\ bg'.batch = bg.batch \ {i}
        /\ bg'.marked = bg.marked \union {i}
    BY <1>5, <2>1 DEF MailInv, MailType, Processing
  <2>3. /\ attempts' \in Seq({0, 1}) /\ Len(attempts') = Len(attempts)
        /\ \A j \in Ids : j # i => attempts'[j] = attempts[j]
    BY <1>5, <2>1 DEF MailInv, MailType
  <2> QED
    BY <1>5, <2>1, <2>2, <2>3 DEF MailInv, MailType
<1>6. ASSUME NEW i \in bg.batch, bg.at = "send", UNCHANGED <<enabled, edges, mails, attempts>>,
             bg' = [bg EXCEPT !.batch = @ \ {i}]
      PROVE  MailInv'
  BY <1>6 DEF MailInv, MailType, Processing
<1>7. CASE BgCommit
  <2>1. MailType
    BY DEF MailInv
  <2>2. mails' = [i \in Ids |-> IF i \in bg.marked THEN [mails[i] EXCEPT !.sent = TRUE]
                                ELSE mails[i]]
    BY <1>7 DEF BgCommit, Committed
  <2>3. \A i \in Ids : (IF mails'[i].sent THEN 0 ELSE attempts[i]) = 0
    BY <2>1, <2>2, Ticked DEF MailInv, MailType
  <2>4. attempts' = [i \in 1..Len(mails) |-> 0] /\ bg' = Idle
    BY <1>7, <2>3 DEF BgCommit
  <2>5. attempts' \in Seq({0, 1}) /\ Len(attempts') = Len(mails)
    BY <2>1, <2>4 DEF MailType
  <2>6. Idle \in Processing
    BY DEF Idle, Processing
  <2>7. mails' \in Seq(Mail) /\ Len(mails') = Len(mails) /\ Len(mails) \in Nat
    BY <2>1, <2>2, Ticked
  <2>8. UNCHANGED <<enabled, edges>>
    BY <1>7 DEF BgCommit
  <2>9. MailType'
    BY <2>1, <2>4, <2>5, <2>6, <2>7, <2>8 DEF MailType
  <2> QED
    BY <2>4, <2>7, <2>9 DEF MailInv, Idle
<1>8. CASE BgCrash
  <2>1. attempts' = [i \in 1..Len(mails) |-> 0] /\ bg' = Idle /\ Len(mails) \in Nat
    BY <1>8 DEF BgCrash, MailInv, MailType
  <2>2. attempts' \in Seq({0, 1}) /\ Len(attempts') = Len(mails)
    BY <2>1
  <2>3. Idle \in Processing
    BY DEF Idle, Processing
  <2> QED
    BY <1>8, <2>1, <2>2, <2>3 DEF BgCrash, MailInv, MailType, Idle
<1>9. ASSUME NEW g \in Groups, NEW u \in Users, MembershipExpires(g, u)
      PROVE  MailInv'
  <2>1. enabled' \subseteq Groups /\ edges' \in [Groups -> [Users -> EdgeStates]]
    BY <1>9 DEF MembershipExpires, MailInv, MailType, EdgeStates
  <2> QED
    BY <1>9, <2>1, MembershipsMove DEF MembershipExpires
<1>10. CASE BgNotify
  BY <1>2, <1>10 DEF BgNotify
<1>11. CASE BgSend
  BY <1>5, <1>6, <1>11 DEF BgSend
<1> QED
  BY <1>1, <1>3, <1>4, <1>7, <1>8, <1>9, <1>10, <1>11 DEF MailNext, Processor

-----------------------------------------------------------------------------
(* The audits.                                                             *)

AuditRow == [group : Groups, state : {"open", "complete"},
             status : [Users -> Statuses \union {"none"}]]

\* Where a request is, and what it has in hand.
Stage == [at : {"idle", "insert"}]
         \union [at : {"remind"}, groups : SUBSET Groups]
         \union [at : {"review", "check"}, audit : Nat, actor : Users]
         \union [at : {"enact"}, audit : Nat, remove : SUBSET Users]
         \union [at : {"cancel", "disabled"}, group : Groups]

Reviewing == {"review", "check", "enact"}

AuditInv ==
    /\ audits \in Seq(AuditRow)
    /\ current \in [Groups -> 0..Len(audits)]
    /\ back \subseteq Groups \X Users
    /\ pc \in [Procs -> Stage]
    /\ \A p \in Procs : pc[p].at \in Reviewing => pc[p].audit \in AuditRows

IInv == MailInv /\ AuditInv

LEMMA StageFields ==
    ASSUME NEW s \in Stage
    PROVE  /\ s.at \in {"idle", "insert", "remind", "review", "check", "enact",
                        "cancel", "disabled"}
           /\ s.at = "remind" => s \in [at : {"remind"}, groups : SUBSET Groups]
           /\ s.at \in {"review", "check"} =>
                 s \in [at : {"review", "check"}, audit : Nat, actor : Users]
           /\ s.at = "enact" => s \in [at : {"enact"}, audit : Nat, remove : SUBSET Users]
           /\ s.at \in {"cancel", "disabled"} =>
                 s \in [at : {"cancel", "disabled"}, group : Groups]
BY DEF Stage

\* Every finite set can be put into a sequence, each element once.
LEMMA InOrder ==
    ASSUME NEW S, IsFiniteSet(S)
    PROVE  LET order == SetToSeq(S)
           IN  /\ DOMAIN order = 1..Cardinality(S) /\ Cardinality(S) \in Nat
               /\ \A i \in DOMAIN order : order[i] \in S
               /\ \A i, j \in DOMAIN order : order[i] = order[j] => i = j
               /\ \A x \in S : \E i \in DOMAIN order : order[i] = x
<1> DEFINE n == Cardinality(S)
           order == SetToSeq(S)
<1>1. n \in Nat /\ ExistsBijection(1..n, S)
  BY FS_CardinalityType
<1>2. \E f \in [1..n -> S] : IsInjective(f)
  BY <1>1 DEF ExistsBijection, Bijection, Injection, IsInjective
<1>3. order \in [1..n -> S] /\ IsInjective(order)
  BY <1>2 DEF SetToSeq
<1>4. order \in Injection(1..n, S)
  BY <1>3 DEF Injection, IsInjective
<1>5. IsFiniteSet(1..n) /\ Cardinality(1..n) = n
  BY <1>1, FS_Interval
<1>6. order \in Surjection(1..n, S)
  BY <1>4, <1>5, FS_Injection
<1> QED
  BY <1>1, <1>3, <1>4, <1>6 DEF Injection, Surjection, IsInjective

\* What InsertAudits does for the groups that the graph knows.
Insertion(known) ==
    LET order == SetToSeq(known)
        Row(g) == CHOOSE i \in DOMAIN order : order[i] = g
    IN  /\ audits' = audits \o [i \in DOMAIN order |-> NewAudit(order[i])]
        /\ current' = [g \in Groups |-> IF g \in known THEN Len(audits) + Row(g)
                                        ELSE current[g]]

\* The audits of one request: one for each group that it knows, and that is the
\* current one of the group from then on.
LEMMA Inserted ==
    ASSUME AuditAssumption, AuditInv, NEW known \in SUBSET Audited,
           Insertion(known)
    PROVE  /\ audits' \in Seq(AuditRow) /\ current' \in [Groups -> 0..Len(audits')]
           /\ Len(audits) \in Nat /\ Len(audits') \in Nat /\ Len(audits') >= Len(audits)
           /\ \A a \in AuditRows : audits'[a] = audits[a]
           /\ \A a \in AuditRows' : a \notin AuditRows =>
                 audits'[a].group \in known /\ current'[audits'[a].group] = a
           /\ \A g \in Groups : IF g \in known THEN audits'[current'[g]].group = g
                                ELSE current'[g] = current[g]
<1> DEFINE order == SetToSeq(known)
           n == Cardinality(known)
           Row(g) == CHOOSE i \in DOMAIN order : order[i] = g
           new == [i \in DOMAIN order |-> NewAudit(order[i])]
<1>1. IsFiniteSet(known)
  BY FS_Subset DEF AuditAssumption
<1>2. /\ DOMAIN order = 1..n /\ n \in Nat
      /\ \A i \in 1..n : order[i] \in known
      /\ \A i, j \in 1..n : order[i] = order[j] => i = j
      /\ \A x \in known : \E i \in 1..n : order[i] = x
  BY <1>1, InOrder
<1> HIDE DEF order, n
<1>3. known \subseteq Groups
  BY DEF AuditAssumption
<1>4. \A g \in Groups : NewAudit(g) \in AuditRow /\ NewAudit(g).group = g
  BY DEF NewAudit, AuditRow, Statuses
<1>5. new \in [1..n -> AuditRow] /\ \A i \in 1..n : new[i].group = order[i]
  BY <1>2, <1>3, <1>4
<1>6. new \in Seq(AuditRow) /\ Len(new) = n
  BY <1>2, <1>5
<1>7. /\ audits' = audits \o new
      /\ current' = [g \in Groups |-> IF g \in known THEN Len(audits) + Row(g)
                                      ELSE current[g]]
  BY DEF Insertion, order
<1> HIDE DEF new, Row
<1>8. /\ audits' \in Seq(AuditRow) /\ Len(audits') = Len(audits) + n /\ Len(audits) \in Nat
      /\ \A a \in 1..Len(audits) : audits'[a] = audits[a]
      /\ \A i \in 1..n : audits'[Len(audits) + i] = new[i]
  <2>1. audits \in Seq(AuditRow)
    BY DEF AuditInv
  <2> DEFINE s == audits \o new
  <2>2. s \in Seq(AuditRow) /\ Len(s) = Len(audits) + Len(new) /\ Len(audits) \in Nat
    BY <1>6, <2>1
  <2>3. \A i \in 1..Len(audits) : s[i] = audits[i]
    BY <1>6, <2>1
  <2>4. \A i \in 1..Len(new) : s[Len(audits) + i] = new[i]
    BY <1>6, <2>1
  <2> QED
    BY <1>6, <1>7, <2>2, <2>3, <2>4
<1>9. \A g \in known : Row(g) \in 1..n /\ order[Row(g)] = g
  BY <1>2 DEF Row
<1>10. current' \in [Groups -> 0..Len(audits')]
  <2>1. ASSUME NEW g \in Groups
        PROVE  (IF g \in known THEN Len(audits) + Row(g) ELSE current[g]) \in 0..Len(audits')
    BY <1>2, <1>8, <1>9 DEF AuditInv
  <2> QED
    BY <1>7, <2>1
<1>11. ASSUME NEW a \in AuditRows', a \notin AuditRows
       PROVE  audits'[a].group \in known /\ current'[audits'[a].group] = a
  <2>1. PICK i \in 1..n : a = Len(audits) + i
    <3>1. a - Len(audits) \in 1..n /\ a = Len(audits) + (a - Len(audits))
      BY <1>2, <1>8, <1>11 DEF AuditRows
    <3> QED
      BY <3>1
  <2>2. audits'[a].group = order[i] /\ order[i] \in known
    BY <1>2, <1>5, <1>8, <2>1
  <2>3. Row(order[i]) = i
    BY <1>2, <1>9, <2>2
  <2> QED
    BY <1>3, <1>7, <2>1, <2>2, <2>3
<1>12. Len(audits') \in Nat /\ Len(audits') >= Len(audits)
  BY <1>2, <1>8
<1>13. \A a \in AuditRows : audits'[a] = audits[a]
  BY <1>8 DEF AuditRows
<1>14. ASSUME NEW g \in Groups
       PROVE  IF g \in known THEN audits'[current'[g]].group = g ELSE current'[g] = current[g]
  <2>1. CASE g \in known
    <3>1. current'[g] = Len(audits) + Row(g)
      BY <1>7, <2>1
    <3>2. audits'[Len(audits) + Row(g)] = new[Row(g)] /\ new[Row(g)].group = g
      BY <1>5, <1>8, <1>9, <2>1
    <3> QED
      BY <2>1, <3>1, <3>2
  <2>2. CASE g \notin known
    BY <1>7, <2>2
  <2> QED
    BY <2>1, <2>2
<1> QED
  BY <1>8, <1>10, <1>11, <1>12, <1>13, <1>14

LEMMA RowFields ==
    ASSUME AuditInv, NEW a \in AuditRows
    PROVE  /\ audits[a] \in AuditRow
           /\ audits[a].group \in Groups
           /\ audits[a].state \in {"open", "complete"}
           /\ audits[a].status \in [Users -> Statuses \union {"none"}]
<1>1. audits[a] \in AuditRow
  BY DEF AuditInv, AuditRows
<1> QED
  BY <1>1 DEF AuditRow

\* Completing an audit, if there is one of that number.
LEMMA Completed ==
    ASSUME AuditInv, NEW a, audits' = [audits EXCEPT ![a].state = "complete"]
    PROVE  /\ audits' \in Seq(AuditRow) /\ Len(audits') = Len(audits) /\ Len(audits) \in Nat
           /\ \A i \in AuditRows : /\ audits'[i].group = audits[i].group
                                   /\ audits'[i].status = audits[i].status
                                   /\ audits'[i].state = IF i = a THEN "complete"
                                                         ELSE audits[i].state
<1>1. Len(audits) \in Nat /\ audits \in [AuditRows -> AuditRow]
  BY DEF AuditInv, AuditRows
<1>2. \A r \in AuditRow : LET s == [r EXCEPT !.state = "complete"]
                          IN  /\ s \in AuditRow /\ s.group = r.group
                              /\ s.status = r.status /\ s.state = "complete"
  BY DEF AuditRow
<1>3. audits' \in [AuditRows -> AuditRow]
  BY <1>1, <1>2
<1>4. audits' \in Seq(AuditRow) /\ Len(audits') = Len(audits)
  BY <1>1, <1>3 DEF AuditRows
<1> QED
  BY <1>1, <1>2, <1>4

\* A review touches the statuses of one audit.
LEMMA Reviewed ==
    ASSUME AuditInv, NEW a, NEW t,
           a \in AuditRows => t \in [Users -> Statuses \union {"none"}],
           audits' = [audits EXCEPT ![a].status = t]
    PROVE  /\ audits' \in Seq(AuditRow) /\ Len(audits') = Len(audits) /\ Len(audits) \in Nat
           /\ \A i \in AuditRows : /\ audits'[i].group = audits[i].group
                                   /\ audits'[i].state = audits[i].state
                                   /\ i # a => audits'[i].status = audits[i].status
<1>1. Len(audits) \in Nat /\ audits \in [AuditRows -> AuditRow]
  BY DEF AuditInv, AuditRows
<1>2. \A r \in AuditRow : \A v \in [Users -> Statuses \union {"none"}] :
          LET s == [r EXCEPT !.status = v]
          IN  s \in AuditRow /\ s.group = r.group /\ s.state = r.state
  BY DEF AuditRow
<1>3. audits' \in [AuditRows -> AuditRow]
  BY <1>1, <1>2
<1>4. audits' \in Seq(AuditRow) /\ Len(audits') = Len(audits)
  BY <1>1, <1>3 DEF AuditRows
<1> QED
  BY <1>1, <1>2, <1>4

\* A request that moves on, next to audits that are at least as many.
LEMMA MovesOn ==
    ASSUME AuditInv, NEW p \in Procs, NEW r \in Stage, Goto(p, r),
           r.at \in Reviewing => r.audit \in 1..Len(audits'),
           audits' \in Seq(AuditRow), Len(audits) <= Len(audits'),
           current' \in [Groups -> 0..Len(audits')], back' \subseteq Groups \X Users
    PROVE  AuditInv'
<1>1. pc' = [pc EXCEPT ![p] = r]
  BY DEF Goto
<1>2. pc' \in [Procs -> Stage]
  BY <1>1 DEF AuditInv
<1>3. Len(audits) \in Nat /\ Len(audits') \in Nat
  BY DEF AuditInv
<1>4. \A q \in Procs : pc[q].at \in Reviewing => pc[q].audit \in AuditRows'
  BY <1>3 DEF AuditInv, AuditRows
<1>5. \A q \in Procs : pc'[q] = IF q = p THEN r ELSE pc[q]
  BY <1>1 DEF AuditInv
<1>6. (\A q \in Procs : pc[q].at \in Reviewing => pc[q].audit \in AuditRows)'
  BY <1>4, <1>5 DEF AuditRows
<1> QED
  BY <1>2, <1>6 DEF AuditInv

\* A request that moves on and leaves the audits alone.
LEMMA Proceeds ==
    ASSUME AuditInv, NEW p \in Procs, NEW r \in Stage, Goto(p, r),
           r.at \in Reviewing => r.audit \in AuditRows,
           UNCHANGED <<audits, current, back>>
    PROVE  AuditInv'
<1>1. audits' \in Seq(AuditRow) /\ Len(audits) \in Nat /\ Len(audits') = Len(audits)
  BY DEF AuditInv
<1> QED
  BY <1>1, MovesOn DEF AuditInv, AuditRows

LEMMA NoneIsIdle == None \in Stage /\ None.at = "idle"
BY DEF None, Stage

\* The steps of a request keep the types of the audits.
LEMMA HandlersKeep ==
    ASSUME AuditAssumption, AuditInv, NEW p \in Procs,
           \/ AuditsCreate(p) \/ InsertAudits(p) \/ RemindOwners(p)
           \/ \E a \in AuditRows, actor \in Users : AuditsComplete(p, a, actor)
           \/ CommitReview(p) \/ CheckPending(p) \/ Enact(p)
           \/ CommitComplete(p) \/ CancelReminders(p)
           \/ \E g \in Groups : GroupDisable(p, g)
           \/ CompleteDisabled(p)
           \/ Crash(p)
    PROVE  AuditInv'
<1>0. pc[p] \in Stage /\ Len(audits) \in Nat
  BY DEF AuditInv
<1>1. CASE AuditsCreate(p)
  <2>1. [at |-> "insert"] \in Stage
    BY DEF Stage
  <2> QED
    BY <1>1, <2>1, Proceeds DEF AuditsCreate, Reviewing
<1>2. CASE InsertAudits(p)
  <2>1. PICK known \in SUBSET Audited :
           /\ Insertion(known)
           /\ back' = {e \in back : e[1] \notin known}
           /\ Goto(p, [at |-> "remind", groups |-> known])
    BY <1>2 DEF InsertAudits, Insertion
  <2>2. [at |-> "remind", groups |-> known] \in Stage
    BY DEF Stage, AuditAssumption
  <2>3. back' \subseteq Groups \X Users
    BY <2>1 DEF AuditInv
  <2> QED
    BY <2>1, <2>2, <2>3, Inserted, MovesOn DEF Reviewing
<1>3. CASE RemindOwners(p)
  <2>1. pc[p] \in [at : {"remind"}, groups : SUBSET Groups]
    BY <1>0, <1>3, StageFields DEF RemindOwners
  <2>2. \A g : LET r == [pc[p] EXCEPT !.groups = @ \ {g}]
               IN  r \in [at : {"remind"}, groups : SUBSET Groups]
    BY <2>1
  <2>3. \A r \in [at : {"remind"}, groups : SUBSET Groups] : r \in Stage /\ r.at = "remind"
    BY DEF Stage
  <2> QED
    BY <1>3, <2>2, <2>3, NoneIsIdle, Proceeds DEF RemindOwners, Reviewing
<1>4. ASSUME NEW a \in AuditRows, NEW actor \in Users, AuditsComplete(p, a, actor)
      PROVE  AuditInv'
  <2>1. [at |-> "review", audit |-> a, actor |-> actor] \in Stage
    BY <1>0 DEF Stage, AuditRows
  <2> QED
    BY <1>4, <2>1, Proceeds DEF AuditsComplete
<1>5. CASE CommitReview(p)
  <2> DEFINE g == audits[pc[p].audit].group
             actor == pc[p].actor
  <2>1. PICK form \in [Covered(g) -> Statuses \union {"none"}] :
           audits' = [audits EXCEPT ![current[g]].status =
                        [u \in Users |->
                            IF u \notin Covered(g) \/ form[u] = "none" THEN @[u]
                            ELSE IF IdOf[u] = IdOf[actor] THEN "approved"
                            ELSE form[u]]]
    BY <1>5 DEF CommitReview
  <2> DEFINE f(s) == [u \in Users |->
                         IF u \notin Covered(g) \/ form[u] = "none" THEN s[u]
                         ELSE IF IdOf[u] = IdOf[actor] THEN "approved"
                         ELSE form[u]]
  <2>2. \A s \in [Users -> Statuses \union {"none"}] : f(s) \in [Users -> Statuses \union {"none"}]
    BY DEF Statuses
  <2>3. \A a \in AuditRows : audits[a].status \in [Users -> Statuses \union {"none"}]
    BY RowFields
  <2>4. audits' = [audits EXCEPT ![current[g]].status = f(audits[current[g]].status)]
    BY <2>1
  <2> HIDE DEF f
  <2>5. audits' \in Seq(AuditRow) /\ Len(audits') = Len(audits)
    BY <2>2, <2>3, <2>4, Reviewed
  <2>6. pc[p] \in [at : {"review", "check"}, audit : Nat, actor : Users]
        /\ pc[p].audit \in AuditRows
    BY <1>0, <1>5, StageFields DEF CommitReview, AuditInv, Reviewing
  <2>7. LET r == [pc[p] EXCEPT !.at = "check"]
        IN  r \in Stage /\ r.audit \in AuditRows
    BY <2>6 DEF Stage
  <2>8. /\ Goto(p, [pc[p] EXCEPT !.at = "check"])
        /\ current' \in [Groups -> 0..Len(audits')] /\ back' \subseteq Groups \X Users
    BY <1>5, <2>5 DEF CommitReview, AuditInv
  <2> QED
    <3> DEFINE r == [pc[p] EXCEPT !.at = "check"]
    <3>1. r.audit \in 1..Len(audits') /\ r \in Stage
      BY <2>5, <2>7 DEF AuditRows
    <3>2. Goto(p, r)
      BY <2>8
    <3> HIDE DEF r
    <3> QED
      BY <1>0, <2>5, <2>8, <3>1, <3>2, MovesOn
<1>6. CASE CheckPending(p)
  <2> DEFINE removed == {u \in Covered(audits[pc[p].audit].group) :
                            StatusIn(audits[pc[p].audit].group, u) = "remove"}
             r == [at |-> "enact", audit |-> pc[p].audit, remove |-> removed]
  <2>1. pc[p].audit \in AuditRows
    BY <1>6 DEF CheckPending, AuditInv, Reviewing
  <2>2. r \in Stage /\ r.audit \in AuditRows
    <3>1. \A g : Covered(g) \subseteq Users
      BY DEF Covered
    <3>2. removed \in SUBSET Users
      BY <3>1
    <3>3. pc[p].audit \in Nat
      BY <2>1 DEF AuditRows
    <3> HIDE DEF removed
    <3> QED
      BY <2>1, <3>2, <3>3 DEF Stage
  <2>3. Goto(p, None) \/ Goto(p, r)
    BY <1>6 DEF CheckPending
  <2> HIDE DEF removed, r
  <2> QED
    BY <1>6, <2>2, <2>3, NoneIsIdle, Proceeds DEF CheckPending, Reviewing
<1>7. CASE Enact(p)
  <2>1. pc[p] \in [at : {"enact"}, audit : Nat, remove : SUBSET Users]
        /\ pc[p].audit \in AuditRows
    BY <1>0, <1>7, StageFields DEF Enact, AuditInv, Reviewing
  <2>2. \A u : LET r == [pc[p] EXCEPT !.remove = @ \ {u}]
               IN  r \in Stage /\ r.audit \in AuditRows
    BY <2>1 DEF Stage
  <2> QED
    BY <1>7, <2>2, NoneIsIdle, Proceeds DEF Enact, Reviewing
<1>8. CASE CommitComplete(p)
  <2>1. pc[p].audit \in AuditRows
    BY <1>8 DEF CommitComplete, AuditInv, Reviewing
  <2>2. audits[pc[p].audit].group \in Groups
    BY <2>1, RowFields
  <2>3. LET r == [at |-> "cancel", group |-> audits[pc[p].audit].group]
        IN  r \in Stage /\ r.at = "cancel"
    BY <2>2 DEF Stage
  <2>4. audits' \in Seq(AuditRow) /\ Len(audits') = Len(audits)
    BY <1>8, Completed DEF CommitComplete
  <2>5. /\ current' \in [Groups -> 0..Len(audits')]
        /\ back' \subseteq Groups \X Users
        /\ Goto(p, [at |-> "cancel", group |-> audits[pc[p].audit].group])
    BY <1>8, <2>4 DEF CommitComplete, AuditInv
  <2> QED
    BY <1>0, <2>3, <2>4, <2>5, MovesOn DEF Reviewing
<1>9. CASE CancelReminders(p)
  BY <1>9, NoneIsIdle, Proceeds DEF CancelReminders, Reviewing
<1>10. ASSUME NEW g \in Groups, GroupDisable(p, g)
       PROVE  AuditInv'
  <2>1. LET r == [at |-> "disabled", group |-> g] IN r \in Stage /\ r.at = "disabled"
    BY DEF Stage
  <2> QED
    BY <1>10, <2>1, Proceeds DEF GroupDisable, Reviewing
<1>11. CASE CompleteDisabled(p)
  <2>1. pc[p].group \in Groups
    BY <1>0, <1>11, StageFields DEF CompleteDisabled
  <2>2. LET r == [at |-> "cancel", group |-> pc[p].group] IN r \in Stage /\ r.at = "cancel"
    BY <2>1 DEF Stage
  <2>3. audits' \in Seq(AuditRow) /\ Len(audits') = Len(audits)
    BY <1>11, Completed DEF CompleteDisabled, AuditInv
  <2>4. current' \in [Groups -> 0..Len(audits')] /\ back' \subseteq Groups \X Users
    BY <1>11, <2>3 DEF CompleteDisabled, AuditInv
  <2>5. Goto(p, None) \/ Goto(p, [at |-> "cancel", group |-> pc[p].group])
    BY <1>11 DEF CompleteDisabled
  <2> QED
    BY <1>0, <2>2, <2>3, <2>4, <2>5, NoneIsIdle, MovesOn DEF Reviewing
<1>12. CASE Crash(p)
  BY <1>12, NoneIsIdle, Proceeds DEF Crash, Reviewing
<1> QED
  BY <1>1, <1>2, <1>3, <1>4, <1>5, <1>6, <1>7, <1>8, <1>9, <1>10, <1>11, <1>12

\* The steps of a request keep the queue in order, and move memberships only to
\* states that there are.
LEMMA HandlersMail ==
    ASSUME MailAssumption, IInv, NEW p \in Procs,
           \/ AuditsCreate(p) \/ InsertAudits(p) \/ RemindOwners(p)
           \/ \E a \in AuditRows, actor \in Users : AuditsComplete(p, a, actor)
           \/ CommitReview(p) \/ CheckPending(p) \/ Enact(p)
           \/ CommitComplete(p) \/ CancelReminders(p)
           \/ \E g \in Groups : GroupDisable(p, g)
           \/ CompleteDisabled(p)
           \/ Crash(p)
    PROVE  MailInv'
<1> USE DEF IInv
<1>0. pc[p] \in Stage /\ MailType
  BY DEF AuditInv, MailInv
<1>1. CASE UNCHANGED mailVars
  BY <1>0, <1>1, MembershipsMove DEF mailVars, MailType
<1>2. CASE RemindOwners(p)
  <2>1. ASSUME NEW g \in pc[p].groups,
               SendAsyncEmail(CurrentOwners(g), <<"audit", g>>, TRUE)
        PROVE  MailInv'
    <3>1. pc[p].groups \subseteq Groups
      BY <1>0, <1>2, StageFields DEF RemindOwners
    <3>2. <<"audit", g>> \in Key /\ TRUE \in BOOLEAN
      BY <3>1 DEF Key
    <3>3. CurrentOwners(g) \in SUBSET Users
      BY <3>1 DEF CurrentOwners, MailAssumption
    <3> QED
      BY <1>2, <2>1, <3>2, <3>3, MailIsAdded DEF RemindOwners
  <2>2. ASSUME UNCHANGED <<mails, attempts>>
        PROVE  MailInv'
    BY <1>0, <1>2, <2>2, MembershipsMove DEF RemindOwners, MailType
  <2> QED
    BY <1>2, <2>1, <2>2 DEF RemindOwners
<1>3. CASE Enact(p)
  <2>1. edges' \in [Groups -> [Users -> EdgeStates]]
    <3>1. PICK u \in pc[p].remove :
             LET g == audits[pc[p].audit].group
             IN  edges' = edges \/ edges' = [edges EXCEPT ![g][u] = "out"]
      BY <1>3 DEF Enact
    <3> QED
      BY <1>0, <3>1 DEF MailType, EdgeStates
  <2> QED
    BY <1>0, <1>3, <2>1, MembershipsMove DEF Enact, MailType
<1>4. CASE CancelReminders(p)
  BY <1>4, MailIsCancelled DEF CancelReminders
<1>5. ASSUME NEW g \in Groups, GroupDisable(p, g)
      PROVE  MailInv'
  BY <1>0, <1>5, MembershipsMove DEF GroupDisable, MailType
<1> QED
  BY <1>1, <1>2, <1>3, <1>4, <1>5
  DEF AuditsCreate, InsertAudits, AuditsComplete, CommitReview, CheckPending,
      CommitComplete, CompleteDisabled, Crash

LEMMA NextKeeps ==
    ASSUME MailAssumption, AuditAssumption, IInv, [Next]_vars
    PROVE  IInv'
<1> USE DEF IInv
<1>1. CASE MailNext /\ UNCHANGED <<audits, current, back, pc>>
  BY <1>1, MailKeeps DEF AuditInv, AuditRows
<1>2. CASE Handlers
  BY <1>2, HandlersKeep, HandlersMail DEF Handlers
<1>3. ASSUME NEW g \in Groups, GroupEnable(g)
      PROVE  IInv'
  <2>1. MailInv'
    BY <1>3, MembershipsMove DEF GroupEnable, MailInv, MailType
  <2>2. AuditInv'
    BY <1>3 DEF GroupEnable, AuditInv, AuditRows
  <2> QED
    BY <2>1, <2>2
<1>4. ASSUME NEW g \in Groups, NEW u \in Users, AddMember(g, u) \/ RemoveMember(g, u)
      PROVE  IInv'
  <2>1. edges' \in [Groups -> [Users -> EdgeStates]]
    <3>1. /\ edges \in [Groups -> [Users -> EdgeStates]]
          /\ \E s \in EdgeStates : edges' = [edges EXCEPT ![g][u] = s]
      BY <1>4 DEF AddMember, RemoveMember, MailInv, MailType, EdgeStates
    <3> QED
      BY <3>1
  <2>2. MailInv'
    BY <1>4, <2>1, MembershipsMove DEF AddMember, RemoveMember, MailInv, MailType
  <2>3. AuditInv'
    BY <1>4 DEF AddMember, RemoveMember, AuditInv, AuditRows
  <2> QED
    BY <2>2, <2>3
<1>5. CASE UNCHANGED vars
  <2>1. MailInv'
    BY <1>5, MembershipsMove DEF vars, mailVars, MailInv, MailType
  <2>2. AuditInv'
    BY <1>5 DEF vars, AuditInv, AuditRows
  <2> QED
    BY <2>1, <2>2
<1> QED
  BY <1>1, <1>2, <1>3, <1>4, <1>5 DEF Next, Others

LEMMA InitKeeps == Init => IInv
<1> SUFFICES ASSUME Init PROVE IInv
  OBVIOUS
<1>1. Idle \in Processing
  BY DEF Idle, Processing
<1>2. edges \in [Groups -> [Users -> EdgeStates]]
  BY DEF Init, EdgeStates
<1>3. MailInv
  BY <1>1, <1>2 DEF Init, MailInit, MailInv, MailType, Idle, Ids
<1>4. AuditInv
  BY NoneIsIdle DEF Init, AuditInv, AuditRows, Reviewing
<1> QED
  BY <1>3, <1>4 DEF IInv

LEMMA Invariance == Spec => []IInv
BY InitKeeps, NextKeeps, MailAssumption, AuditAssumption, PTL DEF Spec

-----------------------------------------------------------------------------
(* For any number of processes.                                            *)

\* The rows of audits and of the queue, and what the processor and the requests
\* have in hand, keep their types.
THEOREM TypeCorrect == Spec => []TypeOK
<1>1. IInv => TypeOK
  <2> SUFFICES ASSUME IInv PROVE TypeOK
    OBVIOUS
  <2>1. \A a \in AuditRows :
           /\ audits[a].group \in Groups
           /\ audits[a].state \in {"open", "complete"}
           /\ audits[a].status \in [Users -> Statuses \union {"none"}]
    BY RowFields DEF IInv
  <2>2. \A i \in Ids : mails[i].to \subseteq Users
    <3>1. \A i \in Ids : mails[i] \in Mail
      BY DEF IInv, MailInv, MailType, Ids
    <3> QED
      BY <3>1 DEF Mail
  <2>3. \A p \in Procs : pc[p].at \in {"idle", "insert", "remind", "review", "check",
                                       "enact", "cancel", "disabled"}
    BY StageFields DEF IInv, AuditInv
  <2> QED
    BY <2>1, <2>2, <2>3 DEF TypeOK, IInv, MailInv, MailType, AuditInv
<1> QED
  BY <1>1, Invariance, PTL

LEMMA Tries ==
    ASSUME IInv, NEW i \in Ids
    PROVE  /\ attempts[i] \in {0, 1} /\ attempts[i] \in Nat
           /\ Append(attempts, 0)[i] = attempts[i]
<1>1. attempts \in Seq({0, 1}) /\ i \in 1..Len(attempts)
  BY DEF IInv, MailInv, MailType, Ids
<1> QED
  BY <1>1

\* No mail goes to the mail server twice in one life of the processor.
THEOREM TriedOnce == Spec => []TriedOncePerLife
<1>1. IInv => TriedOncePerLife
  BY Tries DEF TriedOncePerLife
<1> QED
  BY <1>1, Invariance, PTL

\* What was sent or cancelled before its turn is not sent, although the batch of
\* the processor was loaded before.
THEOREM CancelledStays == Spec => CancelledMailIsNotSent
<1>1. ASSUME AuditAssumption, IInv, [Next]_vars, NEW i \in Ids, mails[i].sent
      PROVE  attempts'[i] <= attempts[i]
  <2>1. /\ attempts[i] \in {0, 1} /\ attempts[i] \in Nat
        /\ Append(attempts, 0)[i] = attempts[i]
    BY <1>1, Tries
  <2>2. CASE attempts' = attempts
    BY <2>1, <2>2
  <2>3. CASE BgCrash
    BY <2>1, <2>3 DEF BgCrash
  <2>4. CASE BgCommit
    BY <2>1, <2>4 DEF BgCommit
  <2>5. CASE BgSend
    <3>1. ASSUME NEW j \in bg.batch, StillUnsent(j), attempts' = [attempts EXCEPT ![j] = @ + 1]
          PROVE  attempts'[i] = attempts[i]
      BY <1>1, <3>1 DEF StillUnsent
    <3>2. attempts'[i] = attempts[i]
      BY <2>5, <3>1 DEF BgSend
    <3> QED
      BY <2>1, <3>2
  <2>6. CASE attempts' = Append(attempts, 0)
    <3>1. attempts'[i] = attempts[i]
      BY <2>1, <2>6, Zenon
    <3> QED
      BY <2>1, <3>1
  <2>7. ASSUME BgNotify
        PROVE  attempts' = Append(attempts, 0)
    BY <2>7 DEF BgNotify, NotifyEdgeExpiration, SendAsyncEmail
  <2>8. ASSUME NEW p \in Procs, RemindOwners(p)
        PROVE  attempts' = attempts \/ attempts' = Append(attempts, 0)
    BY <2>8 DEF RemindOwners, SendAsyncEmail
  <2>9. ASSUME MailNext
        PROVE  attempts' = attempts \/ BgCrash \/ BgCommit \/ BgSend \/ BgNotify
    BY <2>9 DEF MailNext, Processor, BgStart, BgDeactivate, BgLoad, MembershipExpires
  <2>10. ASSUME Handlers
         PROVE  attempts' = attempts \/ \E p \in Procs : RemindOwners(p)
    BY <2>10 DEF Handlers, AuditsCreate, InsertAudits, AuditsComplete, CommitReview,
                 CheckPending, Enact, CommitComplete, CancelReminders, GroupDisable,
                 CompleteDisabled, Crash, mailVars
  <2>11. ASSUME Others \/ UNCHANGED vars
         PROVE  attempts' = attempts
    BY <2>11 DEF Others, GroupEnable, AddMember, RemoveMember, vars, mailVars
  <2> QED
    BY <1>1, <2>2, <2>3, <2>4, <2>5, <2>6, <2>7, <2>8, <2>9, <2>10, <2>11 DEF Next
<1>2. AuditAssumption /\ IInv /\ [Next]_vars =>
        [\A i \in Ids : mails[i].sent => attempts'[i] <= attempts[i]]_vars
  BY <1>1
<1> QED
  BY <1>2, AuditAssumption, Invariance, PTL DEF Spec, CancelledMailIsNotSent

\* The notice of an expiry has been committed when the membership ends, whatever
\* is added to the queue and cancelled in between.
THEOREM ExpiryAnnounced == Spec => ExpiryIsAnnounced
<1>1. IInv /\ [Next]_vars =>
        [BgDeactivate => \E i \in Ids : /\ mails[i].key = <<"expired", bg.edge[1], bg.edge[2]>>
                                        /\ bg.edge[2] \in mails[i].to]_vars
  BY DEF IInv, MailInv, Announced, BgDeactivate
<1> QED
  BY <1>1, Invariance, PTL DEF Spec, ExpiryIsAnnounced

-----------------------------------------------------------------------------
(* Where requests leave each other's audits alone.                         *)

\* No two requests have both seen that no audit is open and are about to start
\* audits, and none reviews the audit of a group while another ends memberships of
\* it: what the lock of AuditsCreate and the form of a review mean to rely on, and
\* the code does not enforce.
ReviewsApart ==
    \A p, q \in Procs :
        \/ pc[p].at = "insert" /\ pc[q].at = "insert"
        \/ /\ pc[p].at \in Reviewing /\ pc[q].at = "enact"
           /\ audits[pc[p].audit].group = audits[pc[q].audit].group
        => p = q

\* A member who is neither approved nor newly back is still on the list.
Settled(p, a) ==
    \A u \in Covered(audits[a].group) :
        \/ <<audits[a].group, u>> \in back
        \/ StatusIn(audits[a].group, u) = "approved"
        \/ u \in pc[p].remove

\* No audit is open when audits are inserted, so that an open audit is the one
\* that its group knows, and the list of a review covers it.
ReviewInv ==
    /\ \A p \in Procs : pc[p].at = "insert" => NoOpenAudits
    /\ \A g \in Groups : current[g] # 0 => audits[current[g]].group = g
    /\ \A a \in AuditRows : audits[a].state = "open" => current[audits[a].group] = a
    /\ \A p \in Procs :
          pc[p].at = "enact" /\ audits[pc[p].audit].state = "open"
          => Settled(p, pc[p].audit)

\* What settles a review lasts, as long as nobody joins but for the memberships
\* that are back.
LEMMA SettledStays ==
    ASSUME NEW q, NEW a, Settled(q, a), current[audits[a].group] = a,
           current' = current, audits'[a].group = audits[a].group,
           audits'[a].status = audits[a].status, pc'[q] = pc[q],
           \A u \in Users : /\ IsMember(audits[a].group, u)' =>
                                  \/ IsMember(audits[a].group, u)
                                  \/ <<audits[a].group, u>> \in back'
                            /\ <<audits[a].group, u>> \in back =>
                                  <<audits[a].group, u>> \in back'
    PROVE  Settled(q, a)'
BY DEF Settled, Covered, StatusIn

\* A request that moves on while audits are completed at most.
LEMMA ReviewsGoOn ==
    ASSUME IInv, ReviewInv, NEW p \in Procs, NEW r, pc' = [pc EXCEPT ![p] = r],
           r.at = "insert" => NoOpenAudits,
           r.at = "enact" /\ audits'[r.audit].state = "open" => Settled(p, r.audit)',
           current' = current, Len(audits') = Len(audits),
           \A a \in AuditRows : /\ audits'[a].group = audits[a].group
                                /\ audits'[a].state \in {audits[a].state, "complete"},
           \A q \in Procs \ {p} :
              /\ pc[q].at = "enact" /\ audits[pc[q].audit].state = "open"
              /\ audits'[pc[q].audit].state = "open"
              => Settled(q, pc[q].audit)'
    PROVE  ReviewInv'
<1>1. \A q \in Procs : pc'[q] = IF q = p THEN r ELSE pc[q]
  BY DEF IInv, AuditInv
<1>2. NoOpenAudits => NoOpenAudits'
  BY DEF NoOpenAudits, AuditRows
<1>3. \A a \in AuditRows' : a \in AuditRows
  BY DEF AuditRows
<1>4. \A q \in Procs : pc[q].at = "enact" => pc[q].audit \in AuditRows
  BY DEF IInv, AuditInv, Reviewing
<1>5. (\A q \in Procs : pc[q].at = "insert" => NoOpenAudits)'
  BY <1>1, <1>2 DEF ReviewInv
<1>6. /\ (\A g \in Groups : current[g] # 0 => audits[current[g]].group = g)'
      /\ (\A a \in AuditRows : audits[a].state = "open" => current[audits[a].group] = a)'
  <2>1. \A g \in Groups : current[g] # 0 => current[g] \in AuditRows
    BY DEF IInv, AuditInv, AuditRows
  <2> QED
    BY <1>3, <2>1 DEF ReviewInv
<1>7. ASSUME NEW q \in Procs, pc'[q].at = "enact", audits'[pc'[q].audit].state = "open"
      PROVE  Settled(q, pc[q].audit)'
  <2>1. CASE q = p
    BY <1>1, <1>7, <2>1
  <2>2. CASE q # p
    <3>1. pc'[q] = pc[q] /\ pc[q].audit \in AuditRows
      BY <1>1, <1>4, <1>7, <2>2
    <3>2. audits[pc[q].audit].state = "open"
      BY <1>7, <3>1
    <3> QED
      BY <1>7, <2>2, <3>1, <3>2
  <2> QED
    BY <2>1, <2>2
<1> QED
  BY <1>5, <1>6, <1>7 DEF ReviewInv

\* Steps that leave the audits and the requests alone.
LEMMA MembersMove ==
    ASSUME IInv, ReviewInv, UNCHANGED <<audits, current, pc>>,
           \A g \in Groups, u \in Users :
              /\ IsMember(g, u)' =>
                    IsMember(g, u) \/ ~IsOpen(g) \/ <<g, u>> \in back'
              /\ <<g, u>> \in back => <<g, u>> \in back'
    PROVE  ReviewInv'
<1>1. ASSUME NEW q \in Procs, pc[q].at = "enact", audits[pc[q].audit].state = "open"
      PROVE  Settled(q, pc[q].audit)'
  <2>0. PICK a : a = pc[q].audit
    OBVIOUS
  <2>1. a \in AuditRows /\ a # 0 /\ Settled(q, a) /\ current[audits[a].group] = a
    BY <1>1, <2>0 DEF IInv, AuditInv, AuditRows, ReviewInv, Reviewing
  <2>2. audits[a].group \in Groups
    BY <2>1, RowFields DEF IInv
  <2>3. IsOpen(audits[a].group)
    BY <1>1, <2>0, <2>1 DEF IsOpen
  <2>4. Settled(q, a)'
    BY <2>1, <2>2, <2>3, SettledStays
  <2> QED
    BY <2>0, <2>4
<1>2. \A q \in Procs : pc'[q] = pc[q]
  OBVIOUS
<1> QED
  BY <1>1, <1>2 DEF ReviewInv, NoOpenAudits, AuditRows

LEMMA OpenIsCurrent ==
    ASSUME IInv, ReviewInv, NEW q \in Procs, pc[q].at = "enact",
           NEW a, a = pc[q].audit, audits[a].state = "open"
    PROVE  /\ a \in AuditRows /\ a # 0 /\ audits[a].group \in Groups
           /\ current[audits[a].group] = a /\ Settled(q, a)
<1>1. a \in AuditRows /\ a # 0
  BY DEF IInv, AuditInv, AuditRows, Reviewing
<1> QED
  BY <1>1, RowFields DEF IInv, ReviewInv

\* A request that moves on with the audits and memberships as they are, or with
\* fewer members.
LEMMA ReviewsStay ==
    ASSUME IInv, ReviewInv, NEW p \in Procs, NEW r, pc' = [pc EXCEPT ![p] = r],
           r.at = "insert" => NoOpenAudits,
           r.at = "enact" /\ audits'[r.audit].state = "open" => Settled(p, r.audit)',
           UNCHANGED <<audits, current, back>>,
           \A g \in Groups, u \in Users : IsMember(g, u)' => IsMember(g, u)
    PROVE  ReviewInv'
<1>1. ASSUME NEW q \in Procs \ {p},
             pc[q].at = "enact", audits[pc[q].audit].state = "open"
      PROVE  Settled(q, pc[q].audit)'
  <2>1. PICK a : a = pc[q].audit
    OBVIOUS
  <2>2. pc'[q] = pc[q]
    BY DEF IInv, AuditInv
  <2>3. Settled(q, a)'
    BY <1>1, <2>1, <2>2, OpenIsCurrent, SettledStays
  <2> QED
    BY <2>1, <2>2, <2>3
<1> QED
  BY <1>1, ReviewsGoOn

\* The audit of one group is over: nothing changes for the reviews of others.
LEMMA OthersSettled ==
    ASSUME IInv, ReviewInv, NEW p \in Procs, NEW r, pc' = [pc EXCEPT ![p] = r],
           NEW g, UNCHANGED <<enabled, edges, current>>, back' = {e \in back : e[1] # g},
           \A a \in AuditRows : /\ audits'[a].group = audits[a].group
                                /\ audits'[a].status = audits[a].status,
           NEW q \in Procs \ {p}, pc[q].at = "enact", audits[pc[q].audit].state = "open",
           audits[pc[q].audit].group # g
    PROVE  Settled(q, pc[q].audit)'
<1>1. PICK a : a = pc[q].audit
  OBVIOUS
<1>2. /\ a \in AuditRows /\ a # 0 /\ audits[a].group \in Groups
      /\ current[audits[a].group] = a /\ Settled(q, a)
  BY <1>1, OpenIsCurrent
<1>3. pc'[q] = pc[q]
  BY DEF IInv, AuditInv
<1>4. \A u \in Users : /\ IsMember(audits[a].group, u)' => IsMember(audits[a].group, u)
                       /\ <<audits[a].group, u>> \in back =>
                             <<audits[a].group, u>> \in back'
  BY <1>1, <1>2 DEF IsMember
<1>5. Settled(q, a)'
  BY <1>2, <1>3, <1>4, SettledStays
<1> QED
  BY <1>1, <1>3, <1>5

\* A step of a request keeps what is settled, its own review and those of others.
LEMMA HandlersReview ==
    ASSUME ReviewsApart, AuditAssumption, IInv, ReviewInv, NEW p \in Procs,
           \/ AuditsCreate(p) \/ InsertAudits(p) \/ RemindOwners(p)
           \/ \E a \in AuditRows, actor \in Users : AuditsComplete(p, a, actor)
           \/ CommitReview(p) \/ CheckPending(p) \/ Enact(p)
           \/ CommitComplete(p) \/ CancelReminders(p)
           \/ \E g \in Groups : GroupDisable(p, g)
           \/ CompleteDisabled(p)
           \/ Crash(p)
    PROVE  ReviewInv'
<1> USE DEF IInv
<1>0. pc[p] \in Stage /\ Len(audits) \in Nat /\ MailType
  BY DEF AuditInv, MailInv
<1>1. CASE AuditsCreate(p)
  BY <1>1, ReviewsStay
  DEF AuditsCreate, Goto, Reviewing, mailVars, IsMember
<1>2. CASE InsertAudits(p)
  <2>1. PICK known \in SUBSET Audited :
           Insertion(known) /\ Goto(p, [at |-> "remind", groups |-> known])
    BY <1>2 DEF InsertAudits, Insertion
  <2>2. pc[p].at = "insert" /\ NoOpenAudits
    BY <1>2 DEF InsertAudits, ReviewInv
  <2>3. \A q \in Procs : pc'[q] = IF q = p THEN [at |-> "remind", groups |-> known] ELSE pc[q]
    BY <2>1 DEF Goto, AuditInv
  <2>4. /\ \A a \in AuditRows : audits'[a] = audits[a] /\ audits'[a].state # "open"
        /\ \A a \in AuditRows' : a \notin AuditRows => current'[audits'[a].group] = a
    BY <2>1, <2>2, Inserted DEF NoOpenAudits
  <2>5. \A q \in Procs : pc'[q].at # "insert"
    BY <2>2, <2>3 DEF ReviewsApart
  <2>6. \A q \in Procs : pc'[q].at \in Reviewing => pc[q].at \in Reviewing /\ pc'[q] = pc[q]
    BY <2>3 DEF Reviewing
  <2>7. \A q \in Procs : pc'[q].at = "enact" => audits'[pc'[q].audit].state # "open"
    BY <2>4, <2>6 DEF AuditInv, Reviewing
  <2>8. ASSUME NEW g \in Groups, current'[g] # 0
        PROVE  audits'[current'[g]].group = g
    <3>1. current[g] # 0 => current[g] \in AuditRows
      BY DEF AuditInv, AuditRows
    <3> QED
      BY <2>1, <2>4, <2>8, <3>1, Inserted DEF ReviewInv
  <2> QED
    BY <2>4, <2>5, <2>7, <2>8 DEF ReviewInv
<1>3. CASE RemindOwners(p)
  <2>1. \A g : LET r == [pc[p] EXCEPT !.groups = @ \ {g}] IN r.at = "remind"
    BY <1>0, <1>3, StageFields DEF RemindOwners
  <2> QED
    BY <1>3, <2>1, NoneIsIdle, ReviewsStay DEF RemindOwners, Goto, Reviewing, IsMember
<1>4. ASSUME NEW a \in AuditRows, NEW actor \in Users, AuditsComplete(p, a, actor)
      PROVE  ReviewInv'
  BY <1>4, ReviewsStay DEF AuditsComplete, Goto, mailVars, IsMember
<1>5. ASSUME pc[p].at \in Reviewing, NEW q \in Procs \ {p}, pc[q].at = "enact"
      PROVE  audits[pc[q].audit].group # audits[pc[p].audit].group
  BY <1>5 DEF ReviewsApart
<1>6. CASE CommitReview(p)
  <2>0. PICK g \in Groups : g = audits[pc[p].audit].group
    BY <1>6, RowFields DEF CommitReview, AuditInv, Reviewing
  <2>1. PICK f : /\ audits' = [audits EXCEPT ![current[g]].status = f]
                 /\ current[g] \in AuditRows => f \in [Users -> Statuses \union {"none"}]
    <3> DEFINE h == audits[pc[p].audit].group
               actor == pc[p].actor
    <3>1. PICK form \in [Covered(h) -> Statuses \union {"none"}] :
             audits' = [audits EXCEPT ![current[h]].status =
                          [u \in Users |->
                              IF u \notin Covered(h) \/ form[u] = "none" THEN @[u]
                              ELSE IF IdOf[u] = IdOf[actor] THEN "approved"
                              ELSE form[u]]]
      BY <1>6 DEF CommitReview
    <3> DEFINE f == [u \in Users |->
                        IF u \notin Covered(h) \/ form[u] = "none" THEN audits[current[h]].status[u]
                        ELSE IF IdOf[u] = IdOf[actor] THEN "approved"
                        ELSE form[u]]
    <3>2. audits' = [audits EXCEPT ![current[h]].status = f] /\ h = g
      BY <2>0, <3>1
    <3>3. current[h] \in AuditRows =>
             audits[current[h]].status \in [Users -> Statuses \union {"none"}]
      BY RowFields
    <3>4. current[h] \in AuditRows => f \in [Users -> Statuses \union {"none"}]
      BY <3>3 DEF Statuses
    <3> HIDE DEF f, h
    <3> QED
      BY <3>2, <3>4
  <2>2. /\ Len(audits') = Len(audits)
        /\ \A a \in AuditRows : /\ audits'[a].group = audits[a].group
                                /\ audits'[a].state = audits[a].state
                                /\ a # current[g] => audits'[a].status = audits[a].status
    BY <2>1, Reviewed
  <2>3. LET r == [pc[p] EXCEPT !.at = "check"] IN r.at = "check"
    BY <1>0, <1>6, StageFields DEF CommitReview
  <2>4. /\ pc' = [pc EXCEPT ![p] = [pc[p] EXCEPT !.at = "check"]]
        /\ UNCHANGED <<enabled, edges, current, back>>
    BY <1>6 DEF CommitReview, Goto, mailVars
  <2>5. ASSUME NEW q \in Procs \ {p}, pc[q].at = "enact", audits[pc[q].audit].state = "open"
        PROVE  Settled(q, pc[q].audit)'
    <3>1. PICK a : a = pc[q].audit
      OBVIOUS
    <3>2. /\ a \in AuditRows /\ a # 0 /\ audits[a].group \in Groups
          /\ current[audits[a].group] = a /\ Settled(q, a)
      BY <2>5, <3>1, OpenIsCurrent
    <3>3. audits[a].group # g
      BY <1>5, <1>6, <2>0, <2>5, <3>1 DEF CommitReview, Reviewing
    <3>4. a # current[g]
      BY <2>0, <3>2, <3>3 DEF ReviewInv
    <3>5. pc'[q] = pc[q]
      BY <2>4, <2>5 DEF AuditInv
    <3>6. Settled(q, a)'
      BY <2>2, <2>4, <3>2, <3>4, <3>5, SettledStays DEF IsMember
    <3> QED
      BY <3>1, <3>5, <3>6
  <2> QED
    BY <2>2, <2>3, <2>4, <2>5, ReviewsGoOn
<1>7. CASE CheckPending(p)
  <2>1. PICK a : a = pc[p].audit
    OBVIOUS
  <2>2. PICK g : g = audits[a].group
    OBVIOUS
  <2>3. PICK r : r = [at |-> "enact", audit |-> a,
                      remove |-> {u \in Covered(g) : StatusIn(g, u) = "remove"}]
    OBVIOUS
  <2>4. \/ Goto(p, None)
        \/ ~HasPending(g) /\ Goto(p, r)
    BY <1>7, <2>1, <2>2, <2>3 DEF CheckPending
  <2>5. UNCHANGED <<audits, current, back>> /\ a \in AuditRows
        /\ \A x \in Groups, u \in Users : IsMember(x, u)' => IsMember(x, u)
    BY <1>7, <2>1 DEF CheckPending, AuditInv, Reviewing, mailVars, IsMember
  <2>6. CASE Goto(p, None)
    BY <2>5, <2>6, NoneIsIdle, ReviewsStay DEF Goto, Reviewing
  <2>7. CASE ~HasPending(g) /\ Goto(p, r)
    <3>1. ASSUME audits[a].state = "open"
          PROVE  Settled(p, a)'
      <4>1. current[g] = a
        BY <2>2, <2>5, <3>1 DEF ReviewInv
      <4>2. \A u \in Covered(g) : StatusIn(g, u) \in {"approved", "remove"}
        <5>1. \A u \in Users : audits[a].status[u] \in {"pending", "approved", "remove", "none"}
          BY <2>5, RowFields DEF Statuses
        <5> QED
          BY <2>7, <4>1, <5>1 DEF Covered, HasPending, StatusIn
      <4>3. pc'[p].remove = {u \in Covered(g) : StatusIn(g, u) = "remove"}
        BY <2>3, <2>7 DEF Goto, AuditInv
      <4>4. \A u \in Users : IsMember(g, u)' => IsMember(g, u)
        BY <2>2, <2>5, RowFields
      <4>5. Covered(g)' \subseteq Covered(g) /\ \A u : StatusIn(g, u)' = StatusIn(g, u)
        BY <2>5, <4>4 DEF Covered, StatusIn
      <4> QED
        BY <2>2, <2>5, <4>2, <4>3, <4>5 DEF Settled
    <3>2. r.at = "enact" /\ r.audit = a
      BY <2>3
    <3>3. audits'[a].state = "open" => Settled(p, a)'
      BY <2>5, <3>1
    <3>4. pc' = [pc EXCEPT ![p] = r]
      BY <2>7 DEF Goto
    <3> QED
      BY <2>5, <3>2, <3>3, <3>4, ReviewsStay
  <2> QED
    BY <2>4, <2>6, <2>7
<1>8. CASE Enact(p)
  <2>1. pc[p] \in [at : {"enact"}, audit : Nat, remove : SUBSET Users]
        /\ pc[p].audit \in AuditRows
    BY <1>0, <1>8, StageFields DEF Enact, AuditInv, Reviewing
  <2>2. PICK a : a = pc[p].audit
    OBVIOUS
  <2>3. PICK g : g = audits[a].group
    OBVIOUS
  <2>4. /\ UNCHANGED <<enabled, audits, current, back>>
        /\ a \in AuditRows /\ g \in Groups
    BY <1>8, <2>1, <2>2, <2>3, RowFields DEF Enact, Reviewing
  <2>5. ASSUME Goto(p, None), UNCHANGED edges
        PROVE  ReviewInv'
    BY <2>4, <2>5, NoneIsIdle, ReviewsStay DEF Goto, Reviewing, IsMember
  <2>6. ASSUME NEW u \in pc[p].remove, edges' = [edges EXCEPT ![g][u] = "out"],
               Goto(p, [pc[p] EXCEPT !.remove = @ \ {u}])
        PROVE  ReviewInv'
    <3>1. PICK r : r = [pc[p] EXCEPT !.remove = @ \ {u}]
      OBVIOUS
    <3>2. r.at = "enact" /\ r.audit = a /\ r.remove = pc[p].remove \ {u}
      BY <2>1, <2>2, <3>1
    <3>3. pc' = [pc EXCEPT ![p] = r] /\ pc'[p] = r
      BY <2>6, <3>1 DEF Goto, AuditInv
    <3>4. /\ \A x \in Groups, v \in Users : IsMember(x, v)' => IsMember(x, v)
          /\ ~IsMember(g, u)'
      BY <1>0, <2>1, <2>4, <2>6 DEF IsMember, MailType
    <3>5. ASSUME audits[a].state = "open"
          PROVE  Settled(p, a)'
      <4>1. Settled(p, a)
        BY <1>8, <2>2, <3>5 DEF Enact, ReviewInv
      <4>2. Covered(g)' \subseteq Covered(g) \ {u} /\ \A v : StatusIn(g, v)' = StatusIn(g, v)
        BY <2>4, <3>4 DEF Covered, StatusIn
      <4> QED
        BY <2>3, <2>4, <3>2, <3>3, <4>1, <4>2 DEF Settled
    <3>6. audits'[a].state = "open" => Settled(p, a)'
      BY <2>4, <3>5
    <3> QED
      BY <2>4, <3>2, <3>3, <3>4, <3>6, ReviewsStay
  <2> QED
    BY <1>8, <2>2, <2>3, <2>5, <2>6 DEF Enact
<1>9. CASE CommitComplete(p)
  <2>1. audits' = [audits EXCEPT ![pc[p].audit].state = "complete"]
    BY <1>9 DEF CommitComplete
  <2>2. /\ Len(audits') = Len(audits)
        /\ \A a \in AuditRows : /\ audits'[a].group = audits[a].group
                                /\ audits'[a].status = audits[a].status
                                /\ audits'[a].state \in {audits[a].state, "complete"}
    BY <2>1, Completed
  <2>3. PICK g : g = audits[pc[p].audit].group
    OBVIOUS
  <2>4. UNCHANGED <<enabled, edges, current>> /\ back' = {e \in back : e[1] # g}
    BY <1>9, <2>3 DEF CommitComplete, mailVars
  <2>5. PICK r : r.at = "cancel" /\ pc' = [pc EXCEPT ![p] = r]
    BY <1>9 DEF CommitComplete, Goto
  <2>6. ASSUME NEW q \in Procs \ {p}, pc[q].at = "enact", audits[pc[q].audit].state = "open"
        PROVE  Settled(q, pc[q].audit)'
    <3>1. audits[pc[q].audit].group # g
      BY <1>5, <1>9, <2>3, <2>6 DEF CommitComplete, Reviewing
    <3> QED
      BY <2>2, <2>4, <2>5, <2>6, <3>1, OthersSettled
  <2> QED
    BY <2>2, <2>4, <2>5, <2>6, ReviewsGoOn
<1>10. CASE CancelReminders(p)
  BY <1>10, NoneIsIdle, ReviewsStay DEF CancelReminders, Goto, Reviewing, IsMember
<1>11. ASSUME NEW g \in Groups, GroupDisable(p, g)
       PROVE  ReviewInv'
  BY <1>11, ReviewsStay DEF GroupDisable, Goto, Reviewing, IsMember
<1>12. CASE CompleteDisabled(p)
  <2>1. PICK g : g = pc[p].group
    OBVIOUS
  <2>2. UNCHANGED <<enabled, edges, current>> /\ back' = {e \in back : e[1] # g}
    BY <1>12, <2>1 DEF CompleteDisabled, mailVars
  <2>3. /\ Len(audits') = Len(audits)
        /\ \A a \in AuditRows : /\ audits'[a].group = audits[a].group
                                /\ audits'[a].status = audits[a].status
                                /\ audits'[a].state \in {audits[a].state, "complete"}
    BY <1>12, Completed DEF CompleteDisabled
  <2>4. current[g] \in AuditRows => audits'[current[g]].state = "complete"
    BY <1>12, <2>1, Completed DEF CompleteDisabled, AuditRows
  <2>5. PICK r : r.at \in {"idle", "cancel"} /\ pc' = [pc EXCEPT ![p] = r]
    BY <1>12, NoneIsIdle DEF CompleteDisabled, Goto
  <2>6. ASSUME NEW q \in Procs \ {p}, pc[q].at = "enact",
               audits[pc[q].audit].state = "open", audits'[pc[q].audit].state = "open"
        PROVE  Settled(q, pc[q].audit)'
    <3>1. audits[pc[q].audit].group # g
      BY <2>4, <2>6, OpenIsCurrent
    <3> QED
      BY <2>2, <2>3, <2>5, <2>6, <3>1, OthersSettled
  <2> QED
    BY <2>2, <2>3, <2>5, <2>6, ReviewsGoOn DEF Reviewing
<1>13. CASE Crash(p)
  BY <1>13, NoneIsIdle, ReviewsStay DEF Crash, Goto, Reviewing, mailVars, IsMember
<1> QED
  BY <1>1, <1>2, <1>3, <1>4, <1>6, <1>7, <1>8, <1>9, <1>10, <1>11, <1>12, <1>13

LEMMA ReviewKeeps ==
    ASSUME ReviewsApart, AuditAssumption, IInv, ReviewInv, [Next]_vars
    PROVE  ReviewInv'
<1> USE DEF IInv
<1>0. MailType /\ back \subseteq Groups \X Users
  BY DEF MailInv, AuditInv
<1>1. ASSUME MailNext, UNCHANGED <<audits, current, back, pc>>
      PROVE  ReviewInv'
  <2>1. \A g \in Groups, u \in Users : IsMember(g, u)' => IsMember(g, u)
    <3>1. CASE UNCHANGED <<enabled, edges>>
      BY <3>1 DEF IsMember
    <3>2. CASE BgDeactivate
      <4>1. /\ bg.edge \in Memberships /\ enabled' = enabled
            /\ edges' = [edges EXCEPT ![bg.edge[1]][bg.edge[2]] = "out"]
        BY <3>2 DEF BgDeactivate, MailInv, Announced
      <4> QED
        BY <1>0, <4>1 DEF IsMember, MailType, Memberships
    <3>3. ASSUME NEW g \in Groups, NEW u \in Users, MembershipExpires(g, u)
          PROVE  \A h \in Groups, v \in Users : IsMember(h, v)' => IsMember(h, v)
      BY <1>0, <3>3 DEF IsMember, MailType, MembershipExpires
    <3> QED
      BY <1>1, <3>1, <3>2, <3>3
      DEF MailNext, Processor, BgStart, BgNotify, BgLoad, BgSend, BgCommit, BgCrash
  <2> QED
    BY <1>1, <2>1, MembersMove
<1>2. CASE Handlers
  BY <1>2, HandlersReview DEF Handlers
<1>3. ASSUME NEW g \in Groups, GroupEnable(g)
      PROVE  ReviewInv'
  <2>1. \A h \in Groups, u \in Users :
           /\ IsMember(h, u)' => IsMember(h, u) \/ ~IsOpen(h) \/ <<h, u>> \in back'
           /\ <<h, u>> \in back => <<h, u>> \in back'
    BY <1>3 DEF GroupEnable, IsMember
  <2> QED
    BY <1>3, <2>1, MembersMove DEF GroupEnable
<1>4. ASSUME NEW g \in Groups, NEW u \in Users, AddMember(g, u)
      PROVE  ReviewInv'
  <2>1. \A h \in Groups, v \in Users :
           /\ IsMember(h, v)' => IsMember(h, v) \/ ~IsOpen(h) \/ <<h, v>> \in back'
           /\ <<h, v>> \in back => <<h, v>> \in back'
    BY <1>0, <1>4 DEF AddMember, IsMember, MailType
  <2> QED
    BY <1>4, <2>1, MembersMove DEF AddMember
<1>5. ASSUME NEW g \in Groups, NEW u \in Users, RemoveMember(g, u)
      PROVE  ReviewInv'
  <2>1. \A h \in Groups, v \in Users : IsMember(h, v)' => IsMember(h, v)
    BY <1>0, <1>5 DEF RemoveMember, IsMember, MailType
  <2> QED
    BY <1>5, <2>1, MembersMove DEF RemoveMember
<1>6. CASE UNCHANGED vars
  BY <1>6, MembersMove DEF vars, mailVars, IsMember
<1> QED
  BY <1>1, <1>2, <1>3, <1>4, <1>5, <1>6 DEF Next, Others

\* An audit that is completed by a review has been carried out: whoever is still
\* a member then has been approved, or has come back during the audit.
THEOREM CompletionEnacted == Spec /\ []ReviewsApart => CompletionIsEnacted
<1>1. Init => ReviewInv
  BY NoneIsIdle DEF Init, ReviewInv, AuditRows, Reviewing
<1>2. Spec /\ []ReviewsApart => [](IInv /\ ReviewInv)
  BY <1>1, InitKeeps, NextKeeps, ReviewKeeps, MailAssumption, AuditAssumption, PTL DEF Spec
<1>3. ASSUME IInv, ReviewInv, NEW p \in Procs, NEW a \in AuditRows,
             CommitComplete(p), audits[a].state = "open", audits'[a].state = "complete",
             NEW u \in Covered(audits[a].group)
      PROVE  <<audits[a].group, u>> \in back \/ StatusIn(audits[a].group, u) = "approved"
  <2>1. audits' = [audits EXCEPT ![pc[p].audit].state = "complete"]
        /\ pc[p].at = "enact" /\ pc[p].remove = {}
    BY <1>3 DEF CommitComplete
  <2>2. a = pc[p].audit
    <3>1. a # pc[p].audit => audits'[a].state = audits[a].state
      BY <1>3, <2>1, Completed DEF IInv
    <3> QED
      BY <1>3, <3>1
  <2>3. Settled(p, a)
    BY <1>3, <2>1, <2>2 DEF ReviewInv
  <2> QED
    BY <1>3, <2>1, <2>3 DEF Settled
<1>4. IInv /\ ReviewInv /\ [Next]_vars =>
        [\A p \in Procs, a \in AuditRows :
            CommitComplete(p) /\ audits[a].state = "open" /\ audits'[a].state = "complete"
              => LET g == audits[a].group
                 IN  \A u \in Covered(g) :
                         <<g, u>> \in back \/ StatusIn(g, u) = "approved"]_vars
  BY <1>3
<1> QED
  BY <1>2, <1>4, PTL DEF Spec, CompletionIsEnacted
=============================================================================
