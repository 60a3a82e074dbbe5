-------------------------- MODULE GraphCache_proofs --------------------------
(***************************************************************************)
(* Proofs that the variables of GraphCache keep their types, that a server *)
(* whose checkpoint is current answers from current tables (Fresh), that   *)
(* checkpoints do not recede (CheckpointNeverRecedes), that the servers    *)
(* implement CachedGraph, and that checkpoints order what clients see of   *)
(* the announced tables, where sessions read from snapshots                *)
(* (CheckpointOrdersAnnounced).                                            *)
(***************************************************************************)
EXTENDS GraphCache, TLAPS

-----------------------------------------------------------------------------
(* The inductive invariant.                                                *)

\* Current(f, T): f holds the current version of the tables T, save of the
\* unannounced ones.
Current(f, T) == \A t \in T \ unannounced : f[t] = db[t]

\* What a thread has read is no newer than the counter; a snapshot, or a copy,
\* that goes with the current counter is current; and an update that reads from
\* a snapshot took its counter from there.
Faithful(v) ==
    /\ v.seenCounter <= counter /\ v.cp <= counter
    /\ (v.pc # "idle" /\ v.seenCounter = counter) => Current(v.seen, Tables)
    /\ (v.pc = "loading" /\ v.cp = counter) => Current(v.copy, v.loaded)
    /\ (v.pc = "loading" /\ snapshots) => v.cp = v.seenCounter

ThreadsFaithful ==
    \A s \in Servers, th \in Threads : Faithful(thread[s][th])

\* No graph is ahead of the counter; and until the counter first moves, the
\* empty graph that a restarted server starts with is current.
NoneAhead ==
    /\ \A s \in Servers : checkpoint[s] <= counter
    /\ counter = 0 => Current(Empty, Tables)

\* A thread that loads holds the lock, and the graph it will replace is no
\* newer than its own unless it reads from a snapshot.
LockHeld ==
    \A s \in Servers, th \in Threads : Loading(s, th) =>
        /\ lock[s] = th
        /\ snapshots \/ checkpoint[s] <= thread[s][th].cp

IInv == TypeOK /\ NoneAhead /\ ThreadsFaithful /\ LockHeld /\ Fresh

-----------------------------------------------------------------------------
(* The writers.                                                            *)

\* A change keeps the database a database and leaves the other tables alone.
LEMMA ChangedTables ==
    ASSUME TypeOK, NEW T \in SUBSET Tables
    PROVE  /\ Changed(T) \in Database
           /\ \A t \in Tables \ T : Changed(T)[t] = db[t]
BY DEF TypeOK, Changed, Database

\* A move of the counter leaves every checkpoint behind, and with that nothing
\* is claimed of any graph, snapshot or copy.
LEMMA AnnounceKeeps ==
    ASSUME IInv, NEW T \in SUBSET Tables, Announce(T),
           UNCHANGED <<cache, snapshots, crashes>>, owing' \subseteq Writers
    PROVE  IInv'
<1>1. TypeOK'
  BY ChangedTables DEF IInv, TypeOK, Announce, Incr, cache
<1>2. counter' = counter + 1 /\ counter \in Nat
  BY DEF IInv, TypeOK, Announce, Incr
<1>3. \A s \in Servers : checkpoint[s] <= counter' /\ checkpoint[s] # counter'
  BY <1>2 DEF IInv, TypeOK, NoneAhead
<1>4. ThreadsFaithful'
  <2> SUFFICES ASSUME NEW s \in Servers, NEW th \in Threads
               PROVE  Faithful(thread[s][th])'
    BY DEF ThreadsFaithful
  <2> DEFINE v == thread[s][th]
  <2>1. v \in Thread /\ Faithful(v) /\ v' = v
    BY DEF IInv, TypeOK, ThreadsFaithful, cache
  <2>2. /\ v.seenCounter <= counter' /\ v.seenCounter # counter'
        /\ v.cp <= counter' /\ v.cp # counter'
    BY <1>2, <2>1 DEF Thread, Faithful
  <2> QED
    BY <2>1, <2>2 DEF Faithful
<1>5. NoneAhead' /\ Fresh'
  BY <1>2, <1>3 DEF NoneAhead, Fresh, cache
<1>6. LockHeld'
  BY DEF IInv, LockHeld, Loading, cache
<1> QED
  BY <1>1, <1>4, <1>5, <1>6 DEF IInv

\* A change without a move of the counter concerns an unannounced table only.
LEMMA UnannouncedKeeps ==
    ASSUME IInv, NEW t \in Tables, db' = Changed({t}),
           unannounced' = unannounced \union {t},
           UNCHANGED <<counter, cache, snapshots>>,
           owing' \subseteq Writers, crashes' \in Nat
    PROVE  IInv'
<1>1. TypeOK'
  BY ChangedTables DEF IInv, TypeOK, cache
<1>2. \A u \in Tables \ unannounced' :
            u \in Tables \ unannounced /\ db'[u] = db[u]
  BY ChangedTables DEF IInv
<1>3. NoneAhead' /\ LockHeld'
  BY <1>2 DEF IInv, NoneAhead, Current, Empty, LockHeld, Loading, cache
<1>4. ThreadsFaithful'
  <2> SUFFICES ASSUME NEW s \in Servers, NEW th \in Threads
               PROVE  Faithful(thread[s][th])'
    BY DEF ThreadsFaithful
  <2> DEFINE v == thread[s][th]
  <2>1. v \in Thread /\ Faithful(v) /\ v' = v
    BY DEF IInv, TypeOK, ThreadsFaithful, cache
  <2>2. v.loaded \subseteq Tables
    BY <2>1 DEF Thread
  <2> QED
    BY <1>2, <2>1, <2>2 DEF Faithful, Current
<1>5. Fresh'
  BY <1>2 DEF IInv, Fresh, cache
<1> QED
  BY <1>1, <1>3, <1>4, <1>5 DEF IInv

LEMMA WriteKeeps ==
    ASSUME IInv, Write
    PROVE  IInv'
<1>1. ASSUME NEW w \in Writers, NEW t \in Tables, Update(w, t)
      PROVE  IInv'
  BY <1>1, AnnounceKeeps DEF Update, IInv, TypeOK
<1>2. ASSUME NEW w \in Writers, NEW t \in Tables, CommitBeforeCounter(w, t)
      PROVE  IInv'
  BY <1>2, UnannouncedKeeps DEF CommitBeforeCounter, IInv, TypeOK, cache
<1>3. ASSUME NEW w \in Writers, NEW T \in SUBSET Tables, CommitCounter(w, T)
      PROVE  IInv'
  BY <1>3, AnnounceKeeps DEF CommitCounter, IInv, TypeOK
<1>4. ASSUME NEW w \in Writers, LoseCounter(w)
      PROVE  IInv'
  <2>1. TypeOK'
    BY <1>4 DEF LoseCounter, IInv, TypeOK, cache
  <2>2. NoneAhead' /\ ThreadsFaithful' /\ LockHeld' /\ Fresh'
    BY <1>4 DEF LoseCounter, IInv, NoneAhead, ThreadsFaithful, Faithful,
                Current, Empty, LockHeld, Fresh, Loading, cache
  <2> QED
    BY <2>1, <2>2 DEF IInv
<1>5. ASSUME NEW t \in SilentTables, ChangeSilently(t)
      PROVE  IInv'
  BY <1>5, UnannouncedKeeps, GraphCacheAssumption
  DEF ChangeSilently, IInv, TypeOK, cache
<1> QED
  BY <1>1, <1>2, <1>3, <1>4, <1>5 DEF Write

-----------------------------------------------------------------------------
(* The servers.                                                            *)

\* The database and the writers, as seen by a step of a server.
Elsewhere == <<db, counter, owing, unannounced, snapshots>>

\* Replacing the state of one thread leaves every other one alone.
LEMMA SetThread ==
    ASSUME TypeOK, NEW s \in Servers, NEW th \in Threads, NEW v \in Thread,
           Set(s, th, v)
    PROVE  /\ thread' \in [Servers -> [Threads -> Thread]]
           /\ thread'[s][th] = v
           /\ \A r \in Servers, q \in Threads :
                    r # s \/ q # th => thread'[r][q] = thread[r][q]
BY DEF TypeOK, Set

\* A faithful thread state keeps the threads faithful.
LEMMA SetKeepsFaithful ==
    ASSUME IInv, NEW s \in Servers, NEW th \in Threads, NEW v \in Thread,
           Faithful(v), Set(s, th, v), UNCHANGED Elsewhere
    PROVE  ThreadsFaithful'
<1> SUFFICES ASSUME NEW r \in Servers, NEW q \in Threads
             PROVE  Faithful(thread[r][q])'
  BY DEF ThreadsFaithful
<1>1. thread'[r][q] = v \/ thread'[r][q] = thread[r][q]
  BY SetThread DEF IInv
<1>2. Faithful(thread'[r][q])
  BY <1>1 DEF IInv, ThreadsFaithful
<1> QED
  BY <1>2 DEF Faithful, Current, Elsewhere

\* A thread that has just opened its session.
Opened == [IdleThread EXCEPT !.pc = "open", !.seen = db, !.seenCounter = counter]

\* A thread that is idle, or has just opened its session, is faithful.
LEMMA RestingThreads ==
    ASSUME TypeOK
    PROVE  /\ IdleThread \in Thread /\ Faithful(IdleThread)
           /\ IdleThread.pc = "idle"
           /\ Opened \in Thread /\ Faithful(Opened) /\ Opened.pc = "open"
<1>1. /\ Empty \in Database /\ db \in Database
      /\ counter \in Nat /\ 0 <= counter /\ counter <= counter
  BY DEF TypeOK, Empty, Database
<1>2. IdleThread \in Thread /\ IdleThread.pc = "idle" /\ IdleThread.cp = 0
      /\ IdleThread.seenCounter = 0
  BY <1>1 DEF IdleThread, Thread
<1>3. /\ Opened \in Thread /\ Opened.pc = "open" /\ Opened.cp = 0
      /\ Opened.seenCounter = counter /\ Opened.seen = db
  BY <1>1 DEF Opened, IdleThread, Thread
<1>4. Faithful(IdleThread)
  BY <1>1, <1>2 DEF Faithful
<1>5. Faithful(Opened)
  BY <1>1, <1>3 DEF Faithful, Current
<1> QED
  BY <1>2, <1>3, <1>4, <1>5

\* A step that only sets a thread that does not load.
LEMMA RestKeeps ==
    ASSUME IInv, NEW s \in Servers, NEW th \in Threads, NEW v \in Thread,
           Faithful(v), v.pc # "loading", Set(s, th, v),
           UNCHANGED <<Elsewhere, view, checkpoint, lock, crashes>>
    PROVE  IInv'
<1>1. ThreadsFaithful'
  BY SetKeepsFaithful
<1>2. TypeOK'
  BY SetThread DEF IInv, TypeOK, Elsewhere
<1>3. LockHeld'
  BY SetThread DEF IInv, LockHeld, Loading, Elsewhere
<1>4. NoneAhead' /\ Fresh'
  BY DEF IInv, NoneAhead, Current, Empty, Fresh, Elsewhere
<1> QED
  BY <1>1, <1>2, <1>3, <1>4 DEF IInv

LEMMA OpenKeeps ==
    ASSUME IInv, NEW s \in Servers, OpenSession(s) \/ CloseSession(s)
    PROVE  IInv'
<1>1. \E v \in {IdleThread, Opened} :
        /\ Set(s, "main", v)
        /\ UNCHANGED <<Elsewhere, view, checkpoint, lock, crashes>>
  BY DEF OpenSession, CloseSession, Opened, Elsewhere
<1>2. \A v \in {IdleThread, Opened} :
        v \in Thread /\ Faithful(v) /\ v.pc # "loading"
  BY RestingThreads DEF IInv
<1>3. "main" \in Threads
  BY DEF Threads
<1> QED
  BY <1>1, <1>2, <1>3, RestKeeps

LEMMA StartUpdateKeeps ==
    ASSUME IInv, NEW s \in Servers, NEW th \in Threads, StartUpdate(s, th)
    PROVE  IInv'
<1> DEFINE old == snapshots /\ th = "main"
           seen == IF old THEN thread[s][th].seen ELSE db
           cp == IF old THEN thread[s][th].seenCounter ELSE counter
           v == [pc |-> "loading", seen |-> seen, seenCounter |-> cp,
                 cp |-> cp, copy |-> Empty, loaded |-> {}]
<1>1. /\ Set(s, th, v) /\ UNCHANGED <<Elsewhere, view, checkpoint, crashes>>
      /\ lock[s] = "none" /\ lock' = [lock EXCEPT ![s] = th]
      /\ old => thread[s][th].pc = "open"
  BY DEF StartUpdate, LockIsFree, Elsewhere
<1>2. thread[s][th] \in Thread /\ Faithful(thread[s][th])
  BY DEF IInv, TypeOK, ThreadsFaithful
<1>3. Empty \in Database /\ seen \in Database /\ cp \in Nat
  BY <1>2 DEF IInv, TypeOK, Empty, Database, Thread
<1>4. cp <= counter /\ (cp = counter => Current(seen, Tables))
  BY <1>1, <1>2 DEF Faithful, Current, IInv, TypeOK
<1>5. v \in Thread
  BY <1>3 DEF Thread
<1>6. /\ v.pc = "loading" /\ v.seenCounter = cp /\ v.cp = cp /\ v.seen = seen
      /\ v.loaded = {} /\ v.copy = Empty
  OBVIOUS
<1> HIDE DEF v
<1>7. Faithful(v)
  BY <1>4, <1>6 DEF Faithful, Current
<1>8. ThreadsFaithful'
  BY <1>1, <1>5, <1>7, SetKeepsFaithful
<1>9. TypeOK'
  BY <1>1, <1>5, SetThread DEF IInv, TypeOK, Elsewhere
<1>10. LockHeld'
  <2> SUFFICES ASSUME NEW r \in Servers, NEW q \in Threads, Loading(r, q)'
               PROVE  /\ lock'[r] = q
                      /\ snapshots \/ checkpoint[r] <= thread'[r][q].cp
    BY <1>1 DEF LockHeld, Elsewhere
  <2>1. CASE r = s /\ q = th
    <3>1. thread'[s][th] = v /\ lock'[s] = th
      BY <1>1, <1>5, SetThread DEF IInv, TypeOK
    <3>2. snapshots \/ checkpoint[s] <= cp
      BY DEF IInv, NoneAhead
    <3> QED
      BY <2>1, <3>1, <3>2, <1>6
  <2>2. CASE r # s \/ q # th
    <3>1. thread'[r][q] = thread[r][q]
      BY <1>1, <1>5, <2>2, SetThread DEF IInv
    <3>2. lock[r] = q /\ (snapshots \/ checkpoint[r] <= thread[r][q].cp)
      BY <3>1 DEF IInv, LockHeld, Loading
    <3>3. r # s
      BY <1>1, <3>2 DEF Threads
    <3> QED
      BY <1>1, <3>1, <3>2, <3>3 DEF IInv, TypeOK
  <2> QED
    BY <2>1, <2>2
<1>11. NoneAhead' /\ Fresh'
  BY <1>1 DEF IInv, NoneAhead, Current, Empty, Fresh, Elsewhere
<1> QED
  BY <1>8, <1>9, <1>10, <1>11 DEF IInv

LEMMA SkipUpdateKeeps ==
    ASSUME IInv, NEW s \in Servers, NEW th \in Threads, SkipUpdate(s, th)
    PROVE  IInv'
<1>1. /\ Loading(s, th) /\ Set(s, th, IdleThread)
      /\ lock' = [lock EXCEPT ![s] = "none"]
      /\ UNCHANGED <<Elsewhere, view, checkpoint, crashes>>
  BY DEF SkipUpdate, Release, Elsewhere
<1>2. IdleThread \in Thread /\ Faithful(IdleThread) /\ IdleThread.pc = "idle"
  BY RestingThreads DEF IInv
<1>3. ThreadsFaithful'
  BY <1>1, <1>2, SetKeepsFaithful
<1>4. TypeOK'
  BY <1>1, <1>2, SetThread DEF IInv, TypeOK, Elsewhere
<1>5. LockHeld'
  <2> SUFFICES ASSUME NEW r \in Servers, NEW q \in Threads, Loading(r, q)'
               PROVE  /\ lock'[r] = q
                      /\ snapshots \/ checkpoint[r] <= thread'[r][q].cp
    BY <1>1 DEF LockHeld, Elsewhere
  <2>1. r # s \/ q # th
    BY <1>1, <1>2, SetThread DEF IInv, Loading
  <2>2. thread'[r][q] = thread[r][q]
    BY <1>1, <1>2, <2>1, SetThread DEF IInv
  <2>3. lock[r] = q /\ (snapshots \/ checkpoint[r] <= thread[r][q].cp)
    BY <2>2 DEF IInv, LockHeld, Loading
  <2>4. r # s
    BY <1>1, <2>1, <2>3 DEF IInv, LockHeld
  <2> QED
    BY <1>1, <2>2, <2>3, <2>4 DEF IInv, TypeOK
<1>6. NoneAhead' /\ Fresh'
  BY <1>1 DEF IInv, NoneAhead, Current, Empty, Fresh, Elsewhere
<1> QED
  BY <1>3, <1>4, <1>5, <1>6 DEF IInv

LEMMA LoadTableKeeps ==
    ASSUME IInv, NEW s \in Servers, NEW th \in Threads, NEW t \in Tables,
           LoadTable(s, th, t)
    PROVE  IInv'
<1> DEFINE u == thread[s][th]
           version == IF snapshots THEN u.seen[t] ELSE db[t]
           v == [u EXCEPT !.copy[t] = version, !.loaded = @ \union {t}]
<1>1. /\ Loading(s, th) /\ Set(s, th, v)
      /\ UNCHANGED <<Elsewhere, view, checkpoint, lock, crashes>>
  BY DEF LoadTable, Elsewhere
<1>2. u \in Thread /\ Faithful(u) /\ u.pc = "loading"
  BY <1>1 DEF IInv, TypeOK, ThreadsFaithful, Loading
<1>3. version \in Nat
  BY <1>2 DEF IInv, TypeOK, Thread, Database
<1>4. /\ v \in Thread /\ v.pc = "loading" /\ v.seenCounter = u.seenCounter
      /\ v.cp = u.cp /\ v.seen = u.seen /\ v.loaded = u.loaded \union {t}
      /\ v.copy = [u.copy EXCEPT ![t] = version]
  BY <1>2, <1>3 DEF Thread, Database
<1>5. (u.cp = counter /\ t \notin unannounced) => version = db[t]
  BY <1>2 DEF Faithful, Current
<1>6. \A r \in Tables : v.copy[r] = IF r = t THEN version ELSE u.copy[r]
  BY <1>2, <1>4 DEF Thread, Database
<1>7. u.loaded \subseteq Tables
  BY <1>2 DEF Thread
<1> HIDE DEF v, version, u
<1>8. Faithful(v)
  BY <1>2, <1>4, <1>5, <1>6, <1>7 DEF Faithful, Current
<1>9. ThreadsFaithful'
  BY <1>1, <1>4, <1>8, SetKeepsFaithful
<1>10. TypeOK'
  BY <1>1, <1>4, SetThread DEF IInv, TypeOK, Elsewhere
<1>11. LockHeld'
  <2> SUFFICES ASSUME NEW r \in Servers, NEW q \in Threads, Loading(r, q)'
               PROVE  lock[r] = q /\ (snapshots \/ checkpoint[r] <= thread'[r][q].cp)
    BY <1>1 DEF LockHeld, Elsewhere
  <2>1. Loading(r, q) /\ thread'[r][q].cp = thread[r][q].cp
    BY <1>1, <1>4, SetThread DEF IInv, Loading, u
  <2> QED
    BY <2>1 DEF IInv, LockHeld
<1>12. NoneAhead' /\ Fresh'
  BY <1>1 DEF IInv, NoneAhead, Current, Empty, Fresh, Elsewhere
<1> QED
  BY <1>9, <1>10, <1>11, <1>12 DEF IInv

\* What a thread publishes is faithful, and so is the graph.
LEMMA PublishKeeps ==
    ASSUME IInv, NEW s \in Servers, NEW th \in Threads, Publish(s, th)
    PROVE  IInv'
<1> DEFINE u == thread[s][th]
<1>1. /\ Loading(s, th) /\ Set(s, th, IdleThread) /\ u.loaded = Tables
      /\ view' = [view EXCEPT ![s] = u.copy]
      /\ checkpoint' = [checkpoint EXCEPT ![s] = u.cp]
      /\ lock' = [lock EXCEPT ![s] = "none"]
      /\ UNCHANGED <<Elsewhere, crashes>>
  BY DEF Publish, LoadedAll, CounterAtStart, Release, Elsewhere
<1>2. u \in Thread /\ Faithful(u) /\ u.pc = "loading"
  BY <1>1 DEF IInv, TypeOK, ThreadsFaithful, Loading
<1>3. u.cp \in Nat /\ u.copy \in Database /\ u.cp <= counter
  BY <1>2 DEF Thread, Faithful
<1>4. u.cp = counter => Current(u.copy, Tables)
  BY <1>1, <1>2 DEF Faithful
<1>5. IdleThread \in Thread /\ Faithful(IdleThread) /\ IdleThread.pc = "idle"
  BY RestingThreads DEF IInv
<1> HIDE DEF u
<1>6. ThreadsFaithful'
  BY <1>1, <1>5, SetKeepsFaithful
<1>7. TypeOK'
  BY <1>1, <1>3, <1>5, SetThread DEF IInv, TypeOK, Elsewhere
<1>8. NoneAhead'
  BY <1>1, <1>3 DEF IInv, NoneAhead, Current, Empty, TypeOK, Elsewhere
<1>9. Fresh'
  <2> SUFFICES ASSUME NEW r \in Servers, checkpoint'[r] = counter
               PROVE  Current(view'[r], Tables)
    BY <1>1 DEF Fresh, Current, Elsewhere
  <2>1. CASE r = s
    BY <1>1, <1>4, <2>1 DEF IInv, TypeOK
  <2>2. CASE r # s
    BY <1>1, <2>2 DEF IInv, TypeOK, Fresh, Current
  <2> QED
    BY <2>1, <2>2
<1>10. LockHeld'
  <2> SUFFICES ASSUME NEW r \in Servers, NEW q \in Threads, Loading(r, q)'
               PROVE  /\ lock'[r] = q
                      /\ snapshots \/ checkpoint'[r] <= thread'[r][q].cp
    BY <1>1 DEF LockHeld, Elsewhere
  <2>1. r # s \/ q # th
    BY <1>1, <1>5, SetThread DEF IInv, Loading
  <2>2. thread'[r][q] = thread[r][q]
    BY <1>1, <1>5, <2>1, SetThread DEF IInv
  <2>3. lock[r] = q /\ (snapshots \/ checkpoint[r] <= thread[r][q].cp)
    BY <2>2 DEF IInv, LockHeld, Loading
  <2>4. r # s
    BY <1>1, <2>1, <2>3 DEF IInv, LockHeld
  <2> QED
    BY <1>1, <2>2, <2>3, <2>4 DEF IInv, TypeOK
<1> QED
  BY <1>6, <1>7, <1>8, <1>9, <1>10 DEF IInv

\* A restarted server claims nothing, unless nothing was ever announced.
LEMMA RestartKeeps ==
    ASSUME IInv, NEW s \in Servers, Restart(s)
    PROVE  IInv'
<1> USE DEF Restart
<1>1. /\ IdleThread \in Thread /\ Faithful(IdleThread)
      /\ IdleThread.pc = "idle" /\ Empty \in Database
  BY RestingThreads DEF IInv, Empty, Database
<1>2. TypeOK'
  BY <1>1 DEF IInv, TypeOK
<1>3. /\ thread' \in [Servers -> [Threads -> Thread]]
      /\ \A r \in Servers, q \in Threads :
            thread'[r][q] = IF r = s THEN IdleThread ELSE thread[r][q]
  BY <1>1 DEF IInv, TypeOK
<1>4. ThreadsFaithful'
  <2> SUFFICES ASSUME NEW r \in Servers, NEW q \in Threads
               PROVE  Faithful(thread[r][q])'
    BY DEF ThreadsFaithful
  <2>1. Faithful(thread'[r][q])
    BY <1>1, <1>3 DEF IInv, ThreadsFaithful
  <2> QED
    BY <2>1 DEF Faithful, Current
<1>5. NoneAhead'
  BY DEF IInv, TypeOK, NoneAhead, Current, Empty
<1>6. LockHeld'
  BY <1>1, <1>3 DEF IInv, TypeOK, LockHeld, Loading
<1>7. Fresh'
  <2> SUFFICES ASSUME NEW r \in Servers, checkpoint'[r] = counter
               PROVE  Current(view'[r], Tables)
    BY DEF Fresh, Current
  <2>1. CASE r = s
    BY <2>1 DEF IInv, TypeOK, NoneAhead
  <2>2. CASE r # s
    BY <2>2 DEF IInv, TypeOK, Fresh, Current
  <2> QED
    BY <2>1, <2>2
<1> QED
  BY <1>2, <1>4, <1>5, <1>6, <1>7 DEF IInv

-----------------------------------------------------------------------------
(* The theorems.                                                           *)

LEMMA IInvInit == Init => IInv
<1> SUFFICES ASSUME Init PROVE IInv
  OBVIOUS
<1>1. Empty \in Database
  BY DEF Empty, Database
<1>2. TypeOK
  BY <1>1, GraphCacheAssumption DEF Init, TypeOK, IdleThread, Thread
<1>3. \A s \in Servers, th \in Threads : thread[s][th] = IdleThread
  BY DEF Init
<1>4. ThreadsFaithful /\ LockHeld
  BY <1>2, <1>3, RestingThreads DEF ThreadsFaithful, LockHeld, Loading
<1>5. NoneAhead /\ Fresh
  BY DEF Init, NoneAhead, Current, Fresh
<1> QED
  BY <1>2, <1>4, <1>5 DEF IInv

LEMMA IInvNext == IInv /\ [Next]_vars => IInv'
<1> SUFFICES ASSUME IInv, [Next]_vars PROVE IInv'
  OBVIOUS
<1>1. CASE Write
  BY <1>1, WriteKeeps
<1>2. ASSUME NEW s \in Servers, OpenSession(s) \/ CloseSession(s)
      PROVE  IInv'
  BY <1>2, OpenKeeps
<1>3. ASSUME NEW s \in Servers, Restart(s)
      PROVE  IInv'
  BY <1>3, RestartKeeps
<1>4. ASSUME NEW s \in Servers, NEW th \in Threads, UpdateStep(s, th)
      PROVE  IInv'
  BY <1>4, StartUpdateKeeps, SkipUpdateKeeps, LoadTableKeeps, PublishKeeps
  DEF UpdateStep
<1>5. CASE UNCHANGED vars
  BY <1>5 DEF vars, cache, IInv, TypeOK, NoneAhead, ThreadsFaithful, Faithful,
              Current, Empty, LockHeld, Loading, Fresh
<1> QED
  BY <1>1, <1>2, <1>3, <1>4, <1>5 DEF Next

THEOREM Invariance == Spec => []IInv
BY IInvInit, IInvNext, PTL DEF Spec

\* Every variable keeps its type: versions and counters stay natural numbers,
\* threads stay in the states of update_from_db.
THEOREM TypeCorrect == Spec => []TypeOK
<1>1. IInv => TypeOK
  BY DEF IInv
<1> QED
  BY <1>1, Invariance, PTL

\* A server whose GroupGraph.checkpoint equals the counter answers from the
\* current tables, save those changed without a move of the counter since:
\* "Checkpoint hasn't changed. Not Updating." skips nothing announced.
THEOREM FreshGraphs == Spec => []Fresh
<1>1. IInv => Fresh
  BY DEF IInv
<1> QED
  BY <1>1, Invariance, PTL

\* Where a session reads what is committed, no update_from_db takes a server
\* back to an earlier checkpoint: _update_lock covers reading the counter and
\* publishing the graph.
THEOREM CheckpointMonotone == Spec => CheckpointNeverRecedes
<1>1. ASSUME IInv, [Next]_vars, NEW s \in Servers
      PROVE  snapshots \/ checkpoint'[s] >= checkpoint[s] \/ Restart(s)
  <2> USE <1>1
  <2>1. checkpoint[s] \in Nat
    BY DEF IInv, TypeOK
  <2>2. ASSUME checkpoint' = checkpoint
        PROVE  checkpoint'[s] >= checkpoint[s]
    BY <2>1, <2>2
  <2>3. ASSUME NEW r \in Servers, NEW th \in Threads, Publish(r, th)
        PROVE  snapshots \/ checkpoint'[s] >= checkpoint[s]
    <3>1. /\ thread[r][th].cp \in Nat
          /\ snapshots \/ checkpoint[r] <= thread[r][th].cp
      BY <2>3 DEF Publish, IInv, TypeOK, Thread, LockHeld
    <3>2. checkpoint' = [checkpoint EXCEPT ![r] = thread[r][th].cp]
      BY <2>3 DEF Publish, CounterAtStart
    <3> QED
      BY <2>1, <3>1, <3>2 DEF IInv, TypeOK
  <2>4. ASSUME NEW r \in Servers, Restart(r)
        PROVE  checkpoint'[s] >= checkpoint[s] \/ Restart(s)
    <3>1. CASE r = s
      BY <2>4, <3>1
    <3>2. CASE r # s
      BY <2>1, <2>4, <3>2 DEF Restart, IInv, TypeOK
    <3> QED
      BY <3>1, <3>2
  <2>5. \/ checkpoint' = checkpoint
        \/ \E r \in Servers, th \in Threads : Publish(r, th)
        \/ \E r \in Servers : Restart(r)
    <3>1. ASSUME Write
          PROVE  checkpoint' = checkpoint
      BY <3>1 DEF Write, Update, CommitBeforeCounter, CommitCounter,
                  LoseCounter, ChangeSilently, cache
    <3>2. ASSUME NEW r \in Servers, OpenSession(r) \/ CloseSession(r)
          PROVE  checkpoint' = checkpoint
      BY <3>2 DEF OpenSession, CloseSession, cache
    <3>3. ASSUME NEW r \in Servers, NEW th \in Threads, UpdateStep(r, th)
          PROVE  checkpoint' = checkpoint \/ Publish(r, th)
      BY <3>3 DEF UpdateStep, StartUpdate, SkipUpdate, LoadTable
    <3>4. ASSUME UNCHANGED vars
          PROVE  checkpoint' = checkpoint
      BY <3>4 DEF vars, cache
    <3> QED
      BY <3>1, <3>2, <3>3, <3>4 DEF Next
  <2> QED
    BY <2>2, <2>3, <2>4, <2>5
<1>2. IInv /\ [Next]_vars =>
        [\A s \in Servers : \/ snapshots
                            \/ checkpoint'[s] >= checkpoint[s]
                            \/ Restart(s)]_vars
  BY <1>1
<1> QED
  BY <1>2, Invariance, PTL DEF Spec, CheckpointNeverRecedes

-----------------------------------------------------------------------------
(* Nothing read is ahead of the database.                                  *)

AtMost(a, b) == \A t \in Tables : a[t] <= b[t]

\* What a thread has read is in the database's past; and without a snapshot the
\* tables it has loaded are no older than those it is about to replace.
ThreadBehind(s, v) ==
    /\ AtMost(v.seen, db) /\ AtMost(v.copy, db)
    /\ ~snapshots /\ v.pc = "loading" =>
          \A t \in v.loaded : view[s][t] <= v.copy[t]

Behind ==
    /\ \A s \in Servers : AtMost(view[s], db)
    /\ \A s \in Servers, th \in Threads : ThreadBehind(s, thread[s][th])

LEMMA EmptyIsLeast ==
    ASSUME NEW d \in Database
    PROVE  Empty \in Database /\ AtMost(Empty, d) /\ AtMost(d, d)
BY DEF Empty, Database, AtMost

LEMMA AtMostTransitive ==
    ASSUME NEW a \in Database, NEW b \in Database, NEW c \in Database,
           AtMost(a, b), AtMost(b, c)
    PROVE  AtMost(a, c)
BY DEF AtMost, Database

\* The types that the steps below need of a state and of one thread.
LEMMA ThreadTypes ==
    ASSUME TypeOK, NEW s \in Servers, NEW th \in Threads
    PROVE  /\ db \in Database /\ view[s] \in Database /\ counter \in Nat
           /\ thread[s][th] \in Thread
           /\ thread[s][th].seen \in Database /\ thread[s][th].copy \in Database
           /\ thread[s][th].loaded \subseteq Tables
BY DEF TypeOK, Thread

Grown(T) == [t \in Tables |-> IF t \in T THEN db[t] + 1 ELSE db[t]]

\* How a writer changes the database: it grows, and the servers stay as they
\* are.  What changes without the counter is not announced.
LEMMA WriterGrows ==
    ASSUME TypeOK, Write
    PROVE  /\ db' \in Database /\ AtMost(db, db')
           /\ UNCHANGED <<view, checkpoint, lock, thread, snapshots>>
           /\ \/ counter' = counter + 1
              \/ counter' = counter /\ \A t \in AnnouncedTables : db'[t] = db[t]
           /\ \E T \in SUBSET Tables : db' = Grown(T)
<1>1. ASSUME NEW T \in SUBSET Tables, db' = Changed(T)
      PROVE  /\ db' \in Database /\ AtMost(db, db') /\ db' = Grown(T)
             /\ \A t \in Tables \ T : db'[t] = db[t]
  BY <1>1 DEF TypeOK, Changed, Database, AtMost, Grown
<1>2. ASSUME NEW T \in SUBSET Tables, Announce(T),
             UNCHANGED <<cache, snapshots>>
      PROVE  /\ db' \in Database /\ AtMost(db, db') /\ db' = Grown(T)
             /\ counter' = counter + 1
             /\ UNCHANGED <<view, checkpoint, lock, thread, snapshots>>
  BY <1>1, <1>2 DEF Announce, Incr, cache
<1>3. ASSUME NEW w \in Writers, NEW t \in Tables, Update(w, t)
      PROVE  Announce({t}) /\ UNCHANGED <<cache, snapshots>>
  BY <1>3 DEF Update
<1>4. ASSUME NEW w \in Writers, NEW T \in SUBSET Tables, CommitCounter(w, T)
      PROVE  Announce(T) /\ UNCHANGED <<cache, snapshots>>
  BY <1>4 DEF CommitCounter
<1>5. ASSUME NEW t \in Tables \ AnnouncedTables, db' = Changed({t}),
             UNCHANGED <<counter, cache, snapshots>>
      PROVE  /\ db' \in Database /\ AtMost(db, db') /\ db' = Grown({t})
             /\ counter' = counter /\ \A u \in AnnouncedTables : db'[u] = db[u]
             /\ UNCHANGED <<view, checkpoint, lock, thread, snapshots>>
  BY <1>1, <1>5 DEF cache, AnnouncedTables
<1>6. ASSUME NEW w \in Writers, NEW t \in Tables, CommitBeforeCounter(w, t)
      PROVE  /\ t \in Tables \ AnnouncedTables /\ db' = Changed({t})
             /\ UNCHANGED <<counter, cache, snapshots>>
  BY <1>6 DEF CommitBeforeCounter, AnnouncedTables
<1>7. ASSUME NEW t \in SilentTables, ChangeSilently(t)
      PROVE  /\ t \in Tables \ AnnouncedTables /\ db' = Changed({t})
             /\ UNCHANGED <<counter, cache, snapshots>>
  BY <1>7, GraphCacheAssumption DEF ChangeSilently, AnnouncedTables
<1>8. ASSUME NEW w \in Writers, LoseCounter(w)
      PROVE  /\ db' \in Database /\ AtMost(db, db') /\ db' = Grown({})
             /\ counter' = counter /\ \A u \in AnnouncedTables : db'[u] = db[u]
             /\ UNCHANGED <<view, checkpoint, lock, thread, snapshots>>
  <2>1. UNCHANGED <<db, counter, view, checkpoint, lock, thread, snapshots>>
    BY <1>8 DEF LoseCounter, cache
  <2>2. db = Grown({}) /\ AtMost(db, db)
    BY DEF TypeOK, Database, Grown, AtMost
  <2> QED
    BY <2>1, <2>2 DEF TypeOK
<1> QED
  BY <1>2, <1>3, <1>4, <1>5, <1>6, <1>7, <1>8 DEF Write

-----------------------------------------------------------------------------
(* The steps of a server.                                                  *)

\* A thread of s goes from u to v, and nothing that others see changes.
ThreadStep(s, th, v) ==
    /\ v \in Thread /\ Set(s, th, v)
    /\ UNCHANGED <<db, counter, view, checkpoint, snapshots>>

\* What an update starts with: the open session's snapshot, or what is current.
Started(v, u) ==
    /\ v.pc = "loading" /\ v.cp = v.seenCounter
    /\ v.copy = Empty /\ v.loaded = {}
    /\ \/ v.seen = u.seen /\ v.seenCounter = u.seenCounter
       \/ v.seen = db /\ v.seenCounter = counter

Loaded(v, u, t) ==
    /\ v.pc = "loading" /\ u.pc = "loading" /\ t \notin u.loaded
    /\ v.cp = u.cp /\ v.seen = u.seen /\ v.seenCounter = u.seenCounter
    /\ v.loaded = u.loaded \union {t}
    /\ \A r \in Tables : v.copy[r] = IF r # t THEN u.copy[r]
                                     ELSE IF snapshots THEN u.seen[t] ELSE db[t]

\* Every step of the system is one of the writers, one that moves a thread on,
\* or one that replaces a graph.
LEMMA ServerSteps ==
    ASSUME IInv, NEW s \in Servers,
           \/ OpenSession(s) \/ CloseSession(s)
           \/ \E th \in Threads : UpdateStep(s, th)
    PROVE  \E th \in Threads :
             \/ Publish(s, th)
             \/ \E v \in Thread :
                  /\ ThreadStep(s, th, v)
                  /\ \/ v \in {IdleThread, Opened}
                     \/ Started(v, thread[s][th])
                     \/ \E t \in Tables : Loaded(v, thread[s][th], t)
<1>1. TypeOK /\ "main" \in Threads
  BY DEF IInv, Threads
<1>2. IdleThread \in Thread /\ Opened \in Thread
  BY <1>1, RestingThreads
<1>3. CASE OpenSession(s) \/ CloseSession(s)
  BY <1>1, <1>2, <1>3 DEF OpenSession, CloseSession, Opened, ThreadStep
<1>4. ASSUME NEW th \in Threads, StartUpdate(s, th)
      PROVE  \E v \in Thread : ThreadStep(s, th, v) /\ Started(v, thread[s][th])
  <2> DEFINE old == snapshots /\ th = "main"
             seen == IF old THEN thread[s][th].seen ELSE db
             cp == IF old THEN thread[s][th].seenCounter ELSE counter
             v == [pc |-> "loading", seen |-> seen, seenCounter |-> cp,
                   cp |-> cp, copy |-> Empty, loaded |-> {}]
  <2>1. seen \in Database /\ cp \in Nat /\ Empty \in Database
    BY <1>1, ThreadTypes DEF Thread, Empty, Database
  <2>2. v \in Thread /\ Started(v, thread[s][th])
    BY <2>1 DEF Thread, Started
  <2>3. ThreadStep(s, th, v)
    BY <1>4, <2>2 DEF StartUpdate, ThreadStep
  <2> QED
    BY <2>2, <2>3
<1>5. ASSUME NEW th \in Threads, SkipUpdate(s, th)
      PROVE  ThreadStep(s, th, IdleThread)
  BY <1>2, <1>5 DEF SkipUpdate, ThreadStep
<1>6. ASSUME NEW th \in Threads, NEW t \in Tables, LoadTable(s, th, t)
      PROVE  \E v \in Thread :
                ThreadStep(s, th, v) /\ Loaded(v, thread[s][th], t)
  <2> DEFINE u == thread[s][th]
             version == IF snapshots THEN u.seen[t] ELSE db[t]
             v == [u EXCEPT !.copy[t] = version, !.loaded = @ \union {t}]
  <2>1. u \in Thread /\ u.pc = "loading" /\ t \notin u.loaded /\ version \in Nat
    BY <1>1, <1>6, ThreadTypes DEF LoadTable, Loading, Database
  <2>2. v \in Thread /\ Loaded(v, u, t)
    BY <2>1 DEF Thread, Database, Loaded
  <2>3. ThreadStep(s, th, v)
    BY <1>6, <2>2 DEF LoadTable, ThreadStep
  <2> QED
    BY <2>2, <2>3
<1> QED
  BY <1>2, <1>3, <1>4, <1>5, <1>6 DEF UpdateStep

\* Publishing puts the copy of a complete load in the place of the graph.
LEMMA PublishStep ==
    ASSUME IInv, NEW s \in Servers, NEW th \in Threads, Publish(s, th)
    PROVE  LET u == thread[s][th]
           IN  /\ u \in Thread /\ u.pc = "loading" /\ u.loaded = Tables
               /\ lock[s] = th
               /\ view' = [view EXCEPT ![s] = u.copy]
               /\ checkpoint' = [checkpoint EXCEPT ![s] = u.cp]
               /\ Set(s, th, IdleThread)
               /\ UNCHANGED <<db, counter, snapshots>>
BY DEF IInv, TypeOK, LockHeld, Publish, Loading, LoadedAll, CounterAtStart

-----------------------------------------------------------------------------
(* Behind is an invariant.                                                 *)

LEMMA BehindNext ==
    ASSUME IInv, Behind, [Next]_vars
    PROVE  Behind'
<1>1. TypeOK /\ TypeOK'
  BY IInvNext DEF IInv
<1>2. CASE Write
  <2>1. db' \in Database /\ AtMost(db, db')
        /\ UNCHANGED <<view, thread, snapshots>>
    BY <1>1, <1>2, WriterGrows
  <2>2. ASSUME NEW s \in Servers
        PROVE  AtMost(view'[s], db')
    BY <1>1, <2>1, AtMostTransitive DEF Behind, TypeOK
  <2>3. ASSUME NEW s \in Servers, NEW th \in Threads
        PROVE  ThreadBehind(s, thread[s][th])'
    BY <1>1, <2>1, AtMostTransitive, ThreadTypes DEF Behind, ThreadBehind, TypeOK
  <2> QED
    BY <2>2, <2>3 DEF Behind
<1>3. ASSUME NEW s \in Servers, NEW th \in Threads, NEW v \in Thread,
             ThreadStep(s, th, v), ThreadBehind(s, v)
      PROVE  Behind'
  <2>1. ASSUME NEW r \in Servers, NEW q \in Threads
        PROVE  (thread'[r][q] = v /\ r = s) \/ thread'[r][q] = thread[r][q]
    BY <1>1, <1>3, SetThread DEF ThreadStep
  <2>2. UNCHANGED <<db, view, snapshots>>
    BY <1>3 DEF ThreadStep
  <2> QED
    BY <1>3, <2>1, <2>2 DEF Behind, ThreadBehind, AtMost
<1>4. Empty \in Database /\ db \in Database /\ AtMost(Empty, db) /\ AtMost(db, db)
  BY <1>1, EmptyIsLeast DEF TypeOK
<1>5. ASSUME NEW s \in Servers, NEW v \in {IdleThread, Opened}
      PROVE  ThreadBehind(s, v)
  <2>1. /\ IdleThread.pc = "idle" /\ IdleThread.seen = Empty
        /\ IdleThread.copy = Empty
    BY DEF IdleThread
  <2>2. /\ Opened.pc = "open" /\ Opened.seen = db /\ Opened.copy = Empty
    BY DEF Opened, IdleThread
  <2> QED
    BY <1>4, <2>1, <2>2 DEF ThreadBehind
<1>6. ASSUME NEW s \in Servers, NEW th \in Threads, NEW v \in Thread,
             Started(v, thread[s][th])
      PROVE  ThreadBehind(s, v)
  BY <1>4, <1>6 DEF ThreadBehind, Started, Behind
<1>7. ASSUME NEW s \in Servers, NEW th \in Threads, NEW v \in Thread,
             NEW t \in Tables, Loaded(v, thread[s][th], t)
      PROVE  ThreadBehind(s, v)
  <2> DEFINE u == thread[s][th]
  <2>1. /\ ThreadBehind(s, u) /\ AtMost(view[s], db) /\ u.loaded \subseteq Tables
        /\ view[s] \in Database
    BY <1>1, ThreadTypes DEF Behind
  <2>2. AtMost(v.seen, db) /\ AtMost(v.copy, db)
    BY <1>4, <1>7, <2>1 DEF Loaded, ThreadBehind, AtMost
  <2>3. ASSUME ~snapshots, NEW r \in v.loaded
        PROVE  view[s][r] <= v.copy[r]
    BY <1>7, <2>1, <2>3 DEF Loaded, ThreadBehind, AtMost
  <2> QED
    BY <2>2, <2>3 DEF ThreadBehind
<1>8. ASSUME NEW s \in Servers, NEW th \in Threads, Publish(s, th)
      PROVE  Behind'
  <2> DEFINE u == thread[s][th]
  <2>1. /\ lock[s] = th /\ Set(s, th, IdleThread)
        /\ view' = [view EXCEPT ![s] = u.copy] /\ UNCHANGED <<db, snapshots>>
    BY <1>8, PublishStep
  <2>2. ThreadBehind(s, u)
    BY DEF Behind
  <2>3. ASSUME NEW r \in Servers
        PROVE  AtMost(view'[r], db')
    BY <1>1, <2>1, <2>2, <2>3 DEF TypeOK, Behind, ThreadBehind
  <2>4. ASSUME NEW r \in Servers, NEW q \in Threads
        PROVE  ThreadBehind(r, thread[r][q])'
    <3>1. CASE r = s /\ q = th
      <4>1. thread'[s][th] = IdleThread
        BY <1>1, <2>1, RestingThreads, SetThread
      <4> QED
        BY <1>4, <2>1, <3>1, <4>1 DEF ThreadBehind, IdleThread
    <3>2. CASE r # s \/ q # th
      <4>1. thread'[r][q] = thread[r][q]
        BY <1>1, <2>1, <3>2, RestingThreads, SetThread
      <4>2. thread[r][q].pc = "loading" => r # s
        BY <2>1, <3>2 DEF IInv, LockHeld, Loading
      <4>3. r # s => view'[r] = view[r]
        BY <1>1, <2>1 DEF TypeOK
      <4> QED
        BY <2>1, <4>1, <4>2, <4>3 DEF Behind, ThreadBehind, AtMost
    <3> QED
      BY <3>1, <3>2
  <2> QED
    BY <2>3, <2>4 DEF Behind
<1>9. ASSUME NEW s \in Servers, Restart(s)
      PROVE  Behind'
  <2>1. /\ UNCHANGED <<db, snapshots>>
        /\ \A r \in Servers : view'[r] = IF r = s THEN Empty ELSE view[r]
        /\ \A r \in Servers, q \in Threads :
              thread'[r][q] = IF r = s THEN IdleThread ELSE thread[r][q]
    BY <1>1, <1>9 DEF Restart, TypeOK
  <2> QED
    BY <1>4, <1>5, <2>1 DEF Behind, ThreadBehind, AtMost, IdleThread
<1>10. CASE UNCHANGED vars
  BY <1>10 DEF vars, cache, Behind, ThreadBehind, AtMost
<1> QED
  BY <1>2, <1>3, <1>5, <1>6, <1>7, <1>8, <1>9, <1>10, ServerSteps DEF Next

LEMMA BehindAlways == Spec => [](IInv /\ Behind)
<1>1. Init => Behind
  BY EmptyIsLeast DEF Init, Behind, ThreadBehind, IdleThread, AtMost, Empty
<1> QED
  BY <1>1, IInvInit, IInvNext, BehindNext, PTL DEF Spec

-----------------------------------------------------------------------------
(* The refinement.                                                         *)

\* One step of GraphCache is one of CachedGraph, or a stutter.
LEMMA StepsAreCached ==
    ASSUME IInv, Behind, [Next]_vars
    PROVE  [Cached!Next]_Cached!vars
<1> USE DEF Cached!vars
<1>1. TypeOK
  BY DEF IInv
<1>2. CASE Write
  BY <1>1, <1>2, WriterGrows
  DEF Grown, Cached!Next, Cached!Change
<1>3. ASSUME NEW s \in Servers, NEW th \in Threads, NEW v \in Thread,
             ThreadStep(s, th, v)
      PROVE  UNCHANGED Cached!vars
  BY <1>3 DEF ThreadStep
<1>4. ASSUME NEW s \in Servers, NEW th \in Threads, Publish(s, th)
      PROVE  Cached!Refresh(s)
  <2> DEFINE u == thread[s][th]
  <2>1. /\ u.loaded = Tables /\ u.pc = "loading"
        /\ view' = [view EXCEPT ![s] = u.copy] /\ UNCHANGED <<db, snapshots>>
    BY <1>4, PublishStep
  <2>2. view'[s] = u.copy
    BY <1>1, <2>1 DEF TypeOK
  <2>3. AtMost(u.copy, db) /\ (snapshots \/ AtMost(view[s], u.copy))
    BY <2>1 DEF Behind, ThreadBehind, AtMost
  <2> QED
    BY <2>1, <2>2, <2>3 DEF Cached!Refresh, Cached!NoNewer, AtMost
<1>5. ASSUME NEW s \in Servers, Restart(s)
      PROVE  Cached!Restart(s)
  BY <1>5 DEF Restart, Cached!Restart, Cached!Empty, Empty
<1>6. CASE UNCHANGED vars
  BY <1>6 DEF vars, cache
<1> QED
  BY <1>2, <1>3, <1>4, <1>5, <1>6, ServerSteps DEF Next, Cached!Next

\* The servers implement the cached graph: whatever the interleaving of the
\* threads, the writers and the deaths of processes, a server answers from
\* versions that the database has held, and no update_from_db takes a table of
\* its back in time unless the session reads from a snapshot.
THEOREM ImplementsCachedGraph == Spec => CachedGraphSpec
<1>1. Init => Cached!Init
  BY GraphCacheAssumption DEF Init, Cached!Init, Cached!Empty, Empty
<1> QED
  BY <1>1, BehindAlways, StepsAreCached, PTL
  DEF Spec, CachedGraphSpec, Cached!Spec

-----------------------------------------------------------------------------
(* The order of the checkpoints.                                           *)

\* What the servers hold or have read, with the counter that goes with it.
Points ==
    {<<counter, db>>, <<0, Empty>>}
    \union {<<checkpoint[s], view[s]>> : s \in Servers}
    \union {<<thread[s][th].seenCounter, thread[s][th].seen>> :
                s \in Servers, th \in Threads}

InOrder(p, q) ==
    p[1] <= q[1] => \A t \in AnnouncedTables : p[2][t] <= q[2][t]

\* Where sessions read from snapshots, all of it is ordered by the counter, and
\* a copy is a part of its snapshot.
Ordered ==
    snapshots =>
        /\ \A p, q \in Points : InOrder(p, q)
        /\ \A s \in Servers, th \in Threads :
              LET v == thread[s][th]
              IN  v.pc = "loading" =>
                      \A t \in v.loaded : v.copy[t] = v.seen[t]

\* No point is ahead of the database.
LEMMA PointTypes ==
    ASSUME IInv, Behind, NEW p \in Points
    PROVE  /\ p[1] \in Nat /\ p[2] \in Database
           /\ p[1] <= counter /\ AtMost(p[2], db)
<1>1. TypeOK /\ db \in Database /\ counter \in Nat /\ Empty \in Database
      /\ AtMost(Empty, db) /\ AtMost(db, db)
  BY EmptyIsLeast DEF IInv, TypeOK
<1>2. CASE p \in {<<counter, db>>, <<0, Empty>>}
  BY <1>1, <1>2
<1>3. ASSUME NEW s \in Servers, p = <<checkpoint[s], view[s]>>
      PROVE  /\ p[1] \in Nat /\ p[2] \in Database
             /\ p[1] <= counter /\ AtMost(p[2], db)
  BY <1>1, <1>3 DEF TypeOK, IInv, NoneAhead, Behind
<1>4. ASSUME NEW s \in Servers, NEW th \in Threads,
             p = <<thread[s][th].seenCounter, thread[s][th].seen>>
      PROVE  /\ p[1] \in Nat /\ p[2] \in Database
             /\ p[1] <= counter /\ AtMost(p[2], db)
  BY <1>1, <1>4, ThreadTypes
  DEF Thread, IInv, ThreadsFaithful, Faithful, Behind, ThreadBehind
<1> QED
  BY <1>2, <1>3, <1>4 DEF Points

\* A step that brings no new point keeps the order.
LEMMA OldPoints ==
    ASSUME Ordered, UNCHANGED snapshots, Points' \subseteq Points,
           \A s \in Servers, th \in Threads :
              snapshots /\ thread'[s][th].pc = "loading" =>
                 \A t \in thread'[s][th].loaded :
                     thread'[s][th].copy[t] = thread'[s][th].seen[t]
    PROVE  Ordered'
BY DEF Ordered, InOrder

LEMMA OrderedNext ==
    ASSUME IInv, Behind, Ordered, [Next]_vars
    PROVE  Ordered'
<1>1. TypeOK /\ TypeOK'
  BY IInvNext DEF IInv
<1>2. CASE Write
  <2>1. /\ db' \in Database /\ AtMost(db, db') /\ db \in Database
        /\ UNCHANGED <<view, checkpoint, lock, thread, snapshots>>
        /\ counter \in Nat
    BY <1>1, <1>2, WriterGrows DEF TypeOK
  <2>2. ASSUME NEW p \in Points'
        PROVE  p = <<counter', db'>> \/ p \in Points
    BY <2>1 DEF Points
  <2>3. ASSUME snapshots, counter' = counter + 1,
               NEW p \in Points', NEW q \in Points'
        PROVE  InOrder(p, q)'
    <3>1. CASE q = <<counter', db'>>
      <4>1. ASSUME p \in Points
            PROVE  \A t \in AnnouncedTables : p[2][t] <= db'[t]
        BY <2>1, <4>1, PointTypes, AtMostTransitive DEF AtMost, AnnouncedTables
      <4>2. \A t \in AnnouncedTables : db'[t] <= db'[t]
        BY <2>1 DEF Database, AnnouncedTables
      <4> QED
        BY <2>2, <3>1, <4>1, <4>2 DEF InOrder
    <3>2. CASE p = <<counter', db'>> /\ q \in Points
      BY <2>1, <2>3, <3>2, PointTypes DEF InOrder
    <3>3. CASE p \in Points /\ q \in Points
      BY <2>3, <3>3 DEF Ordered, InOrder
    <3> QED
      BY <2>2, <3>1, <3>2, <3>3
  <2>4. ASSUME snapshots, counter' = counter,
               \A t \in AnnouncedTables : db'[t] = db[t],
               NEW p \in Points', NEW q \in Points'
        PROVE  InOrder(p, q)'
    <3>1. <<counter, db>> \in Points
      BY DEF Points
    <3>2. \A r \in Points' : \E o \in Points :
              r[1] = o[1] /\ \A t \in AnnouncedTables : r[2][t] = o[2][t]
      BY <2>2, <2>4, <3>1
    <3>3. PICK o \in Points :
              p[1] = o[1] /\ \A t \in AnnouncedTables : p[2][t] = o[2][t]
      BY <3>2
    <3>4. PICK n \in Points :
              q[1] = n[1] /\ \A t \in AnnouncedTables : q[2][t] = n[2][t]
      BY <3>2
    <3>5. InOrder(o, n)
      BY <2>4 DEF Ordered
    <3> QED
      BY <3>3, <3>4, <3>5 DEF InOrder
  <2>5. \/ counter' = counter + 1
        \/ counter' = counter /\ \A t \in AnnouncedTables : db'[t] = db[t]
    BY <1>1, <1>2, WriterGrows
  <2>6. ASSUME snapshots
        PROVE  \A p, q \in Points' : InOrder(p, q)'
    BY <2>3, <2>4, <2>5, <2>6
  <2> QED
    BY <2>1, <2>6 DEF Ordered
<1>3. /\ <<counter, db>> \in Points /\ <<0, Empty>> \in Points
      /\ \A s \in Servers : <<checkpoint[s], view[s]>> \in Points
      /\ \A s \in Servers, th \in Threads :
            <<thread[s][th].seenCounter, thread[s][th].seen>> \in Points
  BY DEF Points
<1>4. ASSUME NEW s \in Servers, NEW th \in Threads, NEW v \in Thread,
             ThreadStep(s, th, v), <<v.seenCounter, v.seen>> \in Points,
             snapshots /\ v.pc = "loading" =>
                 \A t \in v.loaded : v.copy[t] = v.seen[t]
      PROVE  Ordered'
  <2>1. ASSUME NEW r \in Servers, NEW q \in Threads
        PROVE  thread'[r][q] = v \/ thread'[r][q] = thread[r][q]
    BY <1>1, <1>4, SetThread DEF ThreadStep
  <2>2. UNCHANGED <<db, counter, view, checkpoint, snapshots>>
    BY <1>4 DEF ThreadStep
  <2>3. Points' \subseteq Points
    BY <1>3, <1>4, <2>1, <2>2 DEF Points, Empty
  <2> QED
    BY <1>4, <2>1, <2>2, <2>3, OldPoints DEF Ordered
<1>5. /\ IdleThread.pc = "idle" /\ IdleThread.seenCounter = 0
      /\ IdleThread.seen = Empty
  BY DEF IdleThread
<1>6. /\ Opened.pc = "open" /\ Opened.seenCounter = counter /\ Opened.seen = db
  BY DEF Opened, IdleThread
<1>7. ASSUME NEW s \in Servers, NEW th \in Threads, NEW v \in Thread,
             ThreadStep(s, th, v),
             \/ v \in {IdleThread, Opened}
             \/ Started(v, thread[s][th])
             \/ \E t \in Tables : Loaded(v, thread[s][th], t)
      PROVE  Ordered'
  <2>1. CASE v \in {IdleThread, Opened}
    BY <1>3, <1>4, <1>5, <1>6, <1>7, <2>1
  <2>2. CASE Started(v, thread[s][th])
    BY <1>3, <1>4, <1>7, <2>2 DEF Started
  <2>3. ASSUME NEW t \in Tables, Loaded(v, thread[s][th], t)
        PROVE  Ordered'
    <3>1. thread[s][th].loaded \subseteq Tables
      BY <1>1, ThreadTypes
    <3>2. ASSUME snapshots, NEW r \in v.loaded
          PROVE  v.copy[r] = v.seen[r]
      BY <2>3, <3>1, <3>2 DEF Loaded, Ordered
    <3> QED
      BY <1>3, <1>4, <1>7, <2>3, <3>2 DEF Loaded
  <2> QED
    BY <1>7, <2>1, <2>2, <2>3
<1>8. ASSUME NEW s \in Servers, NEW th \in Threads, Publish(s, th)
      PROVE  Ordered'
  <2> DEFINE u == thread[s][th]
  <2>1. /\ u \in Thread /\ u.pc = "loading" /\ u.loaded = Tables
        /\ view' = [view EXCEPT ![s] = u.copy]
        /\ checkpoint' = [checkpoint EXCEPT ![s] = u.cp]
        /\ Set(s, th, IdleThread) /\ UNCHANGED <<db, counter, snapshots>>
    BY <1>8, PublishStep
  <2>2. ASSUME snapshots
        PROVE  u.copy = u.seen /\ u.cp = u.seenCounter
    <3>1. \A t \in Tables : u.copy[t] = u.seen[t]
      BY <2>1, <2>2 DEF Ordered
    <3>2. u.copy \in Database /\ u.seen \in Database
      BY <1>1, ThreadTypes
    <3>3. u.copy = u.seen
      BY <3>1, <3>2 DEF Database
    <3>4. u.cp = u.seenCounter
      BY <2>1, <2>2 DEF IInv, ThreadsFaithful, Faithful
    <3> QED
      BY <3>3, <3>4
  <2>3. ASSUME NEW r \in Servers, NEW q \in Threads
        PROVE  thread'[r][q] = IdleThread \/ thread'[r][q] = thread[r][q]
    BY <1>1, <2>1, RestingThreads, SetThread
  <2>4. ASSUME NEW r \in Servers
        PROVE  \/ view'[r] = u.copy /\ checkpoint'[r] = u.cp
               \/ view'[r] = view[r] /\ checkpoint'[r] = checkpoint[r]
    BY <1>1, <2>1 DEF TypeOK
  <2> HIDE DEF u
  <2>5. ASSUME snapshots
        PROVE  Points' \subseteq Points
    <3>1. <<u.cp, u.copy>> \in Points
      BY <1>3, <2>2, <2>5 DEF u
    <3> QED
      BY <1>3, <1>5, <2>1, <2>3, <2>4, <3>1 DEF Points, Empty
  <2> QED
    BY <1>5, <2>1, <2>3, <2>5, OldPoints DEF Ordered
<1>9. ASSUME NEW s \in Servers, Restart(s)
      PROVE  Ordered'
  <2>1. /\ UNCHANGED <<db, counter, snapshots>>
        /\ \A r \in Servers :
              /\ view'[r] = IF r = s THEN Empty ELSE view[r]
              /\ checkpoint'[r] = IF r = s THEN 0 ELSE checkpoint[r]
        /\ \A r \in Servers, q \in Threads :
              thread'[r][q] = IF r = s THEN IdleThread ELSE thread[r][q]
    BY <1>1, <1>9 DEF Restart, TypeOK
  <2>2. Points' \subseteq Points
    BY <1>3, <1>5, <2>1 DEF Points, Empty
  <2> QED
    BY <1>5, <2>1, <2>2, OldPoints DEF Ordered
<1>10. CASE UNCHANGED vars
  <2>1. UNCHANGED <<db, counter, view, checkpoint, thread, snapshots>>
    BY <1>10 DEF vars, cache
  <2>2. Points' = Points
    BY <2>1 DEF Points, Empty
  <2> QED
    BY <2>1, <2>2 DEF Ordered, InOrder
<1> QED
  BY <1>2, <1>7, <1>8, <1>9, <1>10, ServerSteps DEF Next

LEMMA OrderedInit == Init => Ordered
<1> SUFFICES ASSUME Init PROVE Ordered
  OBVIOUS
<1>1. \A s \in Servers, th \in Threads :
          /\ thread[s][th].pc = "idle" /\ thread[s][th].seenCounter = 0
          /\ thread[s][th].seen = Empty
  BY DEF Init, IdleThread
<1>2. \A p \in Points : p = <<0, Empty>>
  BY <1>1 DEF Init, Points
<1>3. \A t \in Tables : Empty[t] <= Empty[t]
  BY DEF Empty
<1> QED
  BY <1>1, <1>2, <1>3 DEF Ordered, InOrder, AnnouncedTables

\* Where sessions read from snapshots, a client that accepts no checkpoint lower
\* than the last it saw never goes back in time, whichever servers it talks to,
\* as far as the tables that change together with the counter are concerned.
THEOREM CheckpointsOrder == Spec => []CheckpointOrdersAnnounced
<1>1. Spec => []Ordered
  BY BehindAlways, OrderedInit, OrderedNext, PTL DEF Spec
<1>2. Ordered => CheckpointOrdersAnnounced
  <2> SUFFICES ASSUME Ordered, snapshots, NEW a \in Servers, NEW b \in Servers,
                      checkpoint[a] <= checkpoint[b], NEW t \in AnnouncedTables
               PROVE  view[a][t] <= view[b][t]
    BY DEF CheckpointOrdersAnnounced
  <2> DEFINE p == <<checkpoint[a], view[a]>>
             q == <<checkpoint[b], view[b]>>
  <2>1. p \in Points /\ q \in Points
    BY DEF Points
  <2>2. p[1] <= q[1] => p[2][t] <= q[2][t]
    BY <2>1 DEF Ordered, InOrder
  <2> QED
    BY <2>2
<1> QED
  BY <1>1, <1>2, PTL
=============================================================================
