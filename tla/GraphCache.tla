----------------------------- MODULE GraphCache -----------------------------
(***************************************************************************)
(* The permission graph that every server process keeps in memory, the     *)
(* "updates" counter by which it learns that the database changed, and the *)
(* processes that change the database.  GroupGraph.update_from_db reads    *)
(* the counter, then each table, then publishes, one thread of a process   *)
(* at a time; the writers commit in between.  A table is a version number. *)
(***************************************************************************)
EXTENDS Integers

CONSTANTS
    Servers,        \* server processes, each with a graph of its own
    Updaters,       \* the threads of each server that update its graph
    Writers,        \* processes that change the database
    Tables,         \* what update_from_db reads after the counter
    LateTables,     \* changed by code that commits before the counter moves
    SilentTables,   \* changed with no move of the counter
    SnapshotModes,  \* whether a session may read from a snapshot
    MaxVersion,     \* bound: changes of one table
    MaxCrashes      \* bound: processes that die

Threads == {"main", "refresher"}

ASSUME GraphCacheAssumption ==
    /\ Updaters \in [Servers -> SUBSET Threads]
    /\ LateTables \subseteq Tables /\ SilentTables \subseteq Tables
    /\ SnapshotModes \subseteq BOOLEAN
    /\ MaxVersion \in Nat /\ MaxCrashes \in Nat

VARIABLES
    db,           \* [Tables -> Nat], version of each table
    counter,      \* Counter "updates"
    owing,        \* writers that committed a change and not yet the counter
    unannounced,  \* history: tables changed since the counter last moved
    view,         \* [Servers -> [Tables -> Nat]], the published graph
    checkpoint,   \* [Servers -> Nat], GroupGraph.checkpoint
    lock,         \* [Servers -> Threads \union {"none"}], _update_lock
    thread,       \* [Servers -> [Threads -> Thread]]
    snapshots,    \* whether sessions read from a snapshot; never changes
    crashes       \* how many processes have died

cache == <<view, checkpoint, lock, thread>>
vars == <<db, counter, owing, unannounced, cache, snapshots, crashes>>

Database == [Tables -> Nat]
\* seen and seenCounter: the snapshot of an open session; cp, copy and loaded:
\* the locals of update_from_db.
Thread == [pc : {"idle", "open", "loading"}, seen : Database,
           seenCounter : Nat, cp : Nat, copy : Database,
           loaded : SUBSET Tables]

TypeOK ==
    /\ db \in Database
    /\ counter \in Nat
    /\ owing \subseteq Writers
    /\ unannounced \subseteq Tables
    /\ view \in [Servers -> Database]
    /\ checkpoint \in [Servers -> Nat]
    /\ lock \in [Servers -> Threads \union {"none"}]
    /\ thread \in [Servers -> [Threads -> Thread]]
    /\ snapshots \in BOOLEAN
    /\ crashes \in Nat

Empty == [t \in Tables |-> 0]

IdleThread == [pc |-> "idle", seen |-> Empty, seenCounter |-> 0, cp |-> 0,
               copy |-> Empty, loaded |-> {}]

Init ==
    /\ db = Empty
    /\ counter = 0
    /\ owing = {}
    /\ unannounced = {}
    /\ view = [s \in Servers |-> Empty]
    /\ checkpoint = [s \in Servers |-> 0]
    /\ lock = [s \in Servers |-> "none"]
    /\ thread = [s \in Servers |-> [th \in Threads |-> IdleThread]]
    /\ snapshots \in SnapshotModes
    /\ crashes = 0

-----------------------------------------------------------------------------
(* The writers.                                                            *)

Changed(T) == [t \in Tables |-> IF t \in T THEN db[t] + 1 ELSE db[t]]

Room(T) == \A t \in T : db[t] < MaxVersion

\* Mutant: the counter is decremented.
Decr == counter - 1

\* Counter.incr: the addition is done by the database.
Incr == counter + 1

Announce(T) ==
    /\ db' = Changed(T)
    /\ counter' = Incr
    /\ unannounced' = {}

\* One commit with the change and the counter: TransactionService.transaction,
\* Group.enable and disable, a membership change without a notice to adjust.
Update(w, t) ==
    /\ w \notin owing
    /\ Room({t})
    /\ Announce({t})
    /\ UNCHANGED <<owing, cache, snapshots, crashes>>

\* A commit that the counter has yet to follow: apply_changes when a notice is
\* cancelled or scheduled, disable_permission_auditing, ServiceAccount.disable.
CommitBeforeCounter(w, t) ==
    /\ w \notin owing
    /\ t \in LateTables
    /\ Room({t})
    /\ db' = Changed({t})
    /\ unannounced' = unannounced \union {t}
    /\ owing' = owing \union {w}
    /\ UNCHANGED <<counter, cache, snapshots, crashes>>

\* The commit that moves the counter, with what else was left to change.
CommitCounter(w, T) ==
    /\ w \in owing
    /\ Room(T)
    /\ Announce(T)
    /\ owing' = owing \ {w}
    /\ UNCHANGED <<cache, snapshots, crashes>>

\* The writer dies first: its change stays unannounced.
LoseCounter(w) ==
    /\ w \in owing
    /\ crashes < MaxCrashes
    /\ owing' = owing \ {w}
    /\ crashes' = crashes + 1
    /\ UNCHANGED <<db, counter, unannounced, cache, snapshots>>

\* PermissionsCreate.post, and an edge that reaches its expiration: what the
\* loader would read changes and the counter does not move.
ChangeSilently(t) ==
    /\ t \in SilentTables
    /\ Room({t})
    /\ db' = Changed({t})
    /\ unannounced' = unannounced \union {t}
    /\ UNCHANGED <<counter, owing, cache, snapshots, crashes>>

-----------------------------------------------------------------------------
(* A server.                                                               *)

Set(s, th, value) == thread' = [thread EXCEPT ![s][th] = value]

Loading(s, th) == thread[s][th].pc = "loading"

\* GrouperHandler.prepare: looking the user up opens the session's snapshot,
\* before the handler gets to its refresh.
OpenSession(s) ==
    /\ "main" \in Updaters[s]
    /\ thread[s]["main"].pc = "idle"
    /\ Set(s, "main", [IdleThread EXCEPT !.pc = "open", !.seen = db,
                                         !.seenCounter = counter])
    /\ UNCHANGED <<db, counter, owing, unannounced, view, checkpoint, lock,
                   snapshots, crashes>>

\* The request ends without a refresh.
CloseSession(s) ==
    /\ thread[s]["main"].pc = "open"
    /\ Set(s, "main", IdleThread)
    /\ UNCHANGED <<db, counter, owing, unannounced, view, checkpoint, lock,
                   snapshots, crashes>>

\* Mutant: two threads of a process may load at once.
LockIsFreeAlways(s) == TRUE

LockIsFree(s) == lock[s] = "none"

\* update_from_db takes _update_lock and reads the counter.  DbRefreshThread
\* has just opened its session, the main thread's may be older.
StartUpdate(s, th) ==
    /\ th \in Updaters[s]
    /\ thread[s][th].pc = IF th = "main" THEN "open" ELSE "idle"
    /\ LockIsFree(s)
    /\ lock' = [lock EXCEPT ![s] = th]
    /\ LET old == snapshots /\ th = "main"
           seen == IF old THEN thread[s][th].seen ELSE db
           cp == IF old THEN thread[s][th].seenCounter ELSE counter
       IN  Set(s, th, [pc |-> "loading", seen |-> seen, seenCounter |-> cp,
                       cp |-> cp, copy |-> Empty, loaded |-> {}])
    /\ UNCHANGED <<db, counter, owing, unannounced, view, checkpoint,
                   snapshots, crashes>>

\* Mutant: the early return keeps the lock.
KeepLock(s) == UNCHANGED lock

\* The end of "with self._update_lock".
Release(s) == lock' = [lock EXCEPT ![s] = "none"]

\* "Checkpoint hasn't changed. Not Updating."
SkipUpdate(s, th) ==
    /\ Loading(s, th)
    /\ thread[s][th].cp = checkpoint[s]
    /\ Release(s)
    /\ Set(s, th, IdleThread)
    /\ UNCHANGED <<db, counter, owing, unannounced, view, checkpoint,
                   snapshots, crashes>>

\* One of the queries; the code's order is one of those taken here.
LoadTable(s, th, t) ==
    /\ Loading(s, th)
    /\ thread[s][th].cp # checkpoint[s]
    /\ t \notin thread[s][th].loaded
    /\ LET version == IF snapshots THEN thread[s][th].seen[t] ELSE db[t]
       IN  Set(s, th, [thread[s][th] EXCEPT !.copy[t] = version,
                                            !.loaded = @ \union {t}])
    /\ UNCHANGED <<db, counter, owing, unannounced, view, checkpoint, lock,
                   snapshots, crashes>>

\* Mutant: the graph is published with the counter as it is by now.
CounterAtPublish(s, th) == counter

\* Mutant: the graph is published as soon as something has been loaded.
LoadedSomething(s, th) == thread[s][th].loaded # {}

LoadedAll(s, th) == thread[s][th].loaded = Tables

CounterAtStart(s, th) == thread[s][th].cp

\* The assignments under self.lock.
Publish(s, th) ==
    /\ Loading(s, th)
    /\ thread[s][th].cp # checkpoint[s]
    /\ LoadedAll(s, th)
    /\ view' = [view EXCEPT ![s] = thread[s][th].copy]
    /\ checkpoint' = [checkpoint EXCEPT ![s] = CounterAtStart(s, th)]
    /\ Release(s)
    /\ Set(s, th, IdleThread)
    /\ UNCHANGED <<db, counter, owing, unannounced, snapshots, crashes>>

\* The process dies and is started again with an empty graph.
Restart(s) ==
    /\ Updaters[s] # {}
    /\ crashes < MaxCrashes
    /\ crashes' = crashes + 1
    /\ view' = [view EXCEPT ![s] = Empty]
    /\ checkpoint' = [checkpoint EXCEPT ![s] = 0]
    /\ lock' = [lock EXCEPT ![s] = "none"]
    /\ thread' = [thread EXCEPT ![s] = [th \in Threads |-> IdleThread]]
    /\ UNCHANGED <<db, counter, owing, unannounced, snapshots>>

-----------------------------------------------------------------------------
UpdateStep(s, th) ==
    \/ StartUpdate(s, th)
    \/ SkipUpdate(s, th)
    \/ \E t \in Tables : LoadTable(s, th, t)
    \/ Publish(s, th)

Write ==
    \/ \E w \in Writers, t \in Tables : Update(w, t) \/ CommitBeforeCounter(w, t)
    \/ \E w \in Writers, T \in SUBSET Tables : CommitCounter(w, T)
    \/ \E w \in Writers : LoseCounter(w)
    \/ \E t \in SilentTables : ChangeSilently(t)

Next ==
    \/ Write
    \/ \E s \in Servers :
        \/ OpenSession(s) \/ CloseSession(s) \/ Restart(s)
        \/ \E th \in Threads : UpdateStep(s, th)

Spec == Init /\ [][Next]_vars

\* DbRefreshThread.run loops for ever; a thread inside update_from_db finishes
\* it.  Nothing makes a handler start one, or a writer write.
Fairness ==
    \A s \in Servers :
        /\ WF_vars(UpdateStep(s, "refresher"))
        /\ WF_vars(Loading(s, "main") /\ UpdateStep(s, "main"))

FairSpec == Spec /\ Fairness

-----------------------------------------------------------------------------
(* Properties.                                                             *)

\* A server whose checkpoint is the current counter answers from the current
\* tables, except for those changed without a move of the counter since.  It
\* is what "Checkpoint hasn't changed. Not Updating." relies on.
Fresh ==
    \A s \in Servers : checkpoint[s] = counter =>
        \A t \in Tables \ unannounced : view[s][t] = db[t]

\* Tables that every writer changes together with the counter.
AnnouncedTables == Tables \ (LateTables \union SilentTables)

\* A client that talks to several servers and only accepts a checkpoint no
\* lower than the last one it saw never goes back in time, provided that the
\* servers read from snapshots and the tables are announced ones.
CheckpointOrdersAnnounced ==
    snapshots => \A a, b \in Servers : checkpoint[a] <= checkpoint[b] =>
        \A t \in AnnouncedTables : view[a][t] <= view[b][t]

\* Where sessions always read what is committed, no update takes a server back
\* to an earlier checkpoint: the counter is read under the lock.
CheckpointNeverRecedes ==
    [][\A s \in Servers :
        \/ snapshots
        \/ checkpoint'[s] >= checkpoint[s]
        \/ Restart(s)]_vars

\* A server with a refresh thread ends up, once the writers have stopped, with
\* every announced change, whatever its handlers and crashes did.
Converges(s) == <>[](\A t \in Tables \ unannounced : view[s][t] = db[t])

RefreshedServersConverge ==
    \A s \in Servers : "refresher" \in Updaters[s] => Converges(s)

\* A change that no counter announces reaches the graph all the same, as an
\* edge that expires is said to leave it.
SilentChangesArrive ==
    \A s \in Servers : \A t \in SilentTables :
        (view[s][t] # db[t]) ~> (view[s][t] = db[t])

\* The servers implement the cached graph.
Cached == INSTANCE CachedGraph
    WITH Servers <- Servers, Tables <- Tables,
         db <- db, view <- view, snapshots <- snapshots
CachedGraphSpec == Cached!Spec
=============================================================================
