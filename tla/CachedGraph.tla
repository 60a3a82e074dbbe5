---------------------------- MODULE CachedGraph ----------------------------
(***************************************************************************)
(* What the in-memory permission graph promises the readers of a server:   *)
(* every table they see is one the database has held, and a refresh never  *)
(* takes them back in time, save where the database lets a session read    *)
(* from an old snapshot.  Tables are told apart by version only.           *)
(***************************************************************************)
EXTENDS Integers

CONSTANTS Servers, Tables

VARIABLES
    db,         \* [Tables -> Nat], the version of each table
    view,       \* [Servers -> [Tables -> Nat]], what each server answers from
    snapshots   \* whether a session reads from a snapshot

vars == <<db, view, snapshots>>

Empty == [t \in Tables |-> 0]

\* No table of a is ahead of the same table of b.
NoNewer(a, b) == \A t \in Tables : a[t] <= b[t]

Init ==
    /\ db = Empty
    /\ view = [s \in Servers |-> Empty]
    /\ snapshots \in BOOLEAN

Change ==
    /\ \E changed \in SUBSET Tables :
            db' = [t \in Tables |-> IF t \in changed THEN db[t] + 1 ELSE db[t]]
    /\ UNCHANGED <<view, snapshots>>

Refresh(s) ==
    /\ view' = [view EXCEPT ![s] = view'[s]]
    /\ NoNewer(view'[s], db)
    /\ snapshots \/ NoNewer(view[s], view'[s])
    /\ UNCHANGED <<db, snapshots>>

Restart(s) ==
    /\ view' = [view EXCEPT ![s] = Empty]
    /\ UNCHANGED <<db, snapshots>>

Next == Change \/ \E s \in Servers : Refresh(s) \/ Restart(s)

Spec == Init /\ [][Next]_vars
=============================================================================
