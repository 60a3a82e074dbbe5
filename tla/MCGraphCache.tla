---------------------------- MODULE MCGraphCache ----------------------------
(* Values of the constants for the runs of GraphCache.                     *)
EXTENDS GraphCache

CONSTANTS fe, api, w1, w2

\* A front-end process updates its graph from handlers and the refresh thread,
\* a single API process from the refresh thread.
AsStarted == [s \in Servers |-> IF s = fe THEN {"main", "refresher"}
                                ELSE {"refresher"}]
=============================================================================
