------------------------ MODULE MCGroupMembership ------------------------
(* Values of the constants for the runs of GroupMembership.               *)
EXTENDS GroupMembership, TLC

CONSTANTS u1, u2, g1, g2, p1, p2

\* Every group takes requests, and memberships last.
Ask == [g \in Groups |-> "canask"]
NoAutoExpire == [g \in Groups |-> 0]

\* The users play the same part.
UserSymmetry == Permutations(Users)
=============================================================================
