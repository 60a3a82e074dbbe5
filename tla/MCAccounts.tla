----------------------------- MODULE MCAccounts -----------------------------
(* Constants of the model-checked instances of Accounts.                   *)
EXTENDS Accounts

CONSTANTS alice, bob, robot, svc, robots, team, k1, n1

MCRoleGroup == [r \in RoleUsers |-> robots]
MCJoinable == {<<team, robot, "member">>}
MCRequests == {<<alice, team>>, <<bob, team>>}
MCRows == {<<"metadata", svc, k1>>}
MCTokens == {<<robot, n1>>}
=============================================================================
