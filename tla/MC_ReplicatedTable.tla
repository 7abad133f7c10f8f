-------------------------- MODULE MC_ReplicatedTable --------------------------
EXTENDS ReplicatedTable

\* Node ids and player ids.
MCAuth == 10
MCFollower == {11}
MCPlayer == {1, 2}
=============================================================================
