\* Creator 2 and follower 1, which may take over once early and again after
\* a crash of the authority: epochs never go back and failover happens.
CONSTANTS
  Node <- MCNode2
  None <- MCNone
  InitAuthority <- MCInitAuthority
  MaxActions = 4
  MaxHeartbeats = 1
  MaxTakeovers = 1
  MaxCrashes = 1
SPECIFICATION Spec
PROPERTY EpochNeverDecreases FailoverEventually
CHECK_DEADLOCK FALSE
