\* One authority and one follower, no takeover: TableReplica implements AbstractLog, liveness included.
CONSTANTS
  Node <- MCNode2
  None <- MCNone
  InitAuthority <- MCInitAuthority
  MaxActions = 4
  MaxHeartbeats = 1
  MaxTakeovers = 0
  MaxCrashes = 0
SPECIFICATION Spec
INVARIANT TypeOK
PROPERTY LiveRefinement
CHECK_DEADLOCK FALSE
