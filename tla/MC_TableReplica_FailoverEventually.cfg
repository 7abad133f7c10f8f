\* Scenario 4 of the spec: creator 1 is authority, node 2 follows; node 1
\* crashes.  TLC is expected to find FailoverEventually violated.
CONSTANTS
  Node <- MCNode2
  None <- MCNone
  InitAuthority = 1
  MaxActions = 2
  MaxHeartbeats = 1
  MaxTakeovers = 0
  MaxCrashes = 1
SPECIFICATION Spec
PROPERTY FailoverEventually
CHECK_DEADLOCK FALSE
