\* Authority and one follower, heads-up; TLC is expected to find ReplicasAgree
\* violated after the first round close.
CONSTANTS
  Auth <- MCAuth
  Follower <- MCFollower
  Player <- MCPlayer
  SmallBlind = 1
  BigBlind = 2
  MinBuyin = 5
  Amounts = {4}
  Strong = {1}
  MaxCmds = 4
SPECIFICATION Spec
INVARIANT ReplicasAgree
CHECK_DEADLOCK FALSE
