\* Heads-up bounds; expected to find NoPanic violated.
CONSTANTS
  Player <- MCPlayer2
  SmallBlind = 1
  BigBlind = 2
  MinBuyin = 3
  Amounts = {2, 3}
  MaxJoins = 3
  MaxHands = 2
  MinActorsToAct <- MCMinActorsToAct
SPECIFICATION Spec
INVARIANT NoPanic
CHECK_DEADLOCK FALSE
