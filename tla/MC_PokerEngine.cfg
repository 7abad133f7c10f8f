\* Heads-up, blinds 1/2, buy-in 6, one hand, bets and raises to 3, 4 or 5,
\* and one re-join.  Preflop a raise to 4 is a full raise of exactly
\* LastRaiseSize, to 3 is one chip short, to 5 moves LastRaiseSize to 3; a
\* bet of 5 is more than a blind-poster has left (short calls and all-ins).
CONSTANTS
  Player <- MCPlayer2
  SmallBlind = 1
  BigBlind = 2
  MinBuyin = 6
  Amounts = {3, 4, 5}
  MaxJoins = 3
  MaxHands = 1
  MinActorsToAct <- MCMinActorsToAct
SPECIFICATION Spec
INVARIANT TypeOK
INVARIANT TurnIdxInRange
INVARIANT BetBar
PROPERTY MinRaiseHolds
CHECK_DEADLOCK FALSE
