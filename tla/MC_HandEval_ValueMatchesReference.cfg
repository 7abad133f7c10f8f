\* Six ranks (the wheel, a six-high straight above it, and enough ranks
\* for every category) in all four suits: 24 cards.
CONSTANTS
  Ranks = {2, 3, 4, 5, 6, 14}
  Suits = {0, 1, 2, 3}
SPECIFICATION Spec
\* The deal stops after the river: the evaluator runs on a complete board.
CHECK_DEADLOCK FALSE
INVARIANTS
  ValueMatchesReference
