\* Three goroutines, two calls each, 4-bit clock; received values stay below
\* 2^W - 1 so the word cannot wrap.
CONSTANTS
  g1 = g1
  g2 = g2
  g3 = g3
  Caller <- MCCaller
  W = 4
  Remote = {3}
  MaxCalls = 2
SPECIFICATION Spec
INVARIANT TicksOrdered
PROPERTY TickRemoteReturns
CHECK_DEADLOCK FALSE
