\* ProposeLocal on the REPL goroutine races onNet's commit of a PROPOSE;
\* TLC is expected to find CommitsNumbered violated.
CONSTANTS
  Goroutine <- MCGoroutine
  ActionOf <- MCActionOf
SPECIFICATION Spec
INVARIANT CommitsNumbered
CHECK_DEADLOCK FALSE
