\* Discovery of a table by one node while the authority keeps committing:
\* two discover attempts (a timeout, then a retry), three other commits.
CONSTANTS
  MaxAttempts = 2
  MaxPlays = 3
  NoChan = NoChan
SPECIFICATION Spec
PROPERTY AttachedCatchesUp
CHECK_DEADLOCK FALSE
