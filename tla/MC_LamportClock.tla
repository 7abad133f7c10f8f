--------------------------- MODULE MC_LamportClock ---------------------------
EXTENDS LamportClock, TLC

CONSTANTS g1, g2, g3

\* Three goroutines sharing one clock (two table loops and the REPL).
MCCaller == {g1, g2, g3}

=============================================================================
