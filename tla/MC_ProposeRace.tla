---------------------------- MODULE MC_ProposeRace ----------------------------
EXTENDS ProposeRace

\* The REPL goroutine commits action 1 (ProposeLocal); the table goroutine
\* commits action 2 (a PROPOSE from a follower).
MCGoroutine == {"repl", "loop"}
MCActionOf == [g \in MCGoroutine |-> IF g = "repl" THEN 1 ELSE 2]
=============================================================================
