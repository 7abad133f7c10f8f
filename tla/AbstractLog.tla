----------------------------- MODULE AbstractLog -----------------------------
(***************************************************************************)
(* What a table promises its replicas about log positions (spec sections  *)
(* 3 and 4.4): the authority commits a growing prefix of one log, and     *)
(* every replica knows a prefix of it (its seq) that never shrinks and    *)
(* keeps growing towards the whole log.  Only lengths are kept: what the  *)
(* replication layer carries for a position is its number, and the engine *)
(* state behind it is the subject of ReplicatedTable.  TableReplica (with  *)
(* a fixed authority) implements this; see LiveRefinement there.          *)
(***************************************************************************)
EXTENDS Naturals

CONSTANTS
  Reader,   \* the replicas
  Writer,   \* the authority, one of the replicas
  Boot      \* the length of the log as the table is created

ASSUME Writer \in Reader /\ Boot \in Nat

VARIABLES
  committed,  \* the length of the committed log
  known       \* known[r]: the length of the prefix replica r holds

vars == <<committed, known>>

Init ==
  /\ committed = Boot
  /\ known = [r \in Reader |-> IF r = Writer THEN Boot ELSE 0]

(* The writer commits a non-empty batch (an action and the auto actions   *)
(* it triggers) and holds it at once.                                     *)
Commit ==
  /\ committed' > committed
  /\ known' = [known EXCEPT ![Writer] = committed']

(* A replica catches up to a longer prefix of the log. *)
Learn(r) ==
  /\ r # Writer
  /\ \E k \in known[r] + 1 .. committed : known' = [known EXCEPT ![r] = k]
  /\ UNCHANGED committed

Next == Commit \/ \E r \in Reader : Learn(r)

SafeSpec == Init /\ [][Next]_vars

(* A replica that is behind keeps catching up. *)
Spec == SafeSpec /\ \A r \in Reader : WF_vars(Learn(r))
=============================================================================
