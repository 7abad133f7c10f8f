----------------------------- MODULE ProposeRace -----------------------------
(***************************************************************************)
(* The unsynchronised commitAndBroadcast of an authority table             *)
(* (src/internal/table/util.go): the REPL goroutine runs it from           *)
(* ProposeLocal while the table goroutine runs it from onNet for a         *)
(* PROPOSE.  Nothing orders the two, so the steps of each interleave:      *)
(* t.seq++ is a load and a store, apply changes the engine, and the COMMIT *)
(* reads t.seq again when it is built.  A data race has no defined result  *)
(* in Go; the interleavings below are the outcomes a build produces when   *)
(* each load sees the latest store.                                        *)
(*                                                                         *)
(* The engine is the sequence of actions applied to it (as in              *)
(* TableReplica), apply is one step, and the auto commits of apply are     *)
(* left out.  t.log is write-only and is left out.  The action ids are     *)
(* distinct, so the dedup check always passes and dedup is left out.       *)
(***************************************************************************)
EXTENDS Naturals, Sequences, FiniteSets

CONSTANTS
  Goroutine,   \* the goroutines calling commitAndBroadcast
  ActionOf     \* ActionOf[g]: the action id goroutine g commits

ASSUME ActionOf \in [Goroutine -> Nat]

VARIABLES
  seq,       \* t.seq
  applied,   \* the actions t.eng has applied, in order
  sent,      \* COMMIT messages put on the outbox: [seq, id]
  pc,        \* per goroutine: the next step of commitAndBroadcast
  loaded     \* per goroutine: the value t.seq++ loaded

vars == <<seq, applied, sent, pc, loaded>>

Steps == {"load", "store", "apply", "send", "done"}

Goto(g, next) == pc' = [pc EXCEPT ![g] = next]

(* t.seq++, the load. *)
LoadSeq(g) ==
  /\ pc[g] = "load"
  /\ loaded' = [loaded EXCEPT ![g] = seq]
  /\ Goto(g, "store")
  /\ UNCHANGED <<seq, applied, sent>>

(* t.seq++, the store of the loaded value plus one. *)
StoreSeq(g) ==
  /\ pc[g] = "store"
  /\ seq' = loaded[g] + 1
  /\ Goto(g, "apply")
  /\ UNCHANGED <<applied, sent, loaded>>

(* t.apply(a) *)
Apply(g) ==
  /\ pc[g] = "apply"
  /\ applied' = Append(applied, ActionOf[g])
  /\ Goto(g, "send")
  /\ UNCHANGED <<seq, sent, loaded>>

(* netOut <- COMMIT{Seq: t.seq, Action: a}: t.seq is read here. *)
Send(g) ==
  /\ pc[g] = "send"
  /\ sent' = sent \cup {[seq |-> seq, id |-> ActionOf[g]]}
  /\ Goto(g, "done")
  /\ UNCHANGED <<seq, applied, loaded>>

Init ==
  /\ seq = 1                \* CREATE_TABLE is committed
  /\ applied = <<0>>        \* its id
  /\ sent = {}
  /\ pc = [g \in Goroutine |-> "load"]
  /\ loaded = [g \in Goroutine |-> 0]

Next == \E g \in Goroutine : LoadSeq(g) \/ StoreSeq(g) \/ Apply(g) \/ Send(g)

Spec == Init /\ [][Next]_vars

-----------------------------------------------------------------------------
(* Spec 3 and 5 ("each table's engine state is owned exclusively by that  *)
(* table's loop"; seq is contiguous): every COMMIT the authority sends     *)
(* carries the position at which its own engine applied that action, so  *)
(* a follower applying commits in seq order replays the same history.    *)
CommitsNumbered ==
  \A m \in sent : m.seq \in 1..Len(applied) /\ applied[m.seq] = m.id
=============================================================================
