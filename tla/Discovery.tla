------------------------------ MODULE Discovery ------------------------------
(***************************************************************************)
(* A node discovering a table and attaching to it as follower              *)
(* (src/internal/cluster/manager.go: DiscoverAndAttach, dispatcher,        *)
(* maybeDeliverDiscovery, AttachFollowerTable), against the table's        *)
(* authority, which keeps committing actions of other players.             *)
(*                                                                         *)
(* Three goroutines of the discovering node take part: the REPL, which     *)
(* runs DiscoverAndAttach; the dispatcher, which routes inbound messages   *)
(* to the table once it is registered and otherwise hands snapshots to     *)
(* the waiter; and, once attached, the table loop (its onNet is folded     *)
(* into the routing step: the inbox is FIFO).  The waiter's channel has    *)
(* buffer 1 and is fresh for every attempt; the dispatcher looks it up     *)
(* under pendMu and sends to it after unlocking.  The 3-second timer is a  *)
(* nondeterministic race with the snapshot.  Sequence numbers stand for   *)
(* the authority's state; the engine is left out.                          *)
(***************************************************************************)
EXTENDS Naturals, Sequences

CONSTANTS
  MaxAttempts,   \* discover commands the user types (bound)
  MaxPlays,      \* actions other players commit at the authority (bound)
  NoChan         \* "no channel"

VARIABLES
  aSeq,      \* the authority's t.seq
  toD,       \* stream authority -> discovering node: COMMIT / SNAPSHOT
  toA,       \* stream discovering node -> authority: STATE_QUERY / PROPOSE
  pending,   \* pendingSS[table]: the waiting attempt's channel, or NoChan
  buf,       \* buf[k]: the snapshot seq in channel k's buffer, or NoChan
  held,      \* the channel the dispatcher looked up and is about to send to
  heldSS,    \* the snapshot seq it is about to send
  repl,      \* the REPL: "idle", "wait", "attach", "join", "done"
  attempts,  \* discover attempts so far; attempt k owns channel k
  taken,     \* the snapshot seq the REPL took from its channel
  attached,  \* the table is registered (AttachFollowerTable ran)
  dSeq,      \* the attached table's t.seq
  plays      \* actions of other players committed (bound)

vars == <<aSeq, toD, toA, pending, buf, held, heldSS, repl, attempts, taken,
          attached, dSeq, plays>>

Chans == 1..MaxAttempts

-----------------------------------------------------------------------------
(* Authority *)

(* Another player's action is committed and broadcast. *)
Play ==
  /\ plays < MaxPlays
  /\ plays' = plays + 1
  /\ aSeq' = aSeq + 1
  /\ toD' = Append(toD, [type |-> "COMMIT", seq |-> aSeq + 1])
  /\ UNCHANGED <<toA, pending, buf, held, heldSS, repl, attempts, taken, attached, dSeq>>

(* onNet on the authority: a STATE_QUERY is answered with a snapshot; a   *)
(* PROPOSE is committed.                                                  *)
AuthorityReceive ==
  /\ toA # <<>>
  /\ toA' = Tail(toA)
  /\ IF Head(toA).type = "STATE_QUERY"
       THEN /\ toD' = Append(toD, [type |-> "SNAPSHOT", seq |-> aSeq])
            /\ UNCHANGED aSeq
       ELSE /\ aSeq' = aSeq + 1
            /\ toD' = Append(toD, [type |-> "COMMIT", seq |-> aSeq + 1])
  /\ UNCHANGED <<pending, buf, held, heldSS, repl, attempts, taken, attached, dSeq, plays>>

-----------------------------------------------------------------------------
(* Dispatcher of the discovering node *)

(* Route(msg): to the registered table, whose onNet applies a COMMIT at   *)
(* seq+1 (another seq sends a STATE_QUERY) and installs a SNAPSHOT.       *)
(* Unregistered: maybeDeliverDiscovery looks the waiter up under pendMu   *)
(* (a non-snapshot is dropped).                                            *)
Dispatch ==
  /\ held = NoChan
  /\ toD # <<>>
  /\ toD' = Tail(toD)
  /\ LET m == Head(toD) IN
     IF attached
       THEN IF m.type = "SNAPSHOT" \/ m.seq = dSeq + 1
              THEN /\ dSeq' = m.seq
                   /\ UNCHANGED <<toA, held, heldSS>>
              ELSE /\ toA' = Append(toA, [type |-> "STATE_QUERY"])
                   /\ UNCHANGED <<dSeq, held, heldSS>>
       ELSE /\ IF m.type = "SNAPSHOT" /\ pending # NoChan
                 THEN held' = pending /\ heldSS' = m.seq
                 ELSE UNCHANGED <<held, heldSS>>
            /\ UNCHANGED <<toA, dSeq>>
  /\ UNCHANGED <<aSeq, pending, buf, repl, attempts, taken, attached, plays>>

(* maybeDeliverDiscovery, after pendMu.Unlock: a non-blocking send to the *)
(* channel it looked up (dropped if the buffer is full).                  *)
Deliver ==
  /\ held # NoChan
  /\ buf' = IF buf[held] = NoChan THEN [buf EXCEPT ![held] = heldSS] ELSE buf
  /\ held' = NoChan
  /\ UNCHANGED <<aSeq, toD, toA, pending, heldSS, repl, attempts, taken, attached, dSeq, plays>>

-----------------------------------------------------------------------------
(* REPL: DiscoverAndAttach *)

(* Register the waiter (a fresh channel) and broadcast a STATE_QUERY.     *)
(* The "already in progress" and "table exists" errors need a second      *)
(* caller or an attached table, which the REPL does not produce here.    *)
Discover ==
  /\ repl = "idle"
  /\ attempts < MaxAttempts
  /\ attempts' = attempts + 1
  /\ pending' = attempts + 1
  /\ toA' = Append(toA, [type |-> "STATE_QUERY"])
  /\ repl' = "wait"
  /\ UNCHANGED <<aSeq, toD, buf, held, heldSS, taken, attached, dSeq, plays>>

(* case ss := <-ch: take the snapshot, delete the waiter. *)
TakeSnapshot ==
  /\ repl = "wait"
  /\ buf[attempts] # NoChan
  /\ taken' = buf[attempts]
  /\ buf' = [buf EXCEPT ![attempts] = NoChan]
  /\ pending' = NoChan
  /\ repl' = "attach"
  /\ UNCHANGED <<aSeq, toD, toA, held, heldSS, attempts, attached, dSeq, plays>>

(* case <-time.After(3s): delete the waiter and fail. *)
Timeout ==
  /\ repl = "wait"
  /\ pending' = NoChan
  /\ repl' = "idle"
  /\ UNCHANGED <<aSeq, toD, toA, buf, held, heldSS, attempts, taken, attached, dSeq, plays>>

(* AttachFollowerTable(tableID, ss.Cfg, ss.Epoch): a new follower at seq  *)
(* 0 with an empty engine; the snapshot's seq and engine are not used.    *)
Attach ==
  /\ repl = "attach"
  /\ attached' = TRUE
  /\ dSeq' = 0
  /\ repl' = "join"
  /\ UNCHANGED <<aSeq, toD, toA, pending, buf, held, heldSS, attempts, taken, plays>>

(* Mutant: DiscoverAndAttach returns without proposing the JOIN. *)
ProposeJoinMissing ==
  /\ repl = "join"
  /\ repl' = "done"
  /\ UNCHANGED <<aSeq, toD, toA, pending, buf, held, heldSS, attempts, taken, attached, dSeq, plays>>

(* t.ProposeLocal(JOIN) on the new follower: a PROPOSE to the authority. *)
ProposeJoin ==
  /\ repl = "join"
  /\ toA' = Append(toA, [type |-> "PROPOSE"])
  /\ repl' = "done"
  /\ UNCHANGED <<aSeq, toD, pending, buf, held, heldSS, attempts, taken, attached, dSeq, plays>>

-----------------------------------------------------------------------------
(* The table has been created and its CREATE_TABLE committed (seq 1).     *)
Init ==
  /\ aSeq = 1
  /\ toD = <<>>
  /\ toA = <<>>
  /\ pending = NoChan
  /\ buf = [k \in Chans |-> NoChan]
  /\ held = NoChan
  /\ heldSS = 0
  /\ repl = "idle"
  /\ attempts = 0
  /\ taken = 0
  /\ attached = FALSE
  /\ dSeq = 0
  /\ plays = 0

Next ==
  \/ Play \/ AuthorityReceive
  \/ Dispatch \/ Deliver
  \/ Discover \/ TakeSnapshot \/ Timeout \/ Attach \/ ProposeJoin

(* Every loop keeps running and TCP delivers; the REPL's select returns   *)
(* (snapshot or timer); the user need not discover again.                 *)
Fairness ==
  /\ WF_vars(AuthorityReceive) /\ WF_vars(Dispatch) /\ WF_vars(Deliver)
  /\ WF_vars(TakeSnapshot \/ Timeout) /\ WF_vars(Attach) /\ WF_vars(ProposeJoin)

Spec == Init /\ [][Next]_vars /\ Fairness

-----------------------------------------------------------------------------
(* Once discovery has attached the table, the new follower eventually     *)
(* holds the authority's seq: the commits the dispatcher dropped while    *)
(* the table was not yet registered, and the seq-0 start, are repaired    *)
(* by the gap that the JOIN's commit opens and the snapshot it fetches.  *)
AttachedCatchesUp == <>[](attached => dSeq = aSeq)
=============================================================================
