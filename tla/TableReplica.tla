------------------------------ MODULE TableReplica ------------------------------
(***************************************************************************)
(* The replication protocol of one poker table across a set of nodes:      *)
(* src/internal/table/util.go (Table, onNet, ProposeLocal,                 *)
(* commitAndBroadcast, applyCommit), snapshot.go (snapshot,                *)
(* installSnapshot, sendSnapshotTo), takeover.go and the auto commits of   *)
(* apply.go.                                                               *)
(*                                                                         *)
(* The engine is left out: no branch of the protocol reads it, and the    *)
(* engine snapshot and its restore are modelled in ReplicatedTable.  The   *)
(* write-only t.log is not represented: nothing reads it.  Whether apply   *)
(* closes the betting round, and so commits an ADVANCE_PHASE (and then a   *)
(* SHOWDOWN), is an engine predicate; here it is a nondeterministic chain  *)
(* of auto actions.  The network is the TCP transport: a FIFO stream per   *)
(* ordered pair of nodes, broadcast to every peer but not to oneself.      *)
(***************************************************************************)
EXTENDS Naturals, Sequences, FiniteSets, SequencesExt

CONSTANTS
  Node,           \* node ids; the code compares NodeID strings with <
  None,           \* the empty NodeID ""; sorts before every node id
  InitAuthority,  \* the node that created the table (CreateLocalAuthorityTable)
  MaxActions,     \* bound on the action ids RandActionID hands out
  MaxHeartbeats,  \* bound on heartbeats sent by authorities
  MaxTakeovers,   \* bound on takeovers while some authority is alive
  MaxCrashes      \* bound on node crashes (process exits)

ASSUME Node \subseteq Nat /\ None \in Nat /\ \A n \in Node : None < n
ASSUME InitAuthority \in Node
ASSUME MaxActions \in Nat /\ MaxHeartbeats \in Nat /\ MaxTakeovers \in Nat
ASSUME MaxCrashes \in Nat /\ MaxCrashes < Cardinality(Node)

VARIABLES
  authority,    \* authority[n]: t.authority
  epoch,        \* epoch[n]: t.epoch
  authorityID,  \* authorityID[n]: t.authorityID, None for ""
  seq,          \* seq[n]: t.seq, the last committed sequence number
  dedup,        \* dedup[n]: t.dedup, the action ids seen
  chan,         \* chan[f][t]: messages in flight on the stream from f to t
  nextId,       \* next fresh action id
  hbCount,      \* heartbeats sent so far (bound only)
  takeovers,    \* takeovers so far (bound only)
  crashed       \* crashed[n]: node n's process has exited

vars == <<authority, epoch, authorityID, seq, dedup, chan,
          nextId, hbCount, takeovers, crashed>>

ActionType == {"CREATE_TABLE", "PLAY", "KICK", "ADVANCE_PHASE", "SHOWDOWN"}
Action == [id : 1..MaxActions, type : ActionType]

(* The auto actions that apply(a) may commit on an authority: a round     *)
(* close after any action but ADVANCE_PHASE commits an ADVANCE_PHASE, and  *)
(* reaching showdown while applying it commits a SHOWDOWN.                 *)
AutoChains(type) ==
  CASE type = "ADVANCE_PHASE" -> {<<>>, <<"SHOWDOWN">>}
    [] type \in {"SHOWDOWN", "CREATE_TABLE"} -> {<<>>}
    [] OTHER -> {<<>>, <<"ADVANCE_PHASE">>, <<"ADVANCE_PHASE", "SHOWDOWN">>}

CommitMsg(n, s, a) ==
  [type |-> "COMMIT", from |-> n, epoch |-> epoch[n], seq |-> s, action |-> a]
(* sendSnapshotTo: the snapshot carries seq, epoch and authority; its     *)
(* engine payload is left out here.                                       *)
SnapshotMsg(n, e) ==
  [type |-> "SNAPSHOT", from |-> n, epoch |-> e,
   state |-> [seq |-> seq[n], authority |-> authorityID[n]]]
HeartbeatMsg(n, e) == [type |-> "HEARTBEAT", from |-> n, epoch |-> e]
StateQueryMsg(n) == [type |-> "STATE_QUERY", from |-> n, epoch |-> epoch[n]]
ProposeMsg(n, a) == [type |-> "PROPOSE", from |-> n, action |-> a]

(* TCP broadcast: append msgs to the stream from n to every other node; *)
(* the write to a crashed peer's closed connection fails and is dropped. *)
SendAll(c, n, msgs) ==
  [f \in Node |-> [t \in Node |->
     IF f = n /\ t # n /\ ~crashed[t] THEN c[f][t] \o msgs ELSE c[f][t]]]

(* The stream from f to n once its head has been taken. *)
Pop(f, n) == [chan EXCEPT ![f][n] = Tail(@)]

(* Mutant: the auto action ids start one past base. *)
ApplyAtIdOffByOne(n, a, s, chain, base, c0, own) ==
  LET k == Len(chain)
      autos == [i \in 1..k |-> [id |-> base + i, type |-> chain[i]]]
      nested == [i \in 1..k |-> CommitMsg(n, s + k, autos[k + 1 - i])]
  IN  /\ base + k <= MaxActions + 1
      /\ seq' = [seq EXCEPT ![n] = s + k]
      /\ dedup' = [dedup EXCEPT ![n] = @ \cup {a.id} \cup {autos[i].id : i \in 1..k}]
      /\ nextId' = base + k
      /\ chan' = SendAll(c0, n, nested \o (IF own THEN <<CommitMsg(n, s + k, a)>> ELSE <<>>))

(* apply(a) at node n whose seq has become s, followed by the chain of    *)
(* auto commits it triggers (auto action ids start at base).  Each nested *)
(* commitAndBroadcast bumps t.seq and sends its COMMIT after its own       *)
(* apply returns, reading t.seq then: innermost first, and every commit   *)
(* of the chain carries the last seq, s + k.  When `own`, a itself came   *)
(* through commitAndBroadcast, whose COMMIT is sent last, also with s + k. *)
ApplyAt(n, a, s, chain, base, c0, own) ==
  LET k == Len(chain)
      autos == [i \in 1..k |-> [id |-> base + i - 1, type |-> chain[i]]]
      nested == [i \in 1..k |-> CommitMsg(n, s + k, autos[k + 1 - i])]
  IN  /\ base + k <= MaxActions + 1
      /\ seq' = [seq EXCEPT ![n] = s + k]
      /\ dedup' = [dedup EXCEPT ![n] = @ \cup {a.id} \cup {autos[i].id : i \in 1..k}]
      /\ nextId' = base + k
      /\ chan' = SendAll(c0, n, nested \o (IF own THEN <<CommitMsg(n, s + k, a)>> ELSE <<>>))

Chains(n, a) == IF authority[n] THEN AutoChains(a.type) ELSE {<<>>}

(* commitAndBroadcast(a) on node n, with the stream state c0. *)
CommitAndBroadcast(n, a, base, c0) ==
  \/ /\ a.id \in dedup[n]
     /\ chan' = c0
     /\ nextId' = base
     /\ UNCHANGED <<seq, dedup>>
  \/ /\ a.id \notin dedup[n]
     /\ \E chain \in Chains(n, a) :
          ApplyAt(n, a, seq[n] + 1, chain, base, c0, TRUE)

-----------------------------------------------------------------------------
(* ProposeLocal, called from the REPL (main.go).  The kick command is only *)
(* proposed by a node whose snapshot names itself as authority.            *)
ProposeLocal(n) ==
  /\ ~crashed[n]
  /\ nextId <= MaxActions
  /\ \E type \in {"PLAY", "KICK", "ADVANCE_PHASE"} :
       LET a == [id |-> nextId, type |-> type] IN
       /\ type = "KICK" => authorityID[n] = n
       /\ IF authority[n]
            THEN CommitAndBroadcast(n, a, nextId + 1, chan)
            ELSE /\ chan' = SendAll(chan, n, <<ProposeMsg(n, a)>>)
                 /\ nextId' = nextId + 1
                 /\ UNCHANGED <<seq, dedup>>
  /\ UNCHANGED <<authority, epoch, authorityID, hbCount, takeovers, crashed>>

(* onNet, PROPOSE: only an authority commits; a kick only from authorityID. *)
HandlePropose(n, f) ==
  LET m == Head(chan[f][n]) IN
  /\ m.type = "PROPOSE"
  /\ IF ~authority[n] \/ (m.action.type = "KICK" /\ m.from # authorityID[n])
       THEN /\ chan' = Pop(f, n)
            /\ UNCHANGED <<seq, dedup, nextId>>
       ELSE CommitAndBroadcast(n, m.action, nextId, Pop(f, n))
  /\ UNCHANGED <<authority, epoch, authorityID, hbCount, takeovers>>

(* Mutant: the gap branch of applyCommit drops the commit without         *)
(* broadcasting a STATE_QUERY.                                            *)
ApplyCommitNoQuery(n, m) ==
  \/ /\ m.action.id \in dedup[n] \/ m.seq # seq[n] + 1
     /\ chan' = Pop(m.from, n)
     /\ UNCHANGED <<seq, dedup, nextId>>
  \/ /\ m.action.id \notin dedup[n]
     /\ m.seq = seq[n] + 1
     /\ \E chain \in Chains(n, m.action) :
          ApplyAt(n, m.action, m.seq, chain, nextId, Pop(m.from, n), FALSE)

(* applyCommit(m.action, m.seq) on n: a seen action id is dropped; any    *)
(* seq other than t.seq+1, older ones included, broadcasts a STATE_QUERY  *)
(* and drops the commit; otherwise the action is applied at m.seq.        *)
ApplyCommit(n, m) ==
  \/ /\ m.action.id \in dedup[n]
     /\ chan' = Pop(m.from, n)
     /\ UNCHANGED <<seq, dedup, nextId>>
  \/ /\ m.action.id \notin dedup[n]
     /\ m.seq # seq[n] + 1
     /\ chan' = SendAll(Pop(m.from, n), n, <<StateQueryMsg(n)>>)
     /\ UNCHANGED <<seq, dedup, nextId>>
  \/ /\ m.action.id \notin dedup[n]
     /\ m.seq = seq[n] + 1
     /\ \E chain \in Chains(n, m.action) :
          ApplyAt(n, m.action, m.seq, chain, nextId, Pop(m.from, n), FALSE)

(* onNet, COMMIT: epoch and kick guards, applyCommit, then adopt the      *)
(* sender as authority if its epoch is newer or none is known, whatever   *)
(* applyCommit did.                                                       *)
HandleCommit(n, f) ==
  LET m == Head(chan[f][n]) IN
  /\ m.type = "COMMIT"
  /\ IF m.epoch < epoch[n] \/ (m.action.type = "KICK" /\ m.from # authorityID[n])
       THEN /\ chan' = Pop(f, n)
            /\ UNCHANGED <<epoch, authorityID, seq, dedup, nextId>>
       ELSE /\ ApplyCommit(n, m)
            /\ IF m.epoch > epoch[n] \/ authorityID[n] = None
                 THEN /\ epoch' = [epoch EXCEPT ![n] = m.epoch]
                      /\ authorityID' = [authorityID EXCEPT ![n] = m.from]
                 ELSE UNCHANGED <<epoch, authorityID>>
  /\ UNCHANGED <<authority, hbCount, takeovers>>

(* installSnapshot: seq, epoch and authority id are replaced by the      *)
(* snapshot's (so is the engine, left out here); dedup and the authority  *)
(* flag are left alone.                                                   *)
InstallSnapshot(n, m) ==
  /\ seq' = [seq EXCEPT ![n] = m.state.seq]
  /\ epoch' = [epoch EXCEPT ![n] = m.epoch]
  /\ authorityID' = [authorityID EXCEPT ![n] = m.state.authority]

(* Mutant: the SNAPSHOT case without the epoch guard. *)
HandleSnapshotNoEpochGuard(n, f) ==
  LET m == Head(chan[f][n]) IN
  /\ m.type = "SNAPSHOT"
  /\ chan' = Pop(f, n)
  /\ InstallSnapshot(n, m)
  /\ UNCHANGED <<authority, dedup, nextId, hbCount, takeovers>>

(* onNet, SNAPSHOT: installSnapshot unless the epoch is older. *)
HandleSnapshot(n, f) ==
  LET m == Head(chan[f][n]) IN
  /\ m.type = "SNAPSHOT"
  /\ chan' = Pop(f, n)
  /\ IF m.epoch < epoch[n]
       THEN UNCHANGED <<epoch, authorityID, seq>>
       ELSE InstallSnapshot(n, m)
  /\ UNCHANGED <<authority, dedup, nextId, hbCount, takeovers>>

(* onNet, HEARTBEAT: adopt the epoch and the sender as authority. *)
HandleHeartbeat(n, f) ==
  LET m == Head(chan[f][n]) IN
  /\ m.type = "HEARTBEAT"
  /\ chan' = Pop(f, n)
  /\ IF m.epoch < epoch[n]
       THEN UNCHANGED <<epoch, authorityID>>
       ELSE /\ epoch' = [epoch EXCEPT ![n] = m.epoch]
            /\ authorityID' = [authorityID EXCEPT ![n] = m.from]
  /\ UNCHANGED <<authority, seq, dedup, nextId, hbCount, takeovers>>

(* onNet, STATE_QUERY: an authority broadcasts a snapshot. *)
HandleStateQuery(n, f) ==
  LET m == Head(chan[f][n]) IN
  /\ m.type = "STATE_QUERY"
  /\ chan' = IF authority[n] THEN SendAll(Pop(f, n), n, <<SnapshotMsg(n, epoch[n])>>)
                             ELSE Pop(f, n)
  /\ UNCHANGED <<authority, epoch, authorityID, seq, dedup, nextId,
                 hbCount, takeovers>>

Receive(n, f) ==
  /\ ~crashed[n]
  /\ chan[f][n] # <<>>
  /\ UNCHANGED crashed
  /\ \/ HandlePropose(n, f)
     \/ HandleCommit(n, f)
     \/ HandleSnapshot(n, f)
     \/ HandleHeartbeat(n, f)
     \/ HandleStateQuery(n, f)

(* Run: the authority's heartbeat ticker fires (sendHeartbeat). *)
Heartbeat(n) ==
  /\ ~crashed[n]
  /\ authority[n]
  /\ hbCount < MaxHeartbeats
  /\ hbCount' = hbCount + 1
  /\ chan' = SendAll(chan, n, <<HeartbeatMsg(n, epoch[n])>>)
  /\ UNCHANGED <<authority, epoch, authorityID, seq, dedup, nextId, takeovers, crashed>>

(* No node that believes it is authority is alive: nothing sends         *)
(* heartbeats or commits any more.                                        *)
NoLiveAuthority == \A m \in Node : authority[m] => crashed[m]

(* Mutant: isSmallestNodeID with the comparison reversed. *)
TakeoverLargerId(n) ==
  /\ ~crashed[n]
  /\ ~authority[n]
  /\ authorityID[n] = None \/ n > authorityID[n]
  /\ takeovers < MaxTakeovers \/ NoLiveAuthority
  /\ takeovers' = takeovers + 1
  /\ authority' = [authority EXCEPT ![n] = TRUE]
  /\ epoch' = [epoch EXCEPT ![n] = @ + 1]
  /\ authorityID' = [authorityID EXCEPT ![n] = n]
  /\ chan' = SendAll(chan, n, <<HeartbeatMsg(n, epoch[n] + 1),
                                [SnapshotMsg(n, epoch[n] + 1) EXCEPT
                                   !.state.authority = n]>>)
  /\ UNCHANGED <<seq, dedup, nextId, hbCount, crashed>>

(* Run: a follower's timer fires and tryAuthorityTakeover runs.  Message   *)
(* delays are unbounded, so the 3 s silence can precede any step; such     *)
(* early takeovers are bounded by MaxTakeovers.  Once no authority is      *)
(* alive the silence is real and the timer is not bounded.                 *)
Takeover(n) ==
  /\ ~crashed[n]
  /\ ~authority[n]
  /\ authorityID[n] = None \/ n < authorityID[n]
  /\ takeovers < MaxTakeovers \/ NoLiveAuthority
  /\ takeovers' = takeovers + 1
  /\ authority' = [authority EXCEPT ![n] = TRUE]
  /\ epoch' = [epoch EXCEPT ![n] = @ + 1]
  /\ authorityID' = [authorityID EXCEPT ![n] = n]
  /\ chan' = SendAll(chan, n, <<HeartbeatMsg(n, epoch[n] + 1),
                                [SnapshotMsg(n, epoch[n] + 1) EXCEPT
                                   !.state.authority = n]>>)
  /\ UNCHANGED <<seq, dedup, nextId, hbCount, crashed>>

(* The process of node n exits.  Its peers' readLoops take what reached   *)
(* them before the connection closed -- a prefix of each stream from n -- *)
(* and then end; what was on its way to n is lost.                        *)
Crash(n) ==
  /\ ~crashed[n]
  /\ Cardinality({m \in Node : crashed[m]}) < MaxCrashes
  /\ crashed' = [crashed EXCEPT ![n] = TRUE]
  /\ \E cut \in [Node -> 0..Max({Len(chan[n][t]) : t \in Node})] :
       /\ \A t \in Node : cut[t] <= Len(chan[n][t])
       /\ chan' = [f \in Node |-> [t \in Node |->
                   CASE t = n -> <<>>
                     [] f = n -> SubSeq(chan[f][t], 1, cut[t])
                     [] OTHER -> chan[f][t]]]
  /\ UNCHANGED <<authority, epoch, authorityID, seq, dedup, nextId,
                 hbCount, takeovers>>

-----------------------------------------------------------------------------
CreateAction == [id |-> 1, type |-> "CREATE_TABLE"]

(* The creator has committed CREATE_TABLE (CreateTable); every other node *)
(* has just attached as follower with JoinTableRemote (seq 0, no known    *)
(* authority) and broadcast its STATE_QUERY.                              *)
Init ==
  /\ authority = [n \in Node |-> n = InitAuthority]
  /\ epoch = [n \in Node |-> 0]
  /\ authorityID = [n \in Node |-> IF n = InitAuthority THEN n ELSE None]
  /\ seq = [n \in Node |-> IF n = InitAuthority THEN 1 ELSE 0]
  /\ dedup = [n \in Node |-> IF n = InitAuthority THEN {CreateAction.id} ELSE {}]
  /\ chan = [f \in Node |-> [t \in Node |->
              IF f # InitAuthority /\ t # f
                THEN <<[type |-> "STATE_QUERY", from |-> f, epoch |-> 0]>>
                ELSE <<>>]]
  /\ nextId = 2
  /\ hbCount = 0
  /\ takeovers = 0
  /\ crashed = [n \in Node |-> FALSE]

Next ==
  \/ \E n \in Node : ProposeLocal(n)
  \/ \E n, f \in Node : Receive(n, f)
  \/ \E n \in Node : Heartbeat(n)
  \/ \E n \in Node : Takeover(n)
  \/ \E n \in Node : Crash(n)

(* Each table loop keeps taking messages off its inbox, and TCP delivers *)
(* what is written on a live connection.  Once no authority is alive, no *)
(* heartbeat or commit resets a follower's lastHeartbeat, the messages   *)
(* that reset its 3 s select timer are finitely many, and the timer      *)
(* fires: tryAuthorityTakeover runs.                                     *)
Fairness ==
  /\ \A n, f \in Node : WF_vars(Receive(n, f))
  /\ \A n \in Node : WF_vars(NoLiveAuthority /\ Takeover(n))

Spec == Init /\ [][Next]_vars /\ Fairness

-----------------------------------------------------------------------------
TypeOK ==
  /\ authority \in [Node -> BOOLEAN]
  /\ epoch \in [Node -> Nat]
  /\ authorityID \in [Node -> Node \cup {None}]
  /\ seq \in [Node -> Nat]
  /\ dedup \in [Node -> SUBSET (1..MaxActions)]
  /\ \A f, t \in Node : \A i \in DOMAIN chan[f][t] :
       chan[f][t][i].type \in {"COMMIT", "PROPOSE"} => chan[f][t][i].action \in Action
  /\ nextId \in 1..(MaxActions + 1)
  /\ crashed \in [Node -> BOOLEAN]

(* The epoch of a replica never decreases (spec invariant 8): every       *)
(* handler that adopts an epoch checks msg.Epoch >= t.epoch first.        *)
EpochNeverDecreases == [][\A n \in Node : epoch'[n] >= epoch[n]]_epoch

(* Spec 4.4.3 and scenario 4: when the authority falls silent, a        *)
(* follower promotes itself.  Whenever no live node believes it is       *)
(* authority (the authority crashed), some live node eventually does --  *)
(* through tryAuthorityTakeover's isSmallestNodeID check, the epoch bump *)
(* and the heartbeat and snapshot it broadcasts.                          *)
FailoverEventually == NoLiveAuthority ~> ~NoLiveAuthority

(* The abstract log that TableReplica, with a fixed authority, implements: *)
(* its length is the authority's t.seq and each replica's known prefix    *)
(* its own t.seq -- the position a COMMIT or a SNAPSHOT really carries.   *)
Log == INSTANCE AbstractLog WITH
         Reader <- Node, Writer <- InitAuthority, Boot <- 1,
         committed <- seq[InitAuthority], known <- seq

(* Refinement (spec invariant "seq monotonically increases" and section   *)
(* 4.4.1): with a fixed authority, no replica's seq ever goes back or     *)
(* passes the authority's, however nested commits (all numbered with the  *)
(* chain's last seq), gaps, STATE_QUERYs and snapshots answering earlier  *)
(* queries interleave; and under the abstract log's fairness a follower   *)
(* that is behind keeps catching up until it holds the authority's seq.   *)
LiveRefinement == Log!Spec
=============================================================================
