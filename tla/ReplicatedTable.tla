---------------------------- MODULE ReplicatedTable ----------------------------
(***************************************************************************)
(* One table replicated from its authority to followers, each replica      *)
(* with a real engine (PokerEngine's operators): the composition of the    *)
(* commit path of src/internal/table/util.go and apply.go with the engine  *)
(* of src/internal/engine/types.go, and the snapshot of snapshot.go and    *)
(* EngineSnapshot / RestoreFromSnapshot.                                    *)
(*                                                                         *)
(* The authority applies each command and the ADVANCE_PHASE / SHOWDOWN it  *)
(* triggers within one apply, and sends the nested commits first.  A       *)
(* follower applies commits one at a time with t.authority = false; any    *)
(* gap makes it broadcast a STATE_QUERY and the authority answers with a   *)
(* snapshot, which carries only the fields EngineSnapshot has.             *)
(*                                                                         *)
(* The authority is fixed (takeover is TableReplica's subject), commands   *)
(* are proposed at the authority (a follower's PROPOSE reaches it through  *)
(* the same commit path), and hole cards are equal on every replica, so    *)
(* hand strength is one set Strong for all.  LEAVE and KICK are left out:  *)
(* their panic is PokerEngine's subject.  Every action id is fresh and     *)
(* streams do not duplicate, so applyCommit's dedup branch is never taken  *)
(* here and is left out.                                                   *)
(***************************************************************************)
EXTENDS Integers, Sequences, FiniteSets

CONSTANTS
  Auth,          \* the authority node
  Follower,      \* the follower nodes
  Player,        \* two seated players (JOIN committed before Init)
  SmallBlind, BigBlind, MinBuyin,
  Amounts,       \* bet / raise-to amounts of REPL commands
  Strong,        \* players holding the higher hand at showdown
  MaxCmds        \* commands the REPL proposes (bound)

ASSUME Cardinality(Player) = 2

Node == {Auth} \cup Follower

E == INSTANCE PokerEngine WITH
       MaxJoins <- 0, MaxHands <- 1, MinActorsToAct <- 0,
       eng <- 0, crashed <- FALSE, joins <- 0, hands <- 0

VARIABLES
  eng,     \* eng[n]: t.eng of replica n
  seq,     \* seq[n]: t.seq
  toF,     \* toF[f]: the stream from the authority to follower f
  toA,     \* toA[f]: STATE_QUERYs in flight from follower f to the authority
  cmds     \* commands proposed so far (bound)

vars == <<eng, seq, toF, toA, cmds>>

CommitMsg(s, a) == [type |-> "COMMIT", seq |-> s, action |-> a]

(* Table.snapshot / State.Snapshot: seq and the public engine fields.     *)
SnapshotMsg(s) ==
  [type |-> "SNAPSHOT", seq |-> seq[Auth],
   es |-> [dealer |-> s.dealer, order |-> s.order, turn |-> s.turn,
           phase |-> s.phase, pot |-> s.pot, stack |-> s.stack,
           committed |-> s.committed, inHand |-> s.inHand,
           allIn |-> s.allIn, folded |-> s.folded]]

(* RestoreFromSnapshot: the snapshot's fields replace the engine's;       *)
(* CurrentBet, ActorsToAct, LastRaiseSize and HandActive stay as they     *)
(* were on this replica.                                                   *)
RestoreFromSnapshot(s, es) ==
  [s EXCEPT !.dealer = es.dealer, !.order = es.order, !.turn = es.turn,
            !.phase = es.phase, !.pot = es.pot, !.stack = es.stack,
            !.committed = es.committed, !.inHand = es.inHand,
            !.allIn = es.allIn, !.folded = es.folded]

(* apply(a) on a follower: the switch alone; ADVANCE_PHASE only advances  *)
(* and SHOWDOWN resolves (both commit nothing when not authority).        *)
FollowerApply(s, a) ==
  CASE a.type = "ADVANCE_PHASE" -> E!AdvancePhase(s)
    [] a.type = "SHOWDOWN"      -> E!ResolveShowdown(s, Strong)
    [] OTHER                    -> E!Dispatch(s, a, Strong).st

(* apply(a) on the authority at seq k, as the list of commits it makes in *)
(* seq order and the state it leaves: after the switch, a round close     *)
(* (not after an ADVANCE_PHASE, not after an error) commits an            *)
(* ADVANCE_PHASE, and an ADVANCE_PHASE reaching showdown commits a        *)
(* SHOWDOWN.                                                              *)
AdvanceChain(s) ==
  LET s1 == E!AdvancePhase(s) IN
  IF s1.phase = "showdown"
    THEN [st |-> E!ResolveShowdown(s1, Strong),
          acts |-> <<[type |-> "ADVANCE_PHASE"], [type |-> "SHOWDOWN"]>>]
    ELSE [st |-> s1, acts |-> <<[type |-> "ADVANCE_PHASE"]>>]

AuthorityApply(s, a) ==
  IF a.type = "ADVANCE_PHASE"
    THEN LET r == AdvanceChain(s) IN [st |-> r.st, acts |-> r.acts]
    ELSE LET r == E!Dispatch(s, a, Strong) IN
         IF ~r.err /\ E!RoundClosed(r.st)
           THEN LET c == AdvanceChain(r.st) IN [st |-> c.st, acts |-> <<a>> \o c.acts]
           ELSE [st |-> r.st, acts |-> <<a>>]

(* The commits of one commitAndBroadcast in the order they are sent:      *)
(* innermost first, since each is sent after its own apply returns; each  *)
(* reads t.seq when it is sent, after every nested commit has bumped it,   *)
(* so all of them carry the chain's last seq.                             *)
SentOrder(last, acts) ==
  [i \in 1..Len(acts) |-> CommitMsg(last, acts[Len(acts) + 1 - i])]

Broadcast(msgs) == [f \in Follower |-> toF[f] \o msgs]

-----------------------------------------------------------------------------
(* A REPL command reaches the authority (ProposeLocal or PROPOSE) and is  *)
(* committed: commitAndBroadcast with its nested commits.                 *)
Propose(a) ==
  /\ cmds < MaxCmds
  /\ LET r == AuthorityApply(eng[Auth], a) IN
     /\ eng' = [eng EXCEPT ![Auth] = r.st]
     /\ seq' = [seq EXCEPT ![Auth] = @ + Len(r.acts)]
     /\ toF' = Broadcast(SentOrder(seq[Auth] + Len(r.acts), r.acts))
  /\ cmds' = cmds + 1
  /\ UNCHANGED toA

(* A follower takes a COMMIT: applyCommit applies it at t.seq+1 and       *)
(* answers any other seq with a STATE_QUERY.                              *)
ReceiveCommit(f) ==
  /\ toF[f] # <<>>
  /\ Head(toF[f]).type = "COMMIT"
  /\ LET m == Head(toF[f]) IN
     IF m.seq = seq[f] + 1
       THEN /\ eng' = [eng EXCEPT ![f] = FollowerApply(@, m.action)]
            /\ seq' = [seq EXCEPT ![f] = m.seq]
            /\ UNCHANGED toA
       ELSE /\ toA' = [toA EXCEPT ![f] = @ + 1]
            /\ UNCHANGED <<eng, seq>>
  /\ toF' = [toF EXCEPT ![f] = Tail(@)]
  /\ UNCHANGED cmds

(* A follower takes a SNAPSHOT (same epoch): installSnapshot. *)
ReceiveSnapshot(f) ==
  /\ toF[f] # <<>>
  /\ Head(toF[f]).type = "SNAPSHOT"
  /\ LET m == Head(toF[f]) IN
     /\ eng' = [eng EXCEPT ![f] = RestoreFromSnapshot(@, m.es)]
     /\ seq' = [seq EXCEPT ![f] = m.seq]
  /\ toF' = [toF EXCEPT ![f] = Tail(@)]
  /\ UNCHANGED <<toA, cmds>>

(* The authority takes a STATE_QUERY: sendSnapshotTo broadcasts its       *)
(* snapshot.                                                              *)
AnswerQuery(f) ==
  /\ toA[f] > 0
  /\ toA' = [toA EXCEPT ![f] = @ - 1]
  /\ toF' = Broadcast(<<SnapshotMsg(eng[Auth])>>)
  /\ UNCHANGED <<eng, seq, cmds>>

Commands ==
  {[type |-> "START_HAND", p |-> 0, amt |-> 0], [type |-> "ADVANCE_PHASE", p |-> 0, amt |-> 0]}
  \cup [type : {"CHECK", "CALL", "FOLD"}, p : Player, amt : {0}]
  \cup [type : {"BET", "RAISE"}, p : Player, amt : Amounts]

(* The table after CREATE_TABLE and the players' JOINs, every follower    *)
(* caught up.                                                             *)
Seated == LET ps == E!SetToSortSeq(Player, <) IN E!Sit(E!Sit(E!NewState, ps[1]), ps[2])

Init ==
  /\ eng = [n \in Node |-> Seated]
  /\ seq = [n \in Node |-> 1 + Cardinality(Player)]
  /\ toF = [f \in Follower |-> <<>>]
  /\ toA = [f \in Follower |-> 0]
  /\ cmds = 0

Next ==
  \/ \E a \in Commands : Propose(a)
  \/ \E f \in Follower : ReceiveCommit(f) \/ ReceiveSnapshot(f) \/ AnswerQuery(f)

(* Each table loop keeps draining its inbox, and TCP delivers: the        *)
(* follower's loop takes whatever heads its stream, the authority's loop  *)
(* takes the queries.                                                     *)
Fairness ==
  \A f \in Follower :
    WF_vars(ReceiveCommit(f) \/ ReceiveSnapshot(f)) /\ WF_vars(AnswerQuery(f))

Spec == Init /\ [][Next]_vars /\ Fairness

-----------------------------------------------------------------------------
(* Spec round-trip law and invariant 1: a follower at the authority's     *)
(* seq holds the authority's engine state.                                *)
ReplicasAgree == \A f \in Follower : seq[f] = seq[Auth] => eng[f] = eng[Auth]
=============================================================================
