# Model-checking project for P2Poker

TLA+ models of the P2Poker peer-to-peer poker engine (`src/`). The models
cover the per-table replication protocol (authority, followers, commits,
snapshots, takeover) and the poker betting engine. TLC checks them.

The source tree holds several versions of some files, concatenated with a
separator line. The models follow the **latest** version of each:

- `src/internal/table/apply.go` lines 1-215 (the version with showdown and "raise to");
- `src/internal/table/util.go` lines 30-233 (`Table`, `Run`, `onNet`, commit paths);
- `src/internal/table/snapshot.go` lines 31-99 (snapshot with engine payload);
- `src/internal/engine/types.go` lines 585-1093 (engine with min-raise and short all-in).

Line numbers in `PROJECT.json` are line numbers of the files as they are on disk.

## 1. Inventory

### Components

| Component | Source | State | Operations |
|---|---|---|---|
| Lamport clock | `internal/cluster/router.go` 40-61 | one `uint64` | `TickLocal`, `TickRemote` (CAS loop) |
| Identifiers | `unnamed/part_004` 1-16 | none | `NewNodeID`, `NewTableID`, `RandActionID` (random `int63`) |
| Wire messages and actions | `unnamed/part_004`, `internal/cluster/router.go` 62-87, `internal/protocol/snapshot.go` | none | data types only |
| Router | `internal/cluster/router.go` 1-38 | `byTable` map, RW lock | `Register`, `Unregister`, `Route` |
| Table replica | `internal/table/util.go` 30-233, `snapshot.go` 31-99, `takeover.go`, `apply.go` 1-215 | `authority`, `epoch`, `authorityID`, `seq`, `log`, `dedup`, `eng`, `lastHeartbeat` | `Run` loop, `onNet` (propose, commit, snapshot, heartbeat, state_query), `ProposeLocal`, `commitAndBroadcast`, `applyCommit`, `installSnapshot`, `sendSnapshotTo`, `tryAuthorityTakeover`, `sendHeartbeat`, `apply` |
| Poker engine | `internal/engine/types.go` 585-1093 and 1-169 | `State`: seats, order, dealer, turn, phase, pot, deck, board, holes, current bet, actors to act, last raise, hand active | `Sit`, `Leave`, `StartHand`, `postBlind`, `Bet`, `Check`, `Fold`, `Call`, `Raise`, `advanceTurn`, `AdvancePhase`, `RoundClosed`, `countNeedToAct`, `Snapshot`, `RestoreFromSnapshot` |
| Hand evaluation and showdown | `unnamed/part_002` | none (pure) / stacks, pot | `BestHand7` and helpers, `ResolveShowdown` |
| Deck and card text form | `internal/engine/card_json.go` | none | `NewDeck` (Fisher-Yates), card JSON encode/decode |
| Table manager and node | `internal/cluster/manager.go` | `tables` map; `pendingSS` waiter map | `CreateLocalAuthorityTable`, `AttachFollowerTable`, `dispatcher`, `maybeDeliverDiscovery`, `CreateTable`, `DiscoverAndAttach`, `JoinTableRemote` |
| Transports | `unnamed/part_000` (TCP), `internal/netx/inproc.go`, `internal/netx/codec.go` | peer map, inbox, outbox | `Start`, `AddPeer`, `readLoop`, `broadcast`, `Encode`, `Decode` |
| Shell | `cmd/p2poker/main.go` | none | REPL commands that call `ProposeLocal` and the node |

### How the components interact

- A user command in the REPL (`main.go`) calls `Table.ProposeLocal` **from the REPL
  goroutine**. An authority commits the action on that goroutine. A follower
  broadcasts a `PROPOSE` message.
- Each table runs `Table.Run` on its own goroutine. The loop takes messages from its
  inbox (filled by the router) and calls `onNet`. On a timer, an authority sends a
  heartbeat, and a follower tries a takeover.
- `commitAndBroadcast` increments `seq`, applies the action to the engine, appends it
  to the log, and puts a `COMMIT` message on the outbox. `apply` can itself call
  `commitAndBroadcast`. It does so for an `ADVANCE_PHASE` when the round has closed,
  and for a `SHOWDOWN` when the phase has reached showdown. These nested commits are
  sent **before** the commit of the action that caused them.
- The TCP transport broadcasts every outbox message to every connected peer, but not
  to itself. Each connection is a FIFO stream. A broken connection loses what was in
  flight.
- A follower applies a commit only when its `seq` is `t.seq+1`. On any other
  sequence number it broadcasts a `STATE_QUERY`, and the authority answers with a
  snapshot. A snapshot carries `seq`, `epoch`, the authority id and a partial engine
  state.

### What is hard

- **Ordering.** Nested auto commits are sent innermost first, and every commit
  of the chain reads `t.seq` after all of them bumped it, so all carry the
  chain's last seq: every round close creates a gap at every follower, which
  drops the whole chain and resyncs by snapshot.
- **Stale state.** The snapshot leaves out `CurrentBet`, `ActorsToAct`,
  `LastRaiseSize`, `HandActive`, `Deck` and `Holes`. A follower that recovers from a
  gap continues with stale betting state.
- **Failover.** A takeover bumps the epoch. The old authority adopts the new epoch
  but never clears `t.authority`. A new authority that was lagging re-uses sequence
  numbers, and its snapshot rolls other replicas back.
- **Timeouts.** A follower times out when it has heard nothing for 3 s. Only a node
  whose id sorts before the current authority's id (or that knows no authority) may
  take over. When the authority is the smallest id and crashes, no follower
  ever passes that check.
- **Crashes.** A process that exits closes its connections; the peers' read
  loops end and whatever was still in flight is lost.
- **Data race.** `ProposeLocal` on the REPL goroutine mutates table state that the
  table goroutine also mutates.
- **Betting arithmetic.** Short all-ins, the min-raise, the `ActorsToAct` counter,
  the turn index after seats leave or join mid-hand, and the odd-chip split.

### Correctness properties by component

- **Table replica.**
  - Replicas never apply different actions at the same position (commit agreement).
  - A replica's applied history only grows.
  - `epoch` never decreases.
  - At most one authority exists per epoch.
  - Followers eventually converge to the authority's state.
  - Kicks are applied only when they come from the authority.
- **Poker engine.**
  - Chips are conserved: stacks, plus pot, plus chips taken away by leavers.
  - The turn is on an eligible seat.
  - The round closes only when every eligible seat has matched the bet.
  - `dealer_idx` and `turn_idx` stay inside `order`.
  - After an advance every `committed` is 0.
  - The hand ends when one contender is left.
- **Showdown.** The payouts sum to the pot. The odd chips go to the winners closest
  to the dealer's left.
- **Hand evaluation.** The result is deterministic and independent of the order of
  the seven cards. The wheel ranks as 5-high.
- **Lamport clock.** `TickRemote` returns a value greater than both the local and
  the remote value.
- **Discovery.** It attaches at most once per table, and a waiter is always removed.

## 2. Plan

Modules, in the order they are built. The most important behaviour comes first.

1. `TableReplica.tla`: the replication protocol of one table across a set of nodes.
   The state is, per node: `authority`, `epoch`, `authorityID`, `seq` and `dedup`;
   the engine is left out (no branch of the protocol reads it; `ReplicatedTable`
   has it). The network is FIFO channels per ordered pair of nodes.
   - Actions: `ProposeLocal`, `Receive` (one disjunct per message type, the whole of
     `onNet`), `Heartbeat`, `Takeover`.
   - Nested auto commits are a bounded nondeterministic depth, because `RoundClosed`
     is an engine predicate this module abstracts.
   - `MC_TableReplica.tla` instantiates it. *(sitting 1: done)*
2. `PokerEngine.tla`: the betting state machine of `engine/types.go`, together with
   the dispatch of `table/apply.go`, the "raise to" conversion and the auto advance
   and showdown.
   - Players are a small ordered set.
   - Stacks and blinds are small integers.
   - Bet and raise amounts come from a small set.
   - Showdown winners are any non-empty set of contenders, which over-approximates
     hand strength.
   - *(sitting 1: done)*
3. `HandEval.tla`: `BestHand7` as operators over 7-card deals from a reduced deck,
   checked against a reference definition (best over all 5-card subsets).
   *(sitting 3: done)*
4. `Showdown.tla` *(not built)*: the payout split of `ResolveShowdown` is
   translated inside `PokerEngine`; a separate module would repeat it.
5. `ReplicatedTable.tla`: composes `TableReplica` with `PokerEngine`. Each replica
   holds a real engine state. The snapshot carries only the fields `EngineSnapshot`
   has. `RoundClosed` decides the nested commits. The target property is that
   replicas at the same `seq` agree on the engine state. *(sitting 2: done)*
6. `AbstractLog.tla`: an abstract commit log, by positions. `TableReplica`
   (without takeover) is shown to refine it with `INSTANCE ... WITH`. *(sitting 2: done)*
7. `Discovery.tla`: `DiscoverAndAttach`, the waiter map, `maybeDeliverDiscovery`
   and the 3 s timeout racing a late snapshot. *(sitting 2: done)*
8. `LamportClock.tla`: the CAS loop of `TickRemote` under two concurrent callers,
   with `% 2^w` overflow. *(sitting 2: done)*
9. `ProposeRace.tla`: the data race between `ProposeLocal` on the REPL goroutine and
   `onNet` on the table goroutine, modelled as non-atomic read/write steps on `seq`
   and `dedup`. *(sitting 2: done)*

Not modelled:

- The REPL's parsing and printing.
- The JSON framing, which is pure encoding. Only its contract (a FIFO stream per
  connection, loss when a connection breaks) is used.
- Logging.
- The Inproc transport, a single-process demo.

## 3. Modules, runs and results

### `TableReplica.tla` (with `MC_TableReplica.tla`)

**What it models.** The replication protocol of one table, translated from
`table/util.go`, `snapshot.go` and `takeover.go`.

- **Per-node state.** Each node has the fields `authority`, `epoch`,
  `authorityID`, `seq` and `dedup` of `Table`. The engine is left out: no
  branch of `onNet`, `applyCommit` or the takeover reads it, and whether an
  action closes a round is chosen nondeterministically (below). A snapshot
  therefore carries `seq`, `epoch` and `authority`; the engine payload, which
  is partial (`EngineSnapshot` omits the betting fields), is modelled with the
  real engine in `ReplicatedTable`. The write-only `t.log` is left out too.
- **Network.** `chan[f][t]` is the FIFO TCP stream from `f` to `t`. `SendAll`
  appends to every peer's stream except the sender's own, as the TCP
  `broadcast` does.
- **Actions.**
  - `ProposeLocal` (from the REPL).
  - `Receive`, which is the whole of `onNet`, one branch per message type:
    - `HandlePropose` commits on the authority and drops the message on a
      follower;
    - `HandleCommit` applies the epoch and kick guards, then `applyCommit`
      (duplicate drop, gap broadcasts `STATE_QUERY`, or apply), then adopts the
      epoch and authority;
    - `HandleSnapshot` applies the epoch guard, then `installSnapshot`;
    - `HandleHeartbeat`;
    - `HandleStateQuery` makes only the authority answer.
  - `Heartbeat` (the authority's ticker).
  - `Takeover` (`tryAuthorityTakeover`). The 3-second silence is a
    nondeterministic timer: any follower whose id sorts before the known
    authority's may fire it.
  - `Crash` is a process exit. The node takes no further step; every peer's
    `readLoop` sees EOF and closes the connection, so the stream to the
    crashed node is emptied and the stream from it keeps an arbitrary prefix
    of what was written (the rest was lost in flight). Later `broadcast`
    writes to it are dropped, as `broadcast` ignores write errors.
  - `CreateAction` (`CreateLocalAuthorityTable`) commits `CREATE_TABLE` at seq 1.
- **Nested commits.** `commitAndBroadcast` applies the action. `apply` may
  commit up to two nested actions (ADVANCE_PHASE, SHOWDOWN), and each nested
  commit is sent before its parent's. Each COMMIT reads `t.seq` when it is
  sent, after every nested commit has bumped it (`util.go:216`), so the whole
  chain carries its last seq. Whether a round closes is an engine
  predicate, so the model chooses the depth (`AutoChains`) nondeterministically.
- **Left out.**
  - The Lamport clock: no decision reads it.
  - `lastHeartbeat`: the timer is nondeterministic.
  - The router: a message for the table lands in its inbox.

**Bounds.**

- `MaxActions` bounds the ids of proposed actions. Nested commits use ids above
  them.
- `MaxHeartbeats` and `MaxTakeovers` bound the tickers. `MaxTakeovers` only
  bounds takeovers while some authority is alive: a takeover when every
  authority has crashed is always allowed, so the failover itself is never cut
  off by the bound.
- `MaxCrashes` bounds crashes and stays below the number of nodes.
- One authority and one follower with 4 actions: their nested commits open
  gaps, and the follower is repaired by a snapshot while a commit is in flight.
- Two nodes with 4 actions, one early takeover and one crash are enough for a
  lagging follower to take over while the creator is alive, and for the
  creator to crash before that. No authority ever steps down, so with two
  nodes a state with no live authority arises only when creator 2 crashes
  before node 1 took over; `FailoverEventually` then says node 1 takes over.
  A second failover would need a third node.

**Fairness.** Weak fairness on `Receive` for each ordered pair of nodes. The
table goroutine loops on its inbox forever, and TCP delivers in order while the
connection stays up. Heartbeats, takeovers and proposals are not fair: they
depend on users and timers. The exception is the follower timer once every
authority has crashed: nothing else reaches that follower's inbox, so the
`time.After(3s)` case of `Run` fires every 3 s, and `Fairness` has weak
fairness on `Takeover(n)` restricted to states with no live authority.
Crashed nodes take no step (their actions are guarded by `~crashed[n]`).
`CHECK_DEADLOCK FALSE` is set because a table with
no message in flight and nothing proposed is idle, which is a normal state.

| Run (cfg) | Expect | Properties | Shows |
|---|---|---|---|
| `replica_liveness` (`MC_TableReplica_live.cfg`: 2 nodes, 4 actions, 1 heartbeat, no takeover) | pass, about 15 k states | `TypeOK`, `LiveRefinement` | TableReplica implements `AbstractLog` (see below): although every nested chain reaches the follower as gaps, answered by STATE_QUERYs and snapshots that race later commits, the authority's seq only grows, no replica's seq goes back or passes it, and every follower eventually reaches it. |
| `replica_takeover` (`MC_TableReplica_takeover.cfg`: creator 2, follower 1, 4 actions, 1 heartbeat, 1 early takeover, 1 crash) | pass, about 310 k states, under a minute | `EpochNeverDecreases`, `FailoverEventually` | The epoch guards of COMMIT, SNAPSHOT and HEARTBEAT keep each replica's epoch monotone through a takeover and a crash; and when creator 2 crashes before node 1 took over, node 1 (whose id sorts first) takes over. |
| `replica_failover` (`MC_TableReplica_FailoverEventually.cfg`: creator 1, follower 2, 1 crash) | violation | `FailoverEventually` | Spec scenario 4: node 2 learns authority 1 from the snapshot answering its STATE_QUERY, node 1 crashes, and node 2's takeover is refused on every timeout (finding 8). |

The refinement is checked on two nodes, so that the liveness check stays
within minutes; every message path (gap, query, snapshot, duplicate) already
occurs there with four actions and their nested commits.

### `PokerEngine.tla` (with `MC_PokerEngine.tla`)

**What it models.** The engine `State` of `engine/types.go` as a record, and
the dispatch of `table/apply.go` on top of it.

- **Operations.** Each engine operation (`Sit`, `Leave`, `StartHand`, `Bet`,
  `Check`, `Fold`, `Call`, `Raise`, `AdvancePhase`, with `postBlind`,
  `advanceTurn`, `countNeedToAct`, `RoundClosed`) is an operator from a state to
  `[st, err]`.
- **Partial failure.** The Go code mutates in place, so a failing operation can
  return a partly changed state. `Raise`'s short path is one: it pays, then
  returns `ErrInsufficient`. The model keeps that partly changed state.
- **`Apply` is `Table.apply`.** It does the following:
  - the switch (`Dispatch`);
  - BET on an open bar becomes RAISE;
  - the raise-to conversion (`RaiseTo`);
  - the announcements that read `Order[DealerIdx]`. An out-of-range index is
    the `crashed` state, because Go panics there;
  - the auto ADVANCE_PHASE when the round closed after a non-ADVANCE action;
  - the showdown when an advance reaches `showdown`.
- **Driver.** `Commit` is the authority's `commitAndBroadcast`: an action is
  committed whatever error `apply` returns.
- **Showdown.** `BestHand7` is abstracted. The set of strong hands is chosen
  freely, and the winners are the strong contenders, or every contender when
  none is strong. The split and odd-chip walk of `ResolveShowdown` are
  translated.

**Bounds.**

- Heads-up, blinds 1/2 and a buy-in of 6. A bet of 5 is more than a blind
  poster has left, so short calls and all-ins happen within a few actions.
- `Amounts` is the set of bet and raise-to amounts, {3, 4, 5}. Preflop over
  the big blind of 2 a raise to 4 is a full raise of exactly `LastRaiseSize`,
  a raise to 3 is one chip short, and a raise to 5 moves `LastRaiseSize` to 3
  (TLC reaches each). Three players with these amounts run for over ten
  minutes; two keep the run under a minute, and joins, a re-join and leaves
  still re-sort and shrink `Order` mid-hand.
- `MaxJoins` and `MaxHands` bound re-joins and hands.
- `MinActorsToAct` is the lower bound of the `ActorsToAct` counter. It is -1,
  so the model can reach a counter that dropped below zero.

**Fairness.** None: every step is a user command.

**Deadlock.** `CHECK_DEADLOCK FALSE` is set: once the bounds are used up, no
command remains.

| Run (cfg) | Expect | Properties | Shows |
|---|---|---|---|
| `engine_heads_up` (`MC_PokerEngine.cfg`: 2 players, buy-in 6, 1 hand, 3 joins, bets and raises to 3, 4 or 5) | pass, about 97 k states, about 35 s | `TypeOK`, `TurnIdxInRange`, `BetBar`, `MinRaiseHolds` | Through joins and leaves mid-hand, short calls, short all-ins and street resets, `TurnIdx` stays within `Order`. No seat that is not all-in has committed more than the current bet. Within a street the current bet rises only by a full raise of at least `LastRaiseSize`, which becomes the new increment: a raise of exactly `LastRaiseSize` is taken, one chip less is refused (spec §8's boundary). |
| `engine_no_panic` | violation | `NoPanic` | After `StartHand` moves the dealer to seat 1, a `LEAVE` leaves `DealerIdx` past the end of `Order`, and `dealerTag` indexes out of range. |
| `engine_fold_to_one` | violation | `HandEndsWithOneContender` | After heads-up SB folds, only one street is auto-advanced and the hand stays active. |


### `AbstractLog.tla`: what the replicas promise

An abstract specification written from spec §3 and §4.4, not from code,
kept at the level of log positions: the length of the committed log, which
the authority grows (`Commit` adds a non-empty batch, an action and the
auto actions it triggers), and per replica the length of the prefix it
holds (`Learn` moves a replica to a longer prefix). `Spec` adds weak
fairness on `Learn`. Positions are what the replication layer carries: a
COMMIT and a SNAPSHOT carry a seq; the engine state at a position is the
subject of `ReplicatedTable`, where replicas at the same seq are shown to
disagree.

`TableReplica` defines `Log == INSTANCE AbstractLog WITH committed <-
seq[InitAuthority], known <- seq`, and `LiveRefinement == Log!Spec` is
checked as a PROPERTY. A step of `TableReplica` that changes no seq (a
heartbeat, a query, a dropped commit) is a stuttering step of the log.

### `ReplicatedTable.tla` (with `MC_ReplicatedTable.tla`): replicas with the real engine

The composition of the commit path (`util.go`, `apply.go`) with the engine
of `PokerEngine` (`E == INSTANCE PokerEngine`), and the snapshot of
`snapshot.go` with `EngineSnapshot` / `RestoreFromSnapshot` (`types.go`
115-169).

- **Authority.** `Propose` runs `AuthorityApply`: the engine operation, then
  the ADVANCE_PHASE the code commits when the round closes, then the
  SHOWDOWN when the advance reaches showdown. The commits go out innermost
  first (`SentOrder`), as the nested `commitAndBroadcast` calls send them.
- **Followers.** `ReceiveCommit` is `applyCommit` (apply at `seq+1`, else a
  STATE_QUERY); `FollowerApply` is `apply` with `t.authority = false`.
  `ReceiveSnapshot` is `installSnapshot`, `AnswerQuery` is `sendSnapshotTo`.
- **Snapshot.** `SnapshotMsg` carries the fields of `EngineSnapshot` only;
  `RestoreFromSnapshot` overwrites those and leaves `CurrentBet`,
  `ActorsToAct`, `LastRaiseSize` and `HandActive` as they were.
- **Left out.** Takeover (`TableReplica`'s subject), LEAVE and KICK, the
  dedup branch (every id is fresh and streams do not duplicate).

**Bounds.** One follower, two seated players, blinds 1/2, buy-in 5, one
bet amount 4, one strong player, four REPL commands (enough for a hand to
start, a round to close, the gap, query and snapshot, and a command after the
resync).

**Fairness.** `Spec` has weak fairness on each follower's handling of its
stream and on the authority's answer to queries (both are table loops
draining inboxes); the one run checks a safety property, which fairness does
not affect.

| Run (cfg) | Expect | Properties | Shows |
|---|---|---|---|
| `replicated_agree` (`MC_ReplicatedTable_ReplicasAgree.cfg`) | violation | `ReplicasAgree` | After a snapshot resync, the follower's engine differs from the authority's at the same `seq`. |

### `ProposeRace.tla` (with `MC_ProposeRace.tla`): the unsynchronised commit

`ProposeLocal` on an authority calls `commitAndBroadcast` on the REPL
goroutine, while the table goroutine calls it from `onNet`. The module gives
each goroutine a program counter over the steps of `commitAndBroadcast`:
`LoadSeq` and `StoreSeq` (`t.seq++`), `Apply` and `Send` (which reads `t.seq`
again). Go gives a data race no defined result; the model takes the outcomes
of a build where every load sees the latest store.

| Run (cfg) | Expect | Properties | Shows |
|---|---|---|---|
| `propose_race` (`MC_ProposeRace_CommitsNumbered.cfg`: the REPL and the loop, one action each) | violation | `CommitsNumbered` | A COMMIT carries a `seq` other than the position where its action was applied. |

The module leaves the nested auto commits out, to isolate the race. With
them, a COMMIT whose action closed a round carries the chain's last seq and
not its own position even on one goroutine (see `TableReplica`'s nested
commits); the race adds wrong numbers to actions that close nothing.

### `LamportClock.tla` (with `MC_LamportClock.tla`)

The node-wide clock of `router.go` 44-61, shared by every table goroutine
and the REPL. `TickLocal` is one atomic add. `TickRemote` is three steps:
invocation, `Load`, and `CompareAndSwap`, which returns on success and goes
back to the load on failure. Every store is taken modulo `2^W`. Ghost
variables record, per call, the largest value returned before it was invoked.

**Bounds.** Three goroutines, width 4, two calls each, remote stamp 3: calls
overlap in every order and the CAS fails and retries.

**Fairness.** Weak fairness on each goroutine's `Load` / `CompareAndSwap`:
a goroutine inside `TickRemote` keeps running. No fairness on starting a call.

| Run (cfg) | Expect | Properties | Shows |
|---|---|---|---|
| `lamport_ordered` (`MC_LamportClock.cfg`) | pass, about 188 k states | `TicksOrdered`, `TickRemoteReturns` | A tick returns more than every tick completed before it started, however the CAS loop interleaves, and every `TickRemote` returns. |

### `Discovery.tla`: discovering and attaching to a table

`DiscoverAndAttach` (`manager.go` 180-217) against an authority that keeps
committing other players' actions.

- **REPL.** `Discover` registers a fresh channel of buffer 1 in `pendingSS`
  and sends a STATE_QUERY. Then `TakeSnapshot` and `Timeout` race: the
  3-second timer is nondeterministic. On the snapshot, `Attach` runs
  `AttachFollowerTable`, which registers a follower at `seq` 0 with an empty
  engine and ignores the snapshot's `seq` and engine. `ProposeJoin` sends the
  JOIN. After a timeout the user may discover again, with a new channel.
- **Dispatcher.** `Dispatch` is `Route`, plus `onNet` of the registered table
  (gap → STATE_QUERY, snapshot install); before registration it hands a
  snapshot to `maybeDeliverDiscovery`, which looks the waiter up under
  `pendMu`. `Deliver` is the send after the unlock: it puts the snapshot into
  the buffer, or drops it when the buffer is full, even if the channel's
  attempt has timed out by then.
- **Authority.** `Play` commits another player's action; `AuthorityReceive`
  answers a STATE_QUERY with a snapshot and commits a PROPOSE.

**Bounds.** Two attempts and three other commits: a timeout followed by a
retry, a late snapshot landing in the dead channel, and commits dropped
before the table is registered all occur.

**Fairness.** Weak fairness on the dispatcher, the authority's loop, the
REPL's `select` (snapshot or timer), `Attach` and `ProposeJoin`. Starting a
discovery and other players' actions are not fair.

| Run (cfg) | Expect | Properties | Shows |
|---|---|---|---|
| `discovery` (`MC_Discovery.cfg`) | pass, about 3.9 k states | `AttachedCatchesUp` | The follower attached at `seq` 0 eventually holds the authority's `seq`: the JOIN's commit opens a gap, and the resulting snapshot repairs it. |

### `HandEval.tla`: the hand evaluator

`BestHand7` of `unnamed/part_002` (83-260) and every helper it calls,
translated as operators: `fill` is `Fill`; the rank and suit counts and the
`present` bitset are `RankCount`, `SuitCount` and `RankBits` (a bitset is a
set of ranks); `straightTop`, the sorted `groups`, the first flush suit, the
full-house search (`PairOrTrip`), `collectOfRank`, `kickerCard` and
`pickStraight` keep their names; `highestExcept`, `topKicker`, `topKickers`,
`topKickers3` and `topNRanks`, which all scan from the ace down past excluded
ranks and pad with 0, are one operator `TopRanks`. The code's sorts (of `groups`, and of the
flush suit's cards by rank) are `SortedBy`, which is exact there because no two
elements tie. `BestHand7` is the chain of
the code's early returns in the code's order, returning the value and the
five cards (a zero `Card` where the code leaves a slot unfilled).

- **Inputs.** The state is `board` and `holes` of one player, dealt as the
  engine deals them: two holes in `StartHand`, then the flop, turn and river in
  `AdvancePhase`. The deck is `NewDeck`'s cards restricted to `Ranks` x
  `Suits`; the shuffle is a free choice of the next cards. Within a deal the
  cards are taken in increasing order: the value is a function of the set of
  seven cards, so one order per set reaches every value, and the five cards
  returned depend on the order only through which card of a rank is picked.
- **Reference.** Written from the spec's ranking (§4.2, §8), not from the code:
  `RefCat5` and `RefValue5` classify five cards by flush, straight (the wheel as
  5-high) and rank multiplicities; `RefBest7` is the best of the 21 five-card
  subsets (`Fives`) under `HandValue.Less`.

**Bounds.** Ranks 2, 3, 4, 5, 6 and ace in all four suits: 24 cards and
346 k complete deals. Every category occurs, including quads, two trips,
three pairs, a flush with a straight flush in it, the wheel, and the 6-high
straight above it. `CHECK_DEADLOCK FALSE`: the deal ends after the river.

| Run (cfg) | Expect | Properties | Shows |
|---|---|---|---|
| `hand_eval` (`MC_HandEval.cfg`) | pass, about 523 k states, under a minute | `CategoryMatchesReference`, `FiveCardsMakeTheValue` | On every deal `BestHand7` finds the category of the best five-card hand, and returns five distinct dealt cards that make exactly the value it reports. |
| `hand_eval_wheel` (`MC_HandEval_ValueMatchesReference.cfg`) | violation | `ValueMatchesReference` | With holes 2c 2d on a board of 3c 4c 5c 6c Ac, the value is a 5-high straight flush: the wheel is taken before the 6-high run (finding 7). |

### Findings

The details are in `PROJECT.json`.

1. **No step-down** (no run now). No code clears `t.authority`
   (`table/util.go:184`). The spec (§4.4.3, scenario 4) says the old authority
   becomes a follower. An earlier run showed two authorities in one epoch; it
   was retired for finding 8.
2. **Panic after `Leave`.** `State.Leave` does not clamp `DealerIdx`. The next
   turn announcement then panics (`apply.go:27`).
3. **Empty showdown.** A showdown with no contender destroys the pot
   (`part_002:455`). BET is also accepted when no hand is running. An earlier
   version of `PokerEngine` carried a chip-history variable and TLC found
   `ChipConservation` violated by a BET with no hand running followed by
   ADVANCE_PHASE to showdown; that run was retired for the hand-evaluation
   runs and the issue is kept as a hazard.
4. **Fold to one.** When all but one player fold, the hand does not end
   (`apply.go:200`).
5. **Partial engine snapshot.** `EngineSnapshot` omits `CurrentBet`,
   `ActorsToAct`, `LastRaiseSize` and `HandActive` (`types.go:115`). Every
   round close makes followers resync by snapshot, so followers disagree
   with the authority at the same `seq`.
6. **Commit race.** `ProposeLocal` runs `commitAndBroadcast` off the table
   goroutine (`util.go:197`), so COMMITs can carry wrong sequence numbers.
7. **Six-high straight scored as the wheel.** `straightTop` tests the wheel
   mask before the scan for five consecutive ranks (`part_002:117`), so
   A-2-3-4-5-6 scores as a 5-high straight, and a 2-6 straight flush with
   any ace as a 5-high straight flush; such a hand loses to hands it beats.
8. **No failover from the smallest id.** `isSmallestNodeID`
   (`takeover.go:40`) lets a follower take over only when its id sorts before
   the known authority's. When that authority is the smallest id and crashes,
   the table has no authority forever. Spec scenario 4 (n1 < n2, n1
   authority) expects n2 to promote itself; spec §4.4.3 states the code's rule,
   so the spec contradicts itself and the code follows §4.4.3.

Other issues are listed as hazards in `PROJECT.json`, with a note and no run:
- `installSnapshot` rolls a replica back to a shorter history after a takeover;
- a new street's turn may land on a seat that cannot act;
- the empty showdown of finding 3;
- `collectOfRank` picks cards of a rank in input order, not highest suit
  first as spec §4.2 requires (with two trips, the full house's pair);
- eventual convergence of followers running the real engine
  (`EventuallySynced` of `ReplicatedTable`, shown to hold at three commands).

Earlier versions of this project's models showed each of them with TLC. The
project keeps a small set of runs, so these have none now.

### Not modelled

- The composition of `HandEval` with the showdown of `PokerEngine`:
  `PokerEngine` chooses the strong hands freely, which over-approximates any
  deal; dealing real cards there would multiply its state space by every
  deal of the deck.
- Connection loss between two live nodes, and the bounded router inbox: the
  streams lose messages only when a node crashes, and are unbounded.
- Restart after a crash and rejoin by snapshot (spec §1): a restarted process
  starts a new table from the REPL with a fresh `Table`; nothing of the old
  one is persisted, so it is a new node to the model.
- `JoinTableRemote` and `ListTables`.
- The "discovery already in progress" and "table exists" errors: each needs
  a second REPL.
- Card JSON, wire types and identifiers: pure encoding.

The hazards that no property covers yet are listed with a note in
`PROJECT.json`.
