------------------------------ MODULE PokerEngine ------------------------------
(***************************************************************************)
(* The betting engine of one table (src/internal/engine/types.go, the      *)
(* min-raise version) driven by the dispatch of Table.apply                *)
(* (src/internal/table/apply.go), on the authority: every committed       *)
(* action is applied, and a round close commits an ADVANCE_PHASE and a     *)
(* showdown commits a SHOWDOWN within the same apply.                      *)
(*                                                                         *)
(* Engine operations are operators from a State record to a result         *)
(* [st, err]: Go mutates the state in place and may return an error after  *)
(* a partial mutation, so `st` is the state left behind even when err.     *)
(* Deck, board and hole cards are left out: hand strength is abstracted to *)
(* the set `strong` of players whose hand value is the higher one, so the  *)
(* showdown winners are any non-empty tie set of the contenders.           *)
(***************************************************************************)
EXTENDS Integers, Sequences, FiniteSets, SequencesExt, FiniteSetsExt

CONSTANTS
  Player,         \* player ids (NodeID strings, compared with <)
  SmallBlind,     \* cfg.SmallBlind
  BigBlind,       \* cfg.BigBlind
  MinBuyin,       \* cfg.MinBuyin, the stack Sit gives on JOIN
  Amounts,        \* amounts a REPL bet/raise command may carry
  MaxJoins,       \* bound on JOIN commits (each one brings MinBuyin chips)
  MaxHands,       \* bound on START_HAND commits
  MinActorsToAct  \* bound below which ActorsToAct is not explored

ASSUME Player \subseteq Nat /\ 0 \notin Player
ASSUME 0 < SmallBlind /\ SmallBlind < BigBlind /\ MinBuyin \in Nat

VARIABLES
  eng,      \* the engine State of the authority
  crashed,  \* the table goroutine panicked (index out of range)
  joins,    \* JOIN commits so far (bound only)
  hands     \* START_HAND commits so far (bound only)

vars == <<eng, crashed, joins, hands>>

Phases == {"preflop", "flop", "turn", "river", "showdown"}
NextStreet == [preflop |-> "flop", flop |-> "turn", turn |-> "river"]

(* NewState(sb, bb) *)
NewState ==
  [dealer |-> 0, order |-> <<>>, turn |-> 0, phase |-> "preflop", pot |-> 0,
   stack |-> [p \in Player |-> 0], committed |-> [p \in Player |-> 0],
   inHand |-> [p \in Player |-> FALSE], allIn |-> [p \in Player |-> FALSE],
   folded |-> [p \in Player |-> FALSE],
   currentBet |-> 0, actors |-> 0, lastRaise |-> 0, handActive |-> FALSE]

(* Go indices into Order are 0-based. *)
At(s, i) == s.order[i + 1]
NumSeats(s) == Len(s.order)
Seated(s) == ToSet(s.order)

Ok(s) == [st |-> s, err |-> FALSE]
Err(s) == [st |-> s, err |-> TRUE]

(* Move x chips from p's stack into the pot. *)
Pay(s, p, x) == [s EXCEPT !.stack[p] = @ - x, !.committed[p] = @ + x, !.pot = @ + x]

-----------------------------------------------------------------------------
(* Sit: the seat is new (apply's JOIN returns early for a seated player), *)
(* appended to Order, and Order is re-sorted.                             *)
Sit(s, p) ==
  [s EXCEPT !.order = SetToSortSeq(Seated(s) \cup {p}, <),
            !.stack[p] = MinBuyin, !.committed[p] = 0,
            !.inHand[p] = FALSE, !.allIn[p] = FALSE, !.folded[p] = FALSE]

(* Mutant: the TurnIdx clamp misses the index equal to the new length. *)
LeaveClampOffByOne(s, p) ==
  LET o == Remove(s.order, p) IN
  [s EXCEPT !.order = o, !.turn = IF @ > Len(o) THEN 0 ELSE @,
            !.stack[p] = 0, !.committed[p] = 0, !.inHand[p] = FALSE,
            !.allIn[p] = FALSE, !.folded[p] = FALSE]

(* Leave: delete the seat, remove p from Order, clamp TurnIdx; DealerIdx  *)
(* is left as it is.                                                      *)
Leave(s, p) ==
  LET o == Remove(s.order, p) IN
  [s EXCEPT !.order = o, !.turn = IF @ >= Len(o) THEN 0 ELSE @,
            !.stack[p] = 0, !.committed[p] = 0, !.inHand[p] = FALSE,
            !.allIn[p] = FALSE, !.folded[p] = FALSE]

(* postBlind: a seat with no chips is marked all-in and pays nothing; a   *)
(* short stack pays all it has and is marked all-in.                      *)
PostBlind(s, p, amt) ==
  IF s.stack[p] <= 0
    THEN [s EXCEPT !.allIn[p] = TRUE]
    ELSE [Pay(s, p, IF s.stack[p] < amt THEN s.stack[p] ELSE amt)
            EXCEPT !.allIn[p] = @ \/ s.stack[p] < amt]

Eligible(s, p) == p \in Seated(s) /\ s.inHand[p] /\ ~s.folded[p] /\ ~s.allIn[p]

CountNeedToAct(s) ==
  Quantify(Seated(s), LAMBDA p : Eligible(s, p) /\
                                 (s.currentBet = 0 \/ s.committed[p] < s.currentBet))

RoundClosed(s) ==
  /\ s.handActive
  /\ s.actors <= 0 \/ Quantify(Seated(s), LAMBDA p : Eligible(s, p)) <= 1

(* StartHand: reset every seat, rotate the dealer, post the blinds, turn  *)
(* to UTG, open the preflop round.  Shuffling and dealing are left out.   *)
StartHand(s) ==
  IF NumSeats(s) < 2 THEN Err(s) ELSE
  LET n  == NumSeats(s)
      s1 == [s EXCEPT !.pot = 0, !.committed = [p \in Player |-> 0],
                      !.inHand = [p \in Player |-> p \in Seated(s)],
                      !.folded = [p \in Player |-> FALSE],
                      !.allIn = [p \in Player |-> FALSE],
                      !.handActive = TRUE, !.dealer = (@ + 1) % n]
      sb == (s1.dealer + 1) % n
      bb == (s1.dealer + 2) % n
      s2 == PostBlind(PostBlind(s1, At(s1, sb), SmallBlind), At(s1, bb), BigBlind)
      s3 == [s2 EXCEPT !.turn = (bb + 1) % n, !.phase = "preflop",
                       !.currentBet = BigBlind, !.lastRaise = BigBlind]
  IN  Ok([s3 EXCEPT !.actors = CountNeedToAct(s3)])

(* Mutant: the committed chips of the last street are not cleared. *)
ResetCommittedNoZero(s) ==
  LET s1 == [s EXCEPT !.turn = IF NumSeats(s) = 0 THEN 0 ELSE (s.dealer + 1) % NumSeats(s),
                      !.currentBet = 0, !.lastRaise = BigBlind]
  IN  [s1 EXCEPT !.actors = CountNeedToAct(s1)]

(* resetCommittedAndSetTurnFromDealer: TurnIdx is dealer+1 whether or not *)
(* that seat can act.                                                     *)
ResetCommittedAndSetTurnFromDealer(s) ==
  LET s1 == [s EXCEPT !.committed = [p \in Player |-> 0],
                      !.turn = IF NumSeats(s) = 0 THEN 0 ELSE (s.dealer + 1) % NumSeats(s),
                      !.currentBet = 0, !.lastRaise = BigBlind]
  IN  [s1 EXCEPT !.actors = CountNeedToAct(s1)]

(* AdvancePhase: the board cards it deals are left out. *)
AdvancePhase(s) ==
  CASE s.phase = "river"    -> [s EXCEPT !.phase = "showdown", !.handActive = FALSE]
    [] s.phase = "showdown" -> s
    [] OTHER -> [ResetCommittedAndSetTurnFromDealer(s) EXCEPT !.phase = NextStreet[s.phase]]

(* CurrentPlayer() = p, i.e. ensureTurn(p) succeeds. *)
IsTurn(s, p) == NumSeats(s) > 0 /\ At(s, s.turn) = p

(* advanceTurn: the next seat after TurnIdx that can act; with none, the  *)
(* loop goes all the way round and TurnIdx ends where it started.          *)
AdvanceTurn(s) ==
  IF NumSeats(s) = 0 THEN s ELSE
  LET n == NumSeats(s)
      pos(k) == (s.turn + k) % n
      found == {k \in 1..n : Eligible(s, At(s, pos(k)))}
  IN  [s EXCEPT !.turn = IF found = {} THEN pos(n) ELSE pos(Min(found))]

-----------------------------------------------------------------------------
Bet(s, p, amt) ==
  IF \/ p \notin Seated(s) \/ ~IsTurn(s, p) \/ s.currentBet > 0
     \/ amt < BigBlind \/ amt <= 0 \/ s.stack[p] < amt
    THEN Err(s)
    ELSE LET s1 == Pay(s, p, amt)
             s2 == [s1 EXCEPT !.currentBet = s1.committed[p], !.lastRaise = amt]
         IN  Ok(AdvanceTurn([s2 EXCEPT !.actors = CountNeedToAct(s2)]))

Check(s, p) ==
  IF \/ p \notin Seated(s) \/ ~IsTurn(s, p)
     \/ s.currentBet # 0 /\ s.committed[p] # s.currentBet
    THEN Err(s)
    ELSE Ok(AdvanceTurn([s EXCEPT !.actors = @ - 1]))

Fold(s, p) ==
  IF p \notin Seated(s) \/ ~IsTurn(s, p) THEN Err(s) ELSE
  Ok(AdvanceTurn([s EXCEPT
       !.actors = IF s.currentBet > 0 /\ s.committed[p] < s.currentBet THEN @ - 1 ELSE @,
       !.folded[p] = TRUE, !.inHand[p] = FALSE]))

(* Mutant: a short call pays the whole amount owed, not just the stack. *)
CallPaysNeed(s, p) ==
  LET need == s.currentBet - s.committed[p] IN
  IF \/ p \notin Seated(s) \/ ~IsTurn(s, p) \/ s.currentBet = 0 \/ need <= 0
     \/ s.stack[p] < need /\ s.stack[p] <= 0
    THEN Err(s)
    ELSE Ok(AdvanceTurn([Pay(s, p, need)
                           EXCEPT !.actors = @ - 1,
                                  !.allIn[p] = @ \/ s.stack[p] < need]))

(* Call: a full call, or a short all-in call for the whole stack that     *)
(* changes neither CurrentBet nor LastRaiseSize.                          *)
Call(s, p) ==
  LET need == s.currentBet - s.committed[p] IN
  IF \/ p \notin Seated(s) \/ ~IsTurn(s, p) \/ s.currentBet = 0 \/ need <= 0
     \/ s.stack[p] < need /\ s.stack[p] <= 0
    THEN Err(s)
    ELSE Ok(AdvanceTurn([Pay(s, p, IF s.stack[p] >= need THEN need ELSE s.stack[p])
                           EXCEPT !.actors = @ - 1,
                                  !.allIn[p] = @ \/ s.stack[p] < need]))

(* Mutant: the min-raise check off by one chip. *)
RaiseBelowMin(s, p, add) ==
  LET need  == IF s.committed[p] < s.currentBet THEN s.currentBet - s.committed[p] ELSE 0
      total == need + add
  IN
  IF p \notin Seated(s) \/ ~IsTurn(s, p) \/ s.currentBet = 0 \/ add <= 0 THEN Err(s)
  ELSE IF add >= s.lastRaise - 1 /\ s.stack[p] >= total THEN
    LET s1 == Pay(s, p, total)
        s2 == [s1 EXCEPT !.currentBet = s1.committed[p], !.lastRaise = add]
    IN  Ok(AdvanceTurn([s2 EXCEPT !.actors = CountNeedToAct(s2)]))
  ELSE IF s.stack[p] < total THEN
    LET s1 == Pay(s, p, IF s.stack[p] < need THEN s.stack[p] ELSE need)
        remain == s1.stack[p]
    IN  IF remain <= 0 THEN Err(s1)
        ELSE Ok(AdvanceTurn([Pay(s1, p, remain) EXCEPT
                               !.allIn[p] = TRUE,
                               !.actors = IF need > 0 THEN @ - 1 ELSE @]))
  ELSE Err(s)

(* Raise(add): a full raise reopens the action; a short all-in raise pays *)
(* the call part and shoves the rest without reopening it (the actor's    *)
(* obligation is dropped exactly when it was behind, need > 0).  When the *)
(* call part is the whole stack, the call part stays paid and Raise       *)
(* returns ErrInsufficient.  A non-all-in raise below the minimum fails.  *)
Raise(s, p, add) ==
  LET need  == IF s.committed[p] < s.currentBet THEN s.currentBet - s.committed[p] ELSE 0
      total == need + add
  IN
  IF p \notin Seated(s) \/ ~IsTurn(s, p) \/ s.currentBet = 0 \/ add <= 0 THEN Err(s)
  ELSE IF add >= s.lastRaise /\ s.stack[p] >= total THEN
    LET s1 == Pay(s, p, total)
        s2 == [s1 EXCEPT !.currentBet = s1.committed[p], !.lastRaise = add]
    IN  Ok(AdvanceTurn([s2 EXCEPT !.actors = CountNeedToAct(s2)]))
  ELSE IF s.stack[p] < total THEN
    LET s1 == Pay(s, p, IF s.stack[p] < need THEN s.stack[p] ELSE need)
        remain == s1.stack[p]
    IN  IF remain <= 0 THEN Err(s1)
        ELSE Ok(AdvanceTurn([Pay(s1, p, remain) EXCEPT
                               !.allIn[p] = TRUE,
                               !.actors = IF need > 0 THEN @ - 1 ELSE @]))
  ELSE Err(s)

(* ResolveShowdown: the winners are the contenders (in hand, not folded)  *)
(* with the best hand value; each gets pot / #winners and the remainder   *)
(* goes one chip each to the first winners walking Order from dealer+1.   *)
(* With no contender the pot is simply zeroed.                            *)
ResolveShowdown(s, strong) ==
  LET C == {p \in Seated(s) : s.inHand[p] /\ ~s.folded[p]} IN
  IF C = {} THEN [s EXCEPT !.pot = 0, !.handActive = FALSE] ELSE
  LET W     == IF C \cap strong = {} THEN C ELSE C \cap strong
      per   == s.pot \div Cardinality(W)
      rem   == s.pot % Cardinality(W)
      n     == NumSeats(s)
      start == (s.dealer + 1) % n
      dist(p) == ((CHOOSE i \in 0..(n - 1) : At(s, i) = p) - start) % n
      extra(p) == IF Quantify(W, LAMBDA q : dist(q) < dist(p)) < rem THEN 1 ELSE 0
  IN  [s EXCEPT !.stack = [p \in Player |-> IF p \in W THEN @[p] + per + extra(p) ELSE @[p]],
                !.pot = 0, !.handActive = FALSE]

-----------------------------------------------------------------------------
(* dealerTag and dealerOf index Order[DealerIdx] whenever Order is        *)
(* non-empty, so every announcement after apply's switch panics once     *)
(* DealerIdx is out of range.                                             *)
AnnouncePanics(s) == NumSeats(s) > 0 /\ s.dealer >= NumSeats(s)

(* apply, RAISE: the amount is the total to raise to; at or below the     *)
(* current bet it is a call, otherwise a Raise by what is left after the  *)
(* call part.                                                             *)
RaiseTo(s, p, to) ==
  IF p \notin Seated(s) THEN Err(s)
  ELSE IF to <= s.currentBet THEN Call(s, p)
  ELSE IF to - s.committed[p] <= 0 THEN Ok(s)
  ELSE LET needCall == IF s.committed[p] < s.currentBet
                         THEN s.currentBet - s.committed[p] ELSE 0
           raiseBy  == to - s.committed[p] - needCall
       IN  IF raiseBy <= 0 THEN Call(s, p) ELSE Raise(s, p, raiseBy)

(* apply, ADVANCE_PHASE: AdvancePhase, and on reaching showdown the       *)
(* authority commits a SHOWDOWN, which applies ResolveShowdown.           *)
ApplyAdvance(s, strong) ==
  LET s1 == AdvancePhase(s) IN
  IF s1.phase = "showdown" THEN ResolveShowdown(s1, strong) ELSE s1

(* The switch of apply: the state it leaves, whether it stops before the  *)
(* tail (an engine error, or JOIN of a seated player), and whether it     *)
(* announces the turn, the phase or the hand start.  BET with a live bet  *)
(* is re-applied as RAISE.  KICK applies Leave to its target.             *)
Dispatch(s, a, strong) ==
  LET with(r, ann) == [st |-> r.st, err |-> r.err, announce |-> ann /\ ~r.err] IN
  CASE a.type = "JOIN" ->
         IF a.p \in Seated(s) THEN with(Err(s), FALSE) ELSE with(Ok(Sit(s, a.p)), FALSE)
    [] a.type \in {"LEAVE", "KICK"} -> with(Ok(Leave(s, a.p)), TRUE)
    [] a.type = "START_HAND" -> with(StartHand(s), TRUE)
    [] a.type = "CHECK" -> with(Check(s, a.p), TRUE)
    [] a.type = "FOLD"  -> with(Fold(s, a.p), TRUE)
    [] a.type = "CALL"  -> with(Call(s, a.p), FALSE)
    [] a.type = "RAISE" -> with(RaiseTo(s, a.p, a.amt), FALSE)
    [] a.type = "BET" ->
         with(IF s.currentBet = 0 THEN Bet(s, a.p, a.amt) ELSE RaiseTo(s, a.p, a.amt), FALSE)
    [] a.type = "ADVANCE_PHASE" -> with(Ok(ApplyAdvance(s, strong)), TRUE)

(* apply on the authority: the switch, the announcements, then the auto   *)
(* ADVANCE_PHASE when the round has closed (not after an ADVANCE_PHASE),  *)
(* whose own announcement may panic as well.                              *)
Apply(s, a, strong) ==
  LET r == Dispatch(s, a, strong) IN
  CASE r.err -> [st |-> r.st, crash |-> FALSE]
    [] r.announce /\ AnnouncePanics(r.st) -> [st |-> r.st, crash |-> TRUE]
    [] RoundClosed(r.st) /\ a.type # "ADVANCE_PHASE" ->
         LET s2 == ApplyAdvance(r.st, strong) IN [st |-> s2, crash |-> AnnouncePanics(s2)]
    [] OTHER -> [st |-> r.st, crash |-> FALSE]

(* Chips that enter or leave the table with a command: a new seat's      *)
(* buy-in, a leaver's stack, and the pot StartHand resets.                *)
(* A command from the REPL (main.go) committed by the authority and       *)
(* applied.  A panic ends the process: nothing happens after it.          *)
Commit(a) ==
  /\ ~crashed
  /\ a.type = "JOIN" => joins < MaxJoins
  /\ a.type = "START_HAND" => hands < MaxHands
  /\ \E strong \in SUBSET Player :
       LET r == Apply(eng, a, strong) IN
       /\ r.st.actors >= MinActorsToAct
       /\ eng' = r.st
       /\ crashed' = r.crash
  /\ joins' = IF a.type = "JOIN" THEN joins + 1 ELSE joins
  /\ hands' = IF a.type = "START_HAND" THEN hands + 1 ELSE hands

Cmd(type, p, amt) == [type |-> type, p |-> p, amt |-> amt]

Init ==
  /\ eng = NewState
  /\ crashed = FALSE
  /\ joins = 0
  /\ hands = 0

Next ==
  \/ \E p \in Player : Commit(Cmd("JOIN", p, 0))
  \/ \E p \in Player : Commit(Cmd("LEAVE", p, 0))
  \/ Commit(Cmd("START_HAND", 0, 0))
  \/ \E p \in Player : Commit(Cmd("CHECK", p, 0))
  \/ \E p \in Player : Commit(Cmd("FOLD", p, 0))
  \/ \E p \in Player : Commit(Cmd("CALL", p, 0))
  \/ \E p \in Player, x \in Amounts : Commit(Cmd("BET", p, x))
  \/ \E p \in Player, x \in Amounts : Commit(Cmd("RAISE", p, x))
  \/ Commit(Cmd("ADVANCE_PHASE", 0, 0))

Spec == Init /\ [][Next]_vars

-----------------------------------------------------------------------------
TypeOK ==
  /\ eng.order \in Seq(Player)
  /\ eng.phase \in Phases
  /\ eng.stack \in [Player -> Nat] /\ eng.committed \in [Player -> Nat]
  /\ eng.pot \in Nat /\ eng.currentBet \in Nat /\ eng.actors \in Int
  /\ eng.inHand \in [Player -> BOOLEAN] /\ eng.allIn \in [Player -> BOOLEAN]
  /\ eng.folded \in [Player -> BOOLEAN] /\ eng.handActive \in BOOLEAN
  /\ crashed \in BOOLEAN

(* CurrentPlayer indexes Order[TurnIdx]: TurnIdx stays inside Order      *)
(* through seats joining (Order grows and is re-sorted), seats leaving    *)
(* (Leave's clamp), hand starts and street resets.                        *)
TurnIdxInRange ==
  NumSeats(eng) > 0 => eng.turn \in 0..(NumSeats(eng) - 1)

(* Spec invariant 4: no seat that is not all-in has committed more than  *)
(* the current bet.  Bites where CurrentBet is reset (a new street, a new *)
(* hand) or left alone (a short all-in raise, a short call).             *)
BetBar ==
  \A p \in Seated(eng) : ~eng.allIn[p] => eng.committed[p] <= eng.currentBet

(* Spec 4.3 (raise) and the boundary rule of section 8: within a street  *)
(* bar only rises by a full raise -- by at least LastRaiseSize, which     *)
(* then becomes the increment -- so neither a raise one chip short nor a  *)
(* short all-in (Raise's and Call's all-in paths) ever moves CurrentBet.  *)
MinRaiseHolds ==
  [][ eng.handActive /\ eng'.handActive /\ eng'.phase = eng.phase
      /\ eng.currentBet > 0 /\ eng'.currentBet > eng.currentBet
      => /\ eng'.currentBet - eng.currentBet >= eng.lastRaise
         /\ eng'.lastRaise = eng'.currentBet - eng.currentBet ]_eng

(* No announcement after apply panics: DealerIdx stays inside Order      *)
(* whenever dealerTag or dealerOf reads it.                               *)
NoPanic == ~crashed

(* Scenario 1 of the spec: when all but one contender have folded, the   *)
(* hand ends (the last one takes the pot).                               *)
HandEndsWithOneContender ==
  eng.handActive => Quantify(Seated(eng), LAMBDA p : eng.inHand[p] /\ ~eng.folded[p]) >= 2
=============================================================================
