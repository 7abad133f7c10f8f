------------------------------ MODULE HandEval ------------------------------
(***************************************************************************)
(* Hand evaluation of the engine (src/unnamed/part_002, BestHand7 and its  *)
(* helpers; the eval.go of the package): the best five-card value of a     *)
(* board and two hole cards, and the five cards that make it.              *)
(*                                                                         *)
(* The cards reach the evaluator the way a hand deals them (StartHand      *)
(* deals the holes, AdvancePhase the flop, turn and river), from a deck    *)
(* restricted to the ranks Ranks and the suits Suits.  Within one deal the *)
(* cards come in increasing deck order: the value does not depend on the  *)
(* order, so one order per set of cards is enough.                        *)
(*                                                                         *)
(* The rank bitsets of the code (present, suitBits) are sets of ranks.     *)
(* The code's results are checked against a reference written from the    *)
(* spec's hand ranking: the best value over every five-card subset.       *)
(***************************************************************************)
EXTENDS Integers, Sequences, SequencesExt

CONSTANTS
  Ranks,    \* ranks in the deck, a subset of 2..14 (14 is the ace)
  Suits     \* suits in the deck, a subset of 0..3 (clubs .. spades)

ASSUME Ranks \subseteq 2..14 /\ Suits \subseteq 0..3

Deck == [rank : Ranks, suit : Suits]

\* Category constants, CatHighCard .. CatStraightFlush.
CatHighCard == 0
CatOnePair == 1
CatTwoPair == 2
CatTrips == 3
CatStraight == 4
CatFlush == 5
CatFullHouse == 6
CatQuads == 7
CatStraightFlush == 8

\* The zero Card the code leaves in an unfilled slot of [5]Card.
ZeroCard == [rank |-> 0, suit |-> 0]

VARIABLES
  board,    \* s.Board
  holes     \* s.Holes[p] of the player evaluated

vars == <<board, holes>>

Cards(seq) == {seq[i] : i \in DOMAIN seq}

\* The elements of S in the order of the strict total order before: the
\* element at i has i-1 elements before it.
SortedBy(S, before(_, _)) ==
  [i \in 1..Cardinality(S) |-> CHOOSE x \in S : Cardinality({y \in S : before(y, x)}) = i - 1]

-----------------------------------------------------------------------------
(* BestHand7 and its helpers *)

\* fill(cat, ks...): the kickers, padded with zero ranks to five.
Fill(cat, ks) == [cat |-> cat, ranks |-> [i \in 1..5 |-> IF i <= Len(ks) THEN ks[i] ELSE 0]]

RankCount(all, r) == Cardinality({i \in DOMAIN all : all[i].rank = r})
SuitCount(all, s) == Cardinality({i \in DOMAIN all : all[i].suit = s})

\* present / suitBits: the ranks the cards have.
RankBits(cards) == {cards[i].rank : i \in DOMAIN cards}

\* straightTop: the wheel mask is tested first; otherwise the scan from the
\* ace down returns the top of the highest run of five ranks.
StraightTop(bits) ==
  IF {14, 5, 4, 3, 2} \subseteq bits THEN 5
  ELSE LET tops == {t \in 6..14 : t - 4 .. t \subseteq bits}
       IN IF tops = {} THEN 0 ELSE Max(tops)

\* groups: one per present rank, sorted by count, then rank, descending.
Groups(all) ==
  SortedBy({[rank |-> r, cnt |-> RankCount(all, r)] : r \in RankBits(all)},
               LAMBDA g, h : g.cnt > h.cnt \/ (g.cnt = h.cnt /\ g.rank > h.rank))

\* flushSuit: the first suit with five cards or more, or -1.
FlushSuit(all) ==
  LET fs == {s \in Suits : SuitCount(all, s) >= 5} IN IF fs = {} THEN -1 ELSE Min(fs)

\* highestExcept, topKicker, topKickers, topKickers3, topNRanks: the n
\* highest present ranks outside ex, from the ace down, padded with 0.
TopRanks(all, n, ex) ==
  LET rs == SortedBy(RankBits(all) \ ex, >)
  IN [i \in 1..n |-> IF i <= Len(rs) THEN rs[i] ELSE 0]

\* collectOfRank: the first want cards of rank r, in input order.
CollectOfRank(all, r, want) ==
  LET cs == SelectSeq(all, LAMBDA c : c.rank = r)
  IN SubSeq(cs, 1, IF want < Len(cs) THEN want ELSE Len(cs))

\* kickerCard: the card of rank r with the highest suit, or the zero Card.
KickerCard(all, r) ==
  LET cs == {c \in Cards(all) : c.rank = r}
  IN IF cs = {} THEN ZeroCard ELSE CHOOSE c \in cs : \A d \in cs : d.suit <= c.suit

\* Mutant: pickStraight without the wheel case (need = top .. top-4).
PickStraightNoWheel(all, top) ==
  LET need  == [i \in 1..5 |-> top + 1 - i]
      found == SelectSeq(need, LAMBDA w : \E i \in DOMAIN all : all[i].rank = w)
  IN [i \in 1..5 |-> IF i <= Len(found) THEN KickerCard(all, found[i]) ELSE ZeroCard]

\* pickStraight: for each rank the straight needs, the highest-suit card of
\* that rank; a rank not found leaves a zero Card at the end.
PickStraight(all, top) ==
  LET need  == IF top = 5 THEN <<5, 4, 3, 2, 14>> ELSE [i \in 1..5 |-> top + 1 - i]
      found == SelectSeq(need, LAMBDA w : \E i \in DOMAIN all : all[i].rank = w)
  IN [i \in 1..5 |-> IF i <= Len(found) THEN KickerCard(all, found[i]) ELSE ZeroCard]

\* Mutant: the full-house search takes only an exact pair, not a second trips.
PairOrTripExactPair(groups) ==
  LET is == {i \in 2..Len(groups) : groups[i].cnt = 2}
  IN IF is = {} THEN 0 ELSE groups[Min(is)].rank

\* The full-house search: the first later group with two cards or more.
PairOrTrip(groups) ==
  LET is == {i \in 2..Len(groups) : groups[i].cnt >= 2}
  IN IF is = {} THEN 0 ELSE groups[Min(is)].rank

Result(val, five) == [val |-> val, five |-> five]

\* BestHand7(board, holes): the checks in the code's order, each an early
\* return.
BestHand7(b, h) ==
  LET all == b \o h
      gs  == Groups(all)
      ng  == Len(gs)
      fs  == FlushSuit(all)
      suited == SelectSeq(all, LAMBDA c : c.suit = fs)
      sfTop  == StraightTop(RankBits(suited))
      flush5 == SubSeq(SortedBy(Cards(suited), LAMBDA c, d : c.rank > d.rank), 1, 5)
      pot    == IF ng > 1 THEN PairOrTrip(gs) ELSE 0
      top    == StraightTop(RankBits(all))
  IN
  IF fs >= 0 /\ sfTop # 0 THEN
    Result(Fill(CatStraightFlush, <<sfTop>>), PickStraight(suited, sfTop))
  ELSE IF fs >= 0 THEN
    Result(Fill(CatFlush, [i \in 1..5 |-> flush5[i].rank]), flush5)
  ELSE IF ng > 0 /\ gs[1].cnt = 4 THEN
    LET k == TopRanks(all, 1, {gs[1].rank})[1]
    IN Result(Fill(CatQuads, <<gs[1].rank, k>>),
              CollectOfRank(all, gs[1].rank, 4) \o <<KickerCard(all, k)>>)
  ELSE IF ng > 1 /\ gs[1].cnt = 3 /\ pot # 0 THEN
    Result(Fill(CatFullHouse, <<gs[1].rank, pot>>),
           CollectOfRank(all, gs[1].rank, 3) \o CollectOfRank(all, pot, 2))
  ELSE IF top # 0 THEN
    Result(Fill(CatStraight, <<top>>), PickStraight(all, top))
  ELSE IF ng > 0 /\ gs[1].cnt = 3 THEN
    LET ks == TopRanks(all, 2, {gs[1].rank})
    IN Result(Fill(CatTrips, <<gs[1].rank, ks[1], ks[2]>>),
              CollectOfRank(all, gs[1].rank, 3) \o <<KickerCard(all, ks[1]), KickerCard(all, ks[2])>>)
  ELSE IF ng > 1 /\ gs[1].cnt = 2 /\ gs[2].cnt = 2 THEN
    LET k == TopRanks(all, 1, {gs[1].rank, gs[2].rank})[1]
    IN Result(Fill(CatTwoPair, <<gs[1].rank, gs[2].rank, k>>),
              CollectOfRank(all, gs[1].rank, 2) \o CollectOfRank(all, gs[2].rank, 2)
                \o <<KickerCard(all, k)>>)
  ELSE IF ng > 0 /\ gs[1].cnt = 2 THEN
    LET ks == TopRanks(all, 3, {gs[1].rank})
    IN Result(Fill(CatOnePair, <<gs[1].rank, ks[1], ks[2], ks[3]>>),
              CollectOfRank(all, gs[1].rank, 2) \o [i \in 1..3 |-> KickerCard(all, ks[i])])
  ELSE
    LET hi == TopRanks(all, 5, {})
    IN Result(Fill(CatHighCard, hi), [i \in 1..5 |-> KickerCard(all, hi[i])])

-----------------------------------------------------------------------------
(* Dealing: StartHand deals two holes, AdvancePhase the flop (three cards), *)
(* the turn and the river (one each), from the top of the deck.           *)

Key(c) == c.rank * 4 + c.suit

\* The next cards come after every card dealt so far.
Fresh(cs) ==
  /\ cs \subseteq Deck
  /\ \A c \in cs, d \in Cards(board) \cup Cards(holes) : Key(c) > Key(d)

DealHoles ==
  /\ holes = <<>>
  /\ \E c1, c2 \in Deck :
       /\ Key(c1) < Key(c2)
       /\ holes' = <<c1, c2>>
  /\ UNCHANGED board

DealFlop ==
  /\ Len(holes) = 2 /\ board = <<>>
  /\ \E c1, c2, c3 \in Deck :
       /\ Key(c1) < Key(c2) /\ Key(c2) < Key(c3) /\ Fresh({c1})
       /\ board' = <<c1, c2, c3>>
  /\ UNCHANGED holes

DealTurnOrRiver ==
  /\ Len(board) \in {3, 4}
  /\ \E c \in Deck : Fresh({c}) /\ board' = Append(board, c)
  /\ UNCHANGED holes

Init == board = <<>> /\ holes = <<>>

Next == DealHoles \/ DealFlop \/ DealTurnOrRiver

Spec == Init /\ [][Next]_vars

-----------------------------------------------------------------------------
(* Reference, from the spec's hand ranking: a five-card hand's category   *)
(* and its ranks by multiplicity, then rank, descending (a straight by its *)
(* top card, the wheel A-2-3-4-5 as 5-high); the best of seven cards is   *)
(* the best of their five-card subsets, compared by category, then kicker *)
(* vector.                                                                *)

\* The top card of a five-card straight, 0 if the ranks are no straight.
RefTop(rs) ==
  IF rs = {14, 2, 3, 4, 5} THEN 5
  ELSE IF Cardinality(rs) = 5 /\ Max(rs) - Min(rs) = 4 THEN Max(rs) ELSE 0

\* The category of five cards: by flush, straight, and how many distinct
\* ranks there are and how often the commonest occurs.
RefCat5(S) ==
  LET rs    == {c.rank : c \in S}
      most  == Max({Cardinality({c \in S : c.rank = r}) : r \in rs})
      flush == Cardinality({c.suit : c \in S}) = 1
      top   == RefTop(rs)
  IN CASE flush /\ top # 0                      -> CatStraightFlush
       [] most = 4                              -> CatQuads
       [] most = 3 /\ Cardinality(rs) = 2       -> CatFullHouse
       [] flush                                 -> CatFlush
       [] top # 0                               -> CatStraight
       [] most = 3                              -> CatTrips
       [] most = 2 /\ Cardinality(rs) = 3       -> CatTwoPair
       [] most = 2                              -> CatOnePair
       [] OTHER                                 -> CatHighCard

\* The value of five cards: a straight by its top card, otherwise its
\* ranks by multiplicity, then rank, descending.
RefValue5(S) ==
  LET rs     == {c.rank : c \in S}
      cnt(r) == Cardinality({c \in S : c.rank = r})
      top    == RefTop(rs)
      byCnt  == SortedBy(rs, LAMBDA a, b : cnt(a) > cnt(b) \/ (cnt(a) = cnt(b) /\ a > b))
  IN [cat   |-> RefCat5(S),
      ranks |-> [i \in 1..5 |-> IF top # 0 THEN IF i = 1 THEN top ELSE 0
                               ELSE IF i <= Len(byCnt) THEN byCnt[i] ELSE 0]]

\* HandValue.Less: category first, then the ranks in order.
Less(a, b) ==
  \/ a.cat < b.cat
  \/ /\ a.cat = b.cat
     /\ \E i \in 1..5 : a.ranks[i] < b.ranks[i] /\ \A j \in 1..(i - 1) : a.ranks[j] = b.ranks[j]

\* The five-card subsets of seven cards: all but two of them.
Fives(cards) ==
  {cards \ p : p \in {{a, b} : a, b \in cards} \ {{a} : a \in cards}}

RefBest7(cards) ==
  LET vals == {RefValue5(S) : S \in Fives(cards)}
  IN CHOOSE v \in vals : \A w \in vals : ~Less(v, w)

Dealt == Len(board) = 5 /\ Len(holes) = 2

-----------------------------------------------------------------------------
(* Spec 4.2 and 8: BestHand7 classifies every seven cards in the category *)
(* of their best five-card hand -- through the flush-first order of the   *)
(* checks, the wheel, straight flushes within the flush suit, two trips   *)
(* making a full house and three pairs making two pair.                   *)
CategoryMatchesReference ==
  Dealt => BestHand7(board, holes).val.cat = Max({RefCat5(S) : S \in Fives(Cards(board) \cup Cards(holes))})

(* Spec 4.2 ("plus the five chosen cards"): the five cards BestHand7      *)
(* returns are five distinct cards of the seven, and they alone are worth *)
(* the value it returns (collectOfRank, kickerCard, pickStraight).        *)
FiveCardsMakeTheValue ==
  Dealt =>
    LET r == BestHand7(board, holes)
        five == Cards(r.five)
    IN /\ Len(r.five) = 5 /\ Cardinality(five) = 5
       /\ five \subseteq Cards(board) \cup Cards(holes)
       /\ RefValue5(five) = r.val

(* Spec 4.2: BestHand7 returns the value of the best five-card hand of    *)
(* the seven, kicker vector included, so that ResolveShowdown's Less      *)
(* picks the right winners.                                               *)
ValueMatchesReference ==
  Dealt => BestHand7(board, holes).val = RefBest7(Cards(board) \cup Cards(holes))
=============================================================================
