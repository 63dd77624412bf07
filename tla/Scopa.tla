------------------------------- MODULE Scopa -------------------------------
(***************************************************************************)
(* Scopa, a person against the bot, in the native client (scopa_game.cpp). *)
(* The main loop handles the taps that have come, then runs updateApp and  *)
(* draws: one action per tap, and one frame for the rest.  A tap meets the *)
(* rectangles of the last frame drawn.                                     *)
(*                                                                         *)
(* A deck is in the order in which it is dealt, a pile is a set.           *)
(* Durations are counted in frames of a coarse clock.  Leaving for the     *)
(* lobby ends the program; sound and drawing change nothing.               *)
(***************************************************************************)
EXTENDS Integers, SequencesExt

CONSTANTS
    Shuffles,       \* the orders a deck may have: those of 0..39 in the code
    HandCards,      \* cards dealt to each at a time: 3
    TableCards,     \* cards turned up at the start of a round: 4
    Target,         \* kMatchTargetScore
    DealTime, PlaceTime, CaptureTime, PauseTime, HandPause, NextHandTime, BotTime,
    MenuUsed,       \* bound: whether the menu is used
    MaxRounds       \* bound: rounds of a match

ASSUME ScopaAssumption ==
    /\ HandCards \in Nat \ {0} /\ TableCards \in Nat
    /\ \A s \in Shuffles :
          /\ s \in Seq(0..39) /\ IsInjective(s)
          /\ \E n \in 1..20 : Len(s) = TableCards + 2 * HandCards * n
          /\ \A t \in Shuffles : ToSet(t) = ToSet(s)
    /\ {DealTime, PlaceTime, CaptureTime, PauseTime, HandPause, BotTime, MaxRounds, Target} \subseteq Nat \ {0}
    /\ NextHandTime \in Nat /\ NextHandTime >= PauseTime
    /\ MenuUsed \in BOOLEAN

VARIABLES
    game,           \* GameState
    dealing,        \* frames until the cards dealt have landed
    flights,        \* frames until those played have
    pause,          \* pauseForEffectTimer
    pending,        \* pendingHandDealTimer (0: no hand is to be dealt)
    botDelay,
    menuOpen,
    drawn           \* options offered in the last frame drawn

vars == <<game, dealing, flights, pause, pending, botDelay, menuOpen, drawn>>

Deck == UNION {ToSet(s) : s \in Shuffles}
Players == {0, 1}       \* the person, the bot
Nobody == -1
Phases == {"InitRound", "PlayerTurn", "PlayerChooseCapture", "BotTurn", "RoundSummary", "MatchOver"}
Larger(a, b) == IF a > b THEN a ELSE b
-----------------------------------------------------------------------------
(* Cards *)

Denari == 0
Settebello == 24
Suit(c) == c % 4
Value(c) == c \div 4 + 1
PrimieraValue(c) == <<16, 12, 13, 14, 15, 18, 21, 10, 10, 10>>[Value(c)]

SumOf(F(_), S) == Cardinality(UNION {{x} \X (1..F(x)) : x \in S})     \* counted one by one
CardsAt(t, option) == {t[i] : i \in option}
OfSuit(cards, s) == {c \in cards : Suit(c) = s}

\* Slip: the last card of a sum is skipped.
SumsShort(c, t) ==
    {o \in SUBSET DOMAIN t : o # {} /\ SumOf(LAMBDA i : Value(t[i]), o) = Value(c) - 1}

\* The search through the table: sets of places with what they leave of the value played.
Sums(c, t) ==
    LET found[i \in 0..Len(t)] ==
            IF i = 0 THEN {<<{}, Value(c)>>}
            ELSE found[i - 1] \cup {<<f[1] \cup {i}, f[2] - Value(t[i])>> :
                                       f \in {f \in found[i - 1] : f[2] >= Value(t[i])}}
    IN {f[1] : f \in {f \in found[Len(t)] : f[2] = 0}}

Singles(c, t) == {{i} : i \in {j \in DOMAIN t : Value(t[j]) = Value(c)}}

\* Slip: a sum may be taken although one card would do.
OptionsBySum(c, t) == Sums(c, t)

\* getCaptureOptions: sets of places on the table.
CaptureOptions(c, t) == IF Singles(c, t) # {} THEN Singles(c, t) ELSE Sums(c, t)

\* primieraScore; 0 without all four suits.
PrimieraScore(pile) ==
    IF \A s \in 0..3 : OfSuit(pile, s) # {}
    THEN SumOf(LAMBDA s : Max({PrimieraValue(c) : c \in OfSuit(pile, s)}), 0..3)
    ELSE 0
-----------------------------------------------------------------------------
(* Rounds: operators from a GameState to the next *)

Turn(p) == IF p = 0 THEN "PlayerTurn" ELSE "BotTurn"
Starter(g) == g.round % 2
FinalPlay(g) == g.deck = <<>> /\ Len(g.hand[0]) + Len(g.hand[1]) = 1

DropFirst(n, s) == SubSeq(s, n + 1, Len(s))
First(n, s) == SubSeq(s, 1, n)

\* sortHand: by value, then by suit.
Sorted(hand) ==
    CHOOSE s \in [DOMAIN hand -> ToSet(hand)] :
        \A i, j \in DOMAIN hand : i < j => s[i] < s[j]

\* dealNextHands: three cards to the person, then three to the bot.
HandsDealt(g) ==
    [g EXCEPT !.deck = DropFirst(2 * HandCards, @),
              !.hand = [p \in Players |->
                          Sorted(First(HandCards, DropFirst(HandCards * p, g.deck)))]]

\* pushInitialTable.
TableDealt(g) ==
    [g EXCEPT !.deck = DropFirst(TableCards, @), !.table = First(TableCards, g.deck)]

\* startRound, for a GameState whose round number and match scores are set.
RoundStarted(g) ==
    {TableDealt(HandsDealt(
        [g EXCEPT !.deck = s, !.pile = [p \in Players |-> {}], !.scope = [p \in Players |-> 0],
                  !.lastCapturer = Nobody, !.turn = Starter(g), !.phase = Turn(Starter(g)),
                  !.selected = 0, !.captures = {}, !.winner = Nobody])) : s \in Shuffles}

NewMatch == [deck |-> <<>>, table |-> <<>>, hand |-> [p \in Players |-> <<>>],
             pile |-> [p \in Players |-> {}], scope |-> [p \in Players |-> 0],
             score |-> [p \in Players |-> 0], phase |-> "InitRound", turn |-> 0,
             lastCapturer |-> Nobody, round |-> 1, selected |-> 0, captures |-> {},
             winner |-> Nobody]

\* Who has more gets the point.
PointFor(p, F(_)) == IF F(p) > F(1 - p) THEN 1 ELSE 0

\* scoreRound.
Points(g, p) ==
    PointFor(p, LAMBDA q : Cardinality(g.pile[q]))
    + PointFor(p, LAMBDA q : Cardinality(OfSuit(g.pile[q], Denari)))
    + (IF Settebello \in g.pile[p] THEN 1 ELSE 0)
    + PointFor(p, LAMBDA q : PrimieraScore(g.pile[q]))
    + g.scope[p]

\* Slip: what is left on the table stays there.
NotSwept(g) == g

\* Slip: it goes to whoever played last.
SweptByLastPlayer(g) ==
    [g EXCEPT !.pile[1 - g.turn] = @ \cup ToSet(g.table), !.table = <<>>]

Swept(g) ==
    IF g.lastCapturer = Nobody THEN g
    ELSE [g EXCEPT !.pile[g.lastCapturer] = @ \cup ToSet(g.table), !.table = <<>>]

\* finalizeRound.
Finalized(g) ==
    LET s == Swept(g)
        score == [p \in Players |-> g.score[p] + Points(s, p)]
        leads(p) == score[p] >= Target /\ score[p] > score[1 - p]
    IN [s EXCEPT !.score = score,
                 !.phase = IF \E p \in Players : leads(p) THEN "MatchOver" ELSE "RoundSummary",
                 !.winner = IF \E p \in Players : leads(p)
                            THEN CHOOSE p \in Players : leads(p) ELSE Nobody]

\* Slip: the options of the card played stay.
NotCleared(g) == g
Cleared(g) == [g EXCEPT !.selected = 0, !.captures = {}]

\* updatePhaseAfterTurn.
AfterTurn(g) ==
    LET c == Cleared(g)
    IN IF \E p \in Players : g.hand[p] # <<>> THEN [c EXCEPT !.phase = Turn(g.turn)]
       ELSE IF g.deck # <<>> THEN [c EXCEPT !.phase = "InitRound"]
       ELSE Finalized(c)

\* Slip: the cards captured are taken off the table from the first to the last.
AscendingErased(t, option) ==
    FoldLeft(LAMBDA left, i : IF i \in DOMAIN left THEN RemoveAt(left, i) ELSE left,
             t, SetToSortSeq(option, <))
Erased(t, option) ==
    LET left[i \in 1..(Len(t) + 1)] ==
            IF i > Len(t) THEN t
            ELSE IF i \in option THEN RemoveAt(left[i + 1], i) ELSE left[i + 1]
    IN left[1]

\* Slip: the turn does not pass.
SameAgain(p) == p
Other(p) == 1 - p

\* applyMove: card i of p captures the cards of the option, or none and goes on the table.
\* The code sorts the hands again; they are sorted already, and losing a card keeps them so.
Played(g, p, i, option) ==
    LET c == g.hand[p][i]
        captures == option # {}
        table == IF captures THEN Erased(g.table, option) ELSE Append(g.table, c)
        taken == IF captures THEN {c} \cup CardsAt(g.table, option) ELSE {}
    IN [g EXCEPT
           !.hand[p] = RemoveAt(@, i), !.table = table, !.pile[p] = @ \cup taken,
           !.scope[p] = @ + (IF captures /\ table = <<>> /\ ~FinalPlay(g) THEN 1 ELSE 0),
           !.lastCapturer = IF captures THEN p ELSE @,
           !.turn = Other(p)]

Moved(g, p, i, option) == AfterTurn(Played(g, p, i, option))
-----------------------------------------------------------------------------
(* The bot *)

\* Slip: many cards outweigh a card of denari.
HeavyCard == 3400
CardWeight == 340

\* buildCaptureOption and chooseBotMove: what a capture is worth.
CaptureWorth(g, c, option) ==
    LET cards == {c} \cup CardsAt(g.table, option)
    IN (IF Cardinality(option) = Len(g.table) /\ ~FinalPlay(g) THEN 100000 ELSE 0)
       + (IF Settebello \in cards THEN 50000 ELSE 0)
       + 2800 * Cardinality(OfSuit(cards, Denari)) + CardWeight * Cardinality(cards)
       + 9 * SumOf(PrimieraValue, cards)
       + (IF Suit(c) = Denari THEN 140 ELSE 0) + (IF Value(c) = 7 THEN 100 ELSE 0)

\* discardRiskScore.
DiscardRisk(g, c) ==
    (IF Suit(c) = Denari THEN 320 ELSE 0) + (IF Value(c) = 7 THEN 440 ELSE 0)
    + 6 * PrimieraValue(c)
    + (IF Len(g.table) <= 1 THEN 180 ELSE 0) + (IF g.table = <<>> THEN 120 ELSE 0)

MoveWorth(g, m) == LET c == g.hand[1][m.card]
                   IN IF m.option = {} THEN -DiscardRisk(g, c) ELSE CaptureWorth(g, c, m.option)

\* Every move the bot weighs: a card put down only where it captures nothing.
Moves(g, p) ==
    UNION {LET options == CaptureOptions(g.hand[p][i], g.table)
           IN {[card |-> i, option |-> o] : o \in IF options = {} THEN {{}} ELSE options} :
           i \in DOMAIN g.hand[p]}

\* Of equals the code takes the first in an order of labels.
BotMoves(g) ==
    LET moves == Moves(g, 1)
        best == Max({MoveWorth(g, m) : m \in moves})
    IN {m \in moves : MoveWorth(g, m) = best}
-----------------------------------------------------------------------------
(* Moves and rounds in time *)

\* Slip: pendingHandDeal is not set.
NoNextHand(g) == 0
NextHandDelay(g) == IF g.phase = "InitRound" THEN NextHandTime ELSE 0

\* applyMove by p when flights and pause stand at the values given.
ApplyMove(p, i, option, flying, paused) ==
    LET g == Moved(game, p, i, option)
    IN /\ game' = g
       /\ flights' = Larger(flying, IF option = {} THEN PlaceTime ELSE CaptureTime)
       /\ pause' = Max({paused, IF option = {} THEN 0 ELSE PauseTime,
                        IF g.phase = "InitRound" THEN HandPause ELSE 0})
       /\ pending' = NextHandDelay(g)
       /\ botDelay' = IF g.phase = "BotTurn" THEN BotTime ELSE 0

StartRound(g) ==
    /\ game' \in RoundStarted(g)
    /\ dealing' = DealTime
    /\ botDelay' = IF Starter(g) = 1 THEN BotTime ELSE 0
    /\ UNCHANGED <<flights, pause, pending, drawn>>
-----------------------------------------------------------------------------
(* Taps *)

\* handlePointerUp: which taps get to the table.
OnTurn == game.phase \in {"PlayerTurn", "PlayerChooseCapture"}

OpenMenu ==
    /\ MenuUsed /\ OnTurn
    /\ ~menuOpen
    /\ menuOpen' = TRUE
    /\ UNCHANGED <<game, dealing, flights, pause, pending, botDelay, drawn>>

CloseMenu ==
    /\ OnTurn
    /\ menuOpen
    /\ menuOpen' = FALSE
    /\ UNCHANGED <<game, dealing, flights, pause, pending, botDelay, drawn>>

MenuNewGame ==
    /\ OnTurn
    /\ menuOpen
    /\ menuOpen' = FALSE
    /\ StartRound(NewMatch)

CardsHear == ~menuOpen /\ dealing = 0 /\ flights = 0 /\ pause = 0 /\ pending = 0

\* A tap on card i: taken back if it is the one selected, else choosePlayerCard.
TapCard(i) ==
    LET options == CaptureOptions(game.hand[0][i], game.table)
    IN /\ OnTurn /\ CardsHear
       /\ i \in DOMAIN game.hand[0]
       /\ \/ /\ game.phase = "PlayerChooseCapture" /\ game.selected = i
             /\ game' = [game EXCEPT !.phase = "PlayerTurn", !.selected = 0, !.captures = {}]
             /\ UNCHANGED <<flights, pause, pending, botDelay>>
          \/ /\ game.phase = "PlayerTurn" \/ game.selected # i
             /\ Cardinality(options) > 1
             /\ game' = [game EXCEPT !.phase = "PlayerChooseCapture", !.selected = i,
                                     !.captures = options]
             /\ UNCHANGED <<flights, pause, pending, botDelay>>
          \/ /\ game.phase = "PlayerTurn" \/ game.selected # i
             /\ Cardinality(options) <= 1
             /\ ApplyMove(0, i, UNION options, flights, pause)
       /\ UNCHANGED <<dealing, menuOpen, drawn>>

\* A tap on one of the options drawn; beyond those the card now selected has, it counts as none.
TapCapture ==
    /\ OnTurn /\ CardsHear
    /\ game.phase = "PlayerChooseCapture"
    /\ \E k \in 1..drawn :
          \E option \in IF k <= Cardinality(game.captures) THEN game.captures ELSE {{}} :
              ApplyMove(0, game.selected, option, flights, pause)
    /\ UNCHANGED <<dealing, menuOpen, drawn>>

\* handleOverlayTap.
TapContinue ==
    /\ \/ game.phase = "MatchOver" /\ StartRound(NewMatch)
       \/ /\ game.phase = "RoundSummary" /\ game.round < MaxRounds
          /\ StartRound([game EXCEPT !.round = @ + 1])
    /\ UNCHANGED menuOpen
-----------------------------------------------------------------------------
(* Frames *)

Elapsed(timer) == IF timer > 0 THEN timer - 1 ELSE 0
Offered(g) == IF g.phase = "PlayerChooseCapture" THEN Cardinality(g.captures) ELSE 0

\* updateApp when the next hand is due.
DealNextHands ==
    /\ pending = 1
    /\ game' = [HandsDealt(game) EXCEPT !.turn = Starter(game), !.phase = Turn(Starter(game))]
    /\ pending' = 0
    /\ dealing' = DealTime
    /\ flights' = Elapsed(flights)
    /\ pause' = Elapsed(pause)
    /\ botDelay' = IF Starter(game) = 1 THEN BotTime ELSE 0
    /\ drawn' = 0
    /\ UNCHANGED menuOpen

\* The bot is to move: its delay runs only when nothing else goes on.
BotHears ==
    /\ game.phase = "BotTurn" /\ pending = 0
    /\ dealing <= 1 /\ flights <= 1 /\ pause <= 1

BotDue == BotHears /\ botDelay <= 1

UpdateBotTurn ==
    /\ BotDue
    /\ \E m \in BotMoves(game) : ApplyMove(1, m.card, m.option, 0, 0)
    /\ dealing' = 0
    /\ drawn' = 0
    /\ UNCHANGED menuOpen

\* updateApp, when it only lets time pass.
UpdateApp ==
    /\ pending # 1
    /\ ~BotDue
    /\ dealing' = Elapsed(dealing)
    /\ flights' = Elapsed(flights)
    /\ pause' = Elapsed(pause)
    /\ pending' = Elapsed(pending)
    /\ botDelay' = IF BotHears THEN botDelay - 1 ELSE botDelay
    /\ drawn' = Offered(game)
    /\ UNCHANGED <<game, menuOpen>>

Frame == DealNextHands \/ UpdateBotTurn \/ UpdateApp

Init ==
    /\ game \in RoundStarted(NewMatch)
    /\ dealing = DealTime
    /\ botDelay = IF Starter(NewMatch) = 1 THEN BotTime ELSE 0
    /\ flights = 0 /\ pause = 0 /\ pending = 0
    /\ menuOpen = FALSE
    /\ drawn = 0

Next ==
    \/ OpenMenu \/ CloseMenu \/ MenuNewGame
    \/ (\E i \in 1..HandCards : TapCard(i)) \/ TapCapture \/ TapContinue
    \/ Frame

Spec == Init /\ [][Next]_vars

\* The main loop never stops: frames follow one another.  Nothing is asked of the person.  The
\* last conjunct is weak fairness of UpdateBotTurn, which is enabled while the bot is due and
\* ends that.
FairSpec ==
    /\ Spec
    /\ WF_vars(UpdateApp) /\ WF_vars(DealNextHands)
    /\ []<>~BotDue
-----------------------------------------------------------------------------
(* Properties *)

Over == {"RoundSummary", "MatchOver"}
Hands == UNION {ToSet(game.hand[p]) : p \in Players}
Piles == UNION {game.pile[p] : p \in Players}

\* Every variable keeps its type.
ScopaTypeOK ==
    /\ game.deck \in Seq(Deck) /\ game.table \in Seq(Deck)
    /\ \A p \in Players : game.hand[p] \in Seq(Deck) /\ game.pile[p] \subseteq Deck
    /\ \A p \in Players : game.scope[p] \in Nat /\ game.score[p] \in Nat
    /\ game.phase \in Phases /\ game.turn \in Players
    /\ {game.lastCapturer, game.winner} \subseteq Players \cup {Nobody}
    /\ game.round \in 1..MaxRounds
    /\ game.selected \in 0..HandCards
    /\ \A o \in game.captures : o \subseteq DOMAIN game.table
    /\ {dealing, flights, pause, pending, botDelay, drawn} \subseteq Nat
    /\ menuOpen \in BOOLEAN

\* Captures erase several places of the table by index: no card is lost or doubled, whatever is
\* taken together and however rounds and matches are cut short.
CardsKept ==
    /\ ToSet(game.deck) \cup ToSet(game.table) \cup Hands \cup Piles = Deck
    /\ Len(game.deck) + Len(game.table) + Len(game.hand[0]) + Len(game.hand[1])
         + Cardinality(game.pile[0]) + Cardinality(game.pile[1]) = Cardinality(Deck)

\* The phase says what is due, whatever taps came.  Who is on turn has a card to play (the bot's
\* hand is indexed without asking) and as many as the other, or one more; exactly while a hand is
\* to be dealt, both hands are empty and the deck is not; the menu is only open in the phases
\* in which a tap can close it.
PhaseInStep ==
    /\ game.phase \in {"PlayerTurn", "PlayerChooseCapture", "BotTurn"} =>
          LET own == Len(game.hand[game.turn])
              others == Len(game.hand[1 - game.turn])
          IN own > 0 /\ own = others + (IF game.turn = Starter(game) THEN 0 ELSE 1)
    /\ pending > 0 <=> game.phase = "InitRound"
    /\ pending > 0 => Hands = {} /\ game.deck # <<>>
    /\ menuOpen => OnTurn

\* A round that is over has nothing left to play, and nothing on the table unless nobody ever
\* captured.
RoundSettled ==
    game.phase \in Over =>
        /\ game.deck = <<>> /\ Hands = {}
        /\ game.table = <<>> \/ Piles = {}

Taken == ToSet(game.table) \ ToSet(game'.table)

Legal(c, table, taken) ==
    \/ \E t \in table : Value(t) = Value(c) /\ taken = {t}
    \/ (\A t \in table : Value(t) # Value(c)) /\ SumOf(Value, taken) = Value(c)

\* A card was played and the round goes on.
PlayStep == game' # game /\ dealing' = 0 /\ game'.turn # game.turn /\ game'.phase \notin Over

\* What is captured is one card of the value played, or without such a card a sum, by the rules;
\* the pile of the player gets it and nothing else moves.
CapturesLegal ==
    [][PlayStep /\ Taken # {} =>
        \E c \in ToSet(game.hand[game.turn]) :
            /\ Legal(c, ToSet(game.table), Taken)
            /\ game'.pile[game.turn] = game.pile[game.turn] \cup {c} \cup Taken
            /\ ToSet(game'.hand[game.turn]) = ToSet(game.hand[game.turn]) \ {c}]_vars

\* A card that captures is not put on the table, but by a tap on an option drawn for another card.
MustCapture ==
    [][PlayStep =>
        \A c \in ToSet(game.hand[game.turn]) :
            c \in ToSet(game'.table) =>
                \/ \A taken \in SUBSET ToSet(game.table) : ~Legal(c, ToSet(game.table), taken)
                \/ game.phase = "PlayerChooseCapture" /\ drawn > Cardinality(game.captures)]_vars

Gain(p) == game'.pile[p] \ game.pile[p]

CanCapture ==
    \E c \in ToSet(game.hand[game.turn]), taken \in SUBSET ToSet(game.table) :
        Legal(c, ToSet(game.table), taken)

\* All that is left after the last play of a round, and the card played, goes to one player: to the
\* one who plays if that card captures or nobody captured since they did; to the other if the
\* other captured last, however long ago; to nobody if nobody ever captured.
LastCapturerSweeps ==
    [][/\ PlayStep =>
             game'.lastCapturer = IF Gain(game.turn) = {} THEN game.lastCapturer ELSE game.turn
       /\ game.phase \notin Over /\ game'.phase \in Over =>
             LET left == ToSet(game.table) \cup ToSet(game.hand[game.turn])
             IN /\ \A p \in Players : Gain(p) \in {{}, left}
                /\ Gain(game.turn) # {} => game.lastCapturer = game.turn \/ CanCapture
                /\ Gain(1 - game.turn) # {} => game.lastCapturer = 1 - game.turn
                /\ (\A p \in Players : Gain(p) = {}) => game.lastCapturer = Nobody]_vars

\* docs/scopa_gameplay_spec.md:94 of the client: "Neu co capture hop le, nguoi choi phai bat."
\* (if there is a legal capture, the player must capture), without exception.
AlwaysCaptures ==
    [][PlayStep =>
        \A c \in ToSet(game.hand[game.turn]) \cap ToSet(game'.table) :
            \A taken \in SUBSET ToSet(game.table) : ~Legal(c, ToSet(game.table), taken)]_vars

\* The order in which the bot ought to prefer captures: a scopa, the settebello, then denari, then cards.
Merits(m) ==
    LET cards == {game.hand[1][m.card]} \cup CardsAt(game.table, m.option)
    IN IF m.option = {} THEN <<0, 0, 0, 0>>
       ELSE <<IF Cardinality(m.option) = Len(game.table) /\ ~FinalPlay(game) THEN 1 ELSE 0,
              IF Settebello \in cards THEN 1 ELSE 0,
              Cardinality(OfSuit(cards, Denari)), Cardinality(cards)>>

Better(a, b) == \E k \in 1..4 : a[k] > b[k] /\ \A j \in 1..(k - 1) : a[j] = b[j]

\* The weights add up to that order: no sum of lesser merits outweighs a greater one.
BotFollowsPriorities ==
    [][UpdateBotTurn =>
        \E m \in Moves(game, 1) :
            /\ game' = Moved(game, 1, m.card, m.option)
            /\ \A n \in Moves(game, 1) : ~Better(Merits(n), Merits(m))]_vars

\* Whatever is left over from effects, deals and matches cut short, a round comes to its end if
\* the person plays on their turns and leaves the menu alone.
RoundEnds ==
    []<>(~OnTurn) /\ <>[](~menuOpen) => []<>(game.phase \in Over)
=============================================================================
