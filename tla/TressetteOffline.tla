------------------------- MODULE TressetteOffline -------------------------
(***************************************************************************)
(* Tressette without a server, in the native client (tressette_game.cpp):  *)
(* a person against one bot, or with a bot partner against two.  The main  *)
(* loop handles the taps and keys that have come, then runs updateApp,     *)
(* which works on the first of the animations and delays under way: one    *)
(* action for the end of each, after however many frames.                  *)
(*                                                                         *)
(* A deck is in the order in which it is dealt, a hand is a set.  Leaving  *)
(* for the lobby ends the program; sound and drawing change nothing.       *)
(***************************************************************************)
EXTENDS Integers, SequencesExt

CONSTANTS
    Shuffles,       \* the orders a deck may have: those of 0..39 in the code
    HandCards,      \* cards dealt to each: 10
    Target          \* kMatchWinThirds

Modes == {2, 4}         \* number of players

ASSUME OfflineAssumption ==
    /\ HandCards \in Nat \ {0} /\ Target \in Nat \ {0}
    /\ \A s \in Shuffles :
          /\ s \in Seq(0..39) /\ IsInjective(s)
          /\ \A n \in Modes : Len(s) >= n * HandCards /\ (Len(s) - n * HandCards) % n = 0
          /\ \A t \in Shuffles : ToSet(t) = ToSet(s)

VARIABLES
    game,           \* Game
    doing,          \* the flags and delays that are set
    flights,        \* cards on their way to the trick
    drawFlights,    \* cards on their way from the stock to a hand
    round,          \* roundNumber
    winner,         \* matchWinnerTeam
    menu            \* menuOpen, modePickerOpen

vars == <<game, doing, flights, drawFlights, round, winner, menu>>

Deck == UNION {ToSet(s) : s \in Shuffles}
Person == 0
Nobody == -1
Teams == {0, 1}
Stages == {"dealing", "stock", "collecting", "drawing", "compare", "transition", "bot"}
-----------------------------------------------------------------------------
(* Cards *)

Suit(c) == c % 4
Rank(c) == c \div 4 + 1
TrickPower(c) == <<8, 9, 10, 1, 2, 3, 4, 5, 6, 7>>[Rank(c)]
Thirds(c) == <<3, 1, 1, 0, 0, 0, 0, 1, 1, 1>>[Rank(c)]      \* cardPoints
ThirdsIn(cards) == Cardinality({x \in cards \X (1..3) : x[2] <= Thirds(x[1])})
-----------------------------------------------------------------------------
(* The rules: operators on a Game *)

TeamOf(p) == p % 2

\* Slip: the fourth player follows the second.
NextOfFour(g, p) == (p + 1) % 4
NextPlayer(g, p) == (p + 1) % g.players

AllHandsEmpty(g) == \A p \in DOMAIN g.hand : g.hand[p] = {}
Lead(g) == Suit(g.trick[1].card)

\* Slip: the suit of the last card is to be followed.
FollowsLast(g, p, c) ==
    LET suit == Suit(Last(g.trick).card)
    IN g.trick # <<>> /\ Suit(c) # suit => \A d \in g.hand[p] : Suit(d) # suit

\* The card follows suit, or its player cannot.
Follows(g, p, c) ==
    g.trick # <<>> /\ Suit(c) # Lead(g) => \A d \in g.hand[p] : Suit(d) # Lead(g)

CanPlay(g, p, c) == ~g.over /\ g.turn = p /\ Follows(g, p, c)

WinnerOfTrick(g) ==
    LET led == {i \in DOMAIN g.trick : Suit(g.trick[i].card) = Lead(g)}
    IN g.trick[CHOOSE i \in led :
                  \A j \in led : TrickPower(g.trick[i].card) >= TrickPower(g.trick[j].card)].owner

RoundPlayed(g) == g.deck = <<>> /\ AllHandsEmpty(g)

\* What the cards of the trick are worth.
TrickThirds(g) ==
    LET worth(i) == IF i \in DOMAIN g.trick THEN Thirds(g.trick[i].card) ELSE 0
    IN worth(1) + worth(2) + worth(3) + worth(4)

\* Slip: every trick counts one more once the stock is gone.
PointsOfStock(g) == TrickThirds(g) + (IF g.deck = <<>> THEN 1 ELSE 0)

\* currentTrickPoints, in thirds.
TrickPoints(g) == TrickThirds(g) + (IF RoundPlayed(g) THEN 1 ELSE 0)

\* finishTrick.
TrickFinished(g) ==
    LET w == WinnerOfTrick(g)
    IN [g EXCEPT !.tricks = @ + 1, !.over = @ \/ RoundPlayed(g),
                 !.points[TeamOf(w)] = @ + TrickPoints(g),
                 !.trick = <<>>, !.turn = w]

\* Hands dealt in turn to n players, and the stock that is left.
Deals ==
    [n \in Modes |->
        {[deck |-> SubSeq(s, n * HandCards + 1, Len(s)),
          hand |-> [p \in 0..3 |-> {s[i] : i \in {i \in 1..(n * HandCards) : (i - 1) % n = p}}]] :
         s \in Shuffles}]

\* newDeal: what the next dealer gives n players.
Dealt(n, dealer, points) ==
    {[deck |-> d.deck, hand |-> d.hand, trick |-> <<>>, points |-> points, players |-> n,
      dealer |-> dealer, turn |-> (dealer + 1) % n, tricks |-> 0, over |-> FALSE] : d \in Deals[n]}

\* chooseAutoCard: the weakest card that beats the card led, or else the cheapest; of equals the
\* first in the hand, which is in the order of the suits.
AutoCard(g, p) ==
    LET legal == {c \in g.hand[p] : CanPlay(g, p, c)}
        beats == {c \in legal : /\ g.trick # <<>> /\ Suit(c) = Lead(g)
                                /\ TrickPower(c) > TrickPower(g.trick[1].card)}
        cost(c) == 100 * Thirds(c) + 4 * TrickPower(c) + Suit(c)
    IN IF beats # {}
       THEN CHOOSE c \in beats : \A d \in beats : TrickPower(c) <= TrickPower(d)
       ELSE CHOOSE c \in legal : \A d \in legal : cost(c) <= cost(d)
-----------------------------------------------------------------------------
(* The table in time *)

MatchOver == winner # Nobody
Busy == MatchOver \/ doing # {} \/ flights # {}

\* Slip: of the bots only the first thinks.
FirstBot(g) == IF g.turn = 1 THEN {"bot"} ELSE {}

\* A bot on turn thinks.
BotDelay(g) == IF g.turn # Person THEN {"bot"} ELSE {}

NewDeal(n, points, number) ==
    /\ game' \in Dealt(n, (game.dealer + 1) % n, points)
    /\ round' = number
    /\ doing' = {"dealing"}
    /\ flights' = {}
    /\ drawFlights' = <<>>
    /\ winner' = Nobody

NoPoints == [t \in Teams |-> 0]

\* startPlayCard, for a card that can be played.
StartPlayCard(p, c) ==
    /\ game' = [game EXCEPT !.hand[p] = @ \ {c}, !.turn = Nobody]
    /\ flights' = flights \cup {[card |-> c, owner |-> p]}
-----------------------------------------------------------------------------
(* Taps and keys *)

\* Key N at any time, or a tap on New Game when the match is over.
NewGame == NewDeal(game.players, NoPoints, 1) /\ UNCHANGED menu

OpenMenu ==
    /\ ~MatchOver
    /\ menu = "closed"
    /\ menu' = "open"
    /\ UNCHANGED <<game, doing, flights, drawFlights, round, winner>>

OpenPicker ==
    /\ ~MatchOver
    /\ menu = "open"
    /\ menu' = "picker"
    /\ UNCHANGED <<game, doing, flights, drawFlights, round, winner>>

CloseMenu ==
    /\ ~MatchOver
    /\ menu # "closed"
    /\ menu' = "closed"
    /\ UNCHANGED <<game, doing, flights, drawFlights, round, winner>>

PickMode(n) ==
    /\ ~MatchOver
    /\ menu = "picker"
    /\ menu' = "closed"
    /\ NewDeal(n, NoPoints, 1)

\* A card the person may play; a tap on any other only shows a message.
MayTap(c) == /\ ~Busy
             /\ game.turn = Person
             /\ c \in game.hand[Person] /\ CanPlay(game, Person, c)

TapCard(c) ==
    /\ menu = "closed"
    /\ MayTap(c)
    /\ StartPlayCard(Person, c)
    /\ UNCHANGED <<doing, drawFlights, round, winner, menu>>
-----------------------------------------------------------------------------
(* updateApp: nothing once the match is over, else the first of what is under way *)

Before(stage) ==
    CASE stage = "dealing" -> {}
      [] stage = "stock" -> {"dealing"}
      [] stage = "collecting" -> {"dealing", "stock"}
      [] stage = "drawing" -> {"dealing", "stock", "collecting"}
      [] stage \in {"flight", "transition"} -> {"dealing", "stock", "collecting", "drawing"}
      [] stage = "compare" -> {"dealing", "stock", "collecting", "drawing"}
      [] stage = "bot" -> {"dealing", "stock", "collecting", "drawing", "compare", "transition"}

Due(stage) == ~MatchOver /\ stage \in doing /\ doing \cap Before(stage) = {}
Follow(stage, next) == doing' = (doing \ {stage}) \cup next

DealingEnds ==
    /\ Due("dealing")
    /\ Follow("dealing", {"stock"})
    /\ UNCHANGED <<game, flights, drawFlights, round, winner, menu>>

StockPlaced ==
    /\ Due("stock")
    /\ Follow("stock", BotDelay(game))
    /\ UNCHANGED <<game, flights, drawFlights, round, winner, menu>>

\* Slip: the target is asked for only when the round is over.
WinnerAfterRound(g) ==
    IF ~g.over \/ (\A t \in Teams : g.points[t] < Target) THEN Nobody
    ELSE IF g.points[0] > g.points[1] THEN 0 ELSE 1

ReachedBy(g) == {t \in Teams : g.points[t] >= Target}

\* resolvedMatchWinnerTeam, once a team has the target.
WinnerAt(g) ==
    IF ReachedBy(g) = {} \/ g.points[0] = g.points[1] THEN Nobody
    ELSE IF g.points[0] > g.points[1] THEN 0 ELSE 1

\* Slip: cards are drawn around a table of four.
DrawnByFour(g) ==
    [k \in 1..(IF Len(g.deck) < g.players THEN Len(g.deck) ELSE g.players) |->
        [card |-> g.deck[k], owner |-> (g.turn + k - 1) % 4]]

\* startDrawCards: from the winner of the trick on, a card each while there are any.
Drawn(g) ==
    [k \in 1..(IF Len(g.deck) < g.players THEN Len(g.deck) ELSE g.players) |->
        [card |-> g.deck[k], owner |-> (g.turn + k - 1) % g.players]]

\* Slip: the next round is left to the person to start.
NoNextRound(g) ==
    IF g.over THEN {}
    ELSE IF g.deck # <<>> THEN {"drawing"}
    ELSE BotDelay(g)

\* What follows a trick when nobody has the target yet.
AfterTrick(g) ==
    IF g.over THEN {"transition"}
    ELSE IF g.deck # <<>> THEN {"drawing"}
    ELSE BotDelay(g)

TrickCollected ==
    LET g == TrickFinished(game)
        draws == ReachedBy(g) = {} /\ ~g.over
    IN /\ Due("collecting")
       /\ winner' = WinnerAt(g)
       /\ game' = IF ReachedBy(g) # {} THEN [g EXCEPT !.over = TRUE]
                  ELSE IF draws THEN [g EXCEPT !.deck = SubSeq(@, Len(Drawn(g)) + 1, Len(@))]
                  ELSE g
       /\ drawFlights' = IF draws THEN Drawn(g) ELSE drawFlights
       /\ Follow("collecting", IF ReachedBy(g) # {} THEN {} ELSE AfterTrick(g))
       /\ UNCHANGED <<flights, round, menu>>

CardDrawn ==
    /\ Due("drawing")
    /\ drawFlights # <<>>
    /\ game' = [game EXCEPT !.hand[Head(drawFlights).owner] = @ \cup {Head(drawFlights).card}]
    /\ drawFlights' = Tail(drawFlights)
    /\ UNCHANGED <<doing, flights, round, winner, menu>>

DrawingEnds ==
    /\ Due("drawing")
    /\ drawFlights = <<>>
    /\ Follow("drawing", IF game.over THEN {} ELSE BotDelay(game))
    /\ UNCHANGED <<game, flights, drawFlights, round, winner, menu>>

\* completeFlight.
CompleteFlight(f) ==
    LET played == [game EXCEPT !.trick = Append(@, f)]
        full == Len(played.trick) = game.players
        g == IF full THEN played ELSE [played EXCEPT !.turn = NextPlayer(game, f.owner)]
    IN /\ ~MatchOver /\ doing \cap Before("flight") = {}
       /\ f \in flights
       /\ game' = g
       /\ flights' = flights \ {f}
       /\ doing' = doing \cup (IF full THEN {"compare"} ELSE BotDelay(g))
       /\ UNCHANGED <<drawFlights, round, winner, menu>>

TrickCompared ==
    /\ Due("compare") /\ flights = {}
    /\ Follow("compare", {"collecting"})
    /\ UNCHANGED <<game, flights, drawFlights, round, winner, menu>>

NextRound ==
    /\ Due("transition")
    /\ NewDeal(game.players, game.points, round + 1)
    /\ UNCHANGED menu

StartBotCard ==
    /\ Due("bot") /\ flights = {}
    /\ Follow("bot", {})
    /\ IF ~game.over /\ game.turn \in 1..(game.players - 1) /\ game.hand[game.turn] # {}
       THEN StartPlayCard(game.turn, AutoCard(game, game.turn))
       ELSE UNCHANGED <<game, flights>>
    /\ UNCHANGED <<drawFlights, round, winner, menu>>

UpdateApp ==
    \/ DealingEnds \/ StockPlaced \/ TrickCollected \/ CardDrawn \/ DrawingEnds
    \/ (\E f \in flights : CompleteFlight(f)) \/ TrickCompared \/ NextRound \/ StartBotCard

Init ==
    /\ game \in Dealt(2, 0, NoPoints)
    /\ doing = {"dealing"}
    /\ flights = {} /\ drawFlights = <<>>
    /\ round = 1
    /\ winner = Nobody
    /\ menu = "closed"

Next ==
    \/ NewGame \/ OpenMenu \/ OpenPicker \/ CloseMenu \/ (\E n \in Modes : PickMode(n))
    \/ (\E c \in Deck : TapCard(c))
    \/ UpdateApp

Spec == Init /\ [][Next]_vars

\* The main loop never stops and animations end by themselves.  Nothing is asked of the person.
FairSpec == Spec /\ WF_vars(UpdateApp)
-----------------------------------------------------------------------------
(* Properties *)

Players == 0..(game.players - 1)

Out == ToSet(game.trick) \cup flights \cup ToSet(drawFlights)
HeldBy(p) == game.hand[p] \cup {t.card : t \in {t \in Out : t.owner = p}}
CardsLeft == ToSet(game.deck) \cup UNION {HeldBy(p) : p \in Players}

\* Every variable keeps its type.
OfflineTypeOK ==
    /\ game.deck \in Seq(Deck)
    /\ game.hand \in [0..3 -> SUBSET Deck]
    /\ game.points \in [Teams -> Nat]
    /\ game.players \in Modes /\ game.dealer \in Players /\ game.turn \in Players \cup {Nobody}
    /\ game.tricks \in Nat /\ game.over \in BOOLEAN
    /\ Out \subseteq [card : Deck, owner : Players]
    /\ doing \subseteq Stages
    /\ round \in Nat \ {0}
    /\ winner \in Teams \cup {Nobody}
    /\ menu \in {"closed", "open", "picker"}

\* Cards are popped from the deck, fly to hands and to the trick, and a new deal may come in the
\* middle of it: all players always have equally many, counting those in the trick and on their
\* way, and each card is in one place until its trick is taken.
CardsEven ==
    /\ \A p, q \in Players : Cardinality(HeldBy(p)) = Cardinality(HeldBy(q))
    /\ \A p \in 0..3 \ Players : game.hand[p] = {}
    /\ Len(game.deck) + game.players * Cardinality(HeldBy(Person)) = Cardinality(CardsLeft)
    /\ Cardinality(CardsLeft) + game.players * game.tricks = Cardinality(Deck)

\* What both teams have and what is still to be won add up to that many rounds of the match: no
\* trick is counted twice or lost between the rounds, and each round has one last trick.
PointsAddUp ==
    game.points[0] + game.points[1] + ThirdsIn(CardsLeft) + (IF CardsLeft = {} THEN 0 ELSE 1)
        = round * (ThirdsIn(Deck) + 1)

\* The person is to play and can.
PersonDue == game.turn = Person /\ \E c \in game.hand[Person] : CanPlay(game, Person, c)

\* The seven flags and delays and the flights are set and cleared one by one.  Never are two
\* under way together, and when none is, the match is over or the person has a card to play: the
\* table never hangs, not even where resolvedMatchWinnerTeam has no answer.
OneThingDue ==
    LET underWay == Cardinality(doing) + Cardinality(flights)
    IN underWay = 1 \/ (underWay = 0 /\ (MatchOver \/ PersonDue))

\* The match is over exactly when a team has the target, and that team is ahead.
MatchDecided ==
    /\ MatchOver <=> ReachedBy(game) # {}
    /\ MatchOver => game.points[winner] > game.points[1 - winner]

\* The cards of a trick came one after the other around the table, and who did not follow the
\* suit led has none of it.
TrickFollows ==
    \A i \in DOMAIN game.trick :
        LET t == game.trick[i]
        IN /\ i > 1 => t.owner = (game.trick[i - 1].owner + 1) % game.players
           /\ Suit(t.card) = Lead(game) \/ \A c \in game.hand[t.owner] : Suit(c) # Lead(game)

\* If the person plays when due, match after match comes to its end, unless they keep asking for
\* a new one: the bots always find a card and no round hangs.
MatchEnds ==
    []<>~(PersonDue /\ ~Busy) => []<>MatchOver \/ []<>(round = 1 /\ doing = {"dealing"})

\* README.md:75 of the client: "Scoring: A = 1, 3/2/Fante/Cavallo/Re = 1/3, other cards = 0;
\* last trick +1": an ace is three thirds, and so is the last trick.
LastTrickIsAPoint ==
    [][TrickCollected /\ CardsLeft' = {} =>
        game'.points[0] + game'.points[1]
            = game.points[0] + game.points[1] + ThirdsIn(CardsLeft) + Thirds(0)]_vars
=============================================================================
