-------------------------- MODULE TressetteCards --------------------------
(***************************************************************************)
(* The deck of the server's Tressette: forty cards numbered 0..39, four    *)
(* suits, ten ranks, the strength and the value of a rank, and the pure    *)
(* functions over them that the match and its bots call.  Values are in    *)
(* thirds of a point (SERVER_SCORE_ONE_POINT = 3).                         *)
(***************************************************************************)
EXTENDS Integers

AllCards == 0..39
NoCard == -1
NoSuit == -1

OnePoint == 3

Suit(c) == c % 4
Rank(c) == c \div 4

\* TRESSETTE_CARD_STRONGS: 3, 2, ace, then king down to 4.
Strength(c) == IF Rank(c) <= 2 THEN 98 + Rank(c) ELSE 88 + Rank(c)

\* TRESSETTE_CARD_VALUES: an ace is a point, 2, 3 and the figures a third of one.
Value(c) == CASE Rank(c) = 0 -> OnePoint
              [] Rank(c) \in {1, 2, 7, 8, 9} -> 1
              [] OTHER -> 0

OfSuit(cards, s) == {c \in cards : Suit(c) = s}

\* What may answer a lead of suit s: that suit, or anything from a hand void in it.
Responses(cards, s) == IF OfSuit(cards, s) = {} THEN cards ELSE OfSuit(cards, s)

\* The suits of which the hand holds ace, 2 and 3.
FindNapoli(cards) == {s \in 0..3 : {s, s + 4, s + 8} \subseteq cards}

\* The points left once thirds that make no whole point are dropped.
Trim(p) == p - (p % OnePoint)

\* compared[seat] is the card the seat has on the table: the seat of the strongest
\* card of the suit led.
Winner(compared, led) ==
    CHOOSE i \in DOMAIN compared :
        /\ Suit(compared[i]) = led
        /\ \A j \in DOMAIN compared :
              Suit(compared[j]) = led => Strength(compared[j]) <= Strength(compared[i])
=============================================================================
